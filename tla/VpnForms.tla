------------------------------- MODULE VpnForms --------------------------------
(***************************************************************************)
(* The forms of the VPN pages: L2TP, PPTP and SSTP (one set of components  *)
(* for the three), IPsec and OpenConnect.                                  *)
(*                                                                         *)
(* Left out: the parts of an IPsec peer that are only shown (VTI, X.509,   *)
(* RSA and PPK settings), and the DHCP settings of IPsec remote access.    *)
(***************************************************************************)
EXTENDS Forms

-----------------------------------------------------------------------------
(* lib/vpnAccelPpp*.ts *)

AccelPppLocalUser ==
  Texts({"staticIp", "rateLimitUpload", "rateLimitDownload"})
  @@ Flags({"disabled"})
  @@ Secrets({"hasPassword"})

AccelPppClientIpPool ==
  Texts({"nextPool"})
  @@ Lists({"ranges"})

AccelPppClientIpv6PoolPrefix ==
  Texts({"mask"})

AccelPppRadiusServer ==
  Texts({"port"})
  @@ Secrets({"hasKey"})

AccelPppAuthentication ==
  Texts({"authMode", "radiusAccountingInterimInterval", "radiusTimeout", "radiusNasIdentifier"})
  @@ Lists({"authProtocols"})

AccelPppExtendedScripts ==
  Texts({"onPreUp", "onUp", "onDown", "onChange"})

L2tpIpsecSettings ==
  Texts({"ipsecAuthMode", "ikeLifetime", "espLifetime"}) @@ Secrets({"hasIpsecPresharedSecret"})

L2tpLns ==
  Texts({"lnsHostName"}) @@ Secrets({"hasLnsSharedSecret"})

SstpSsl ==
  Texts({"caCertificate", "certificate"})

AccelPppConfig ==
  Texts({"description", "defaultPool", "defaultIpv6Pool", "gatewayAddress", "maxConcurrentSessions", "mtu",
         "shaperFwmark", "threadCount", "logLevel", "connectionLimit", "burst", "limitsTimeout", "minMtu", "mru",
         "mppe", "lcpEchoInterval", "lcpEchoFailure", "lcpEchoTimeout", "ipv4", "ipv6"})
  @@ Flags({"snmpMasterAgent", "disableCcp"})
  @@ Lists({"nameServers", "winsServers"})

parseAccelPppLocalUser ==
  [disabled |-> <<"disable">>, staticIp |-> <<"static-ip">>, rateLimitUpload |-> <<"rate-limit", "upload">>,
   rateLimitDownload |-> <<"rate-limit", "download">>, hasPassword |-> {<<"password">>}]

parseAccelPppRadiusServer ==
  [port |-> <<"port">>, hasKey |-> {<<"key">>}]

parseAccelPppAuthentication ==
  [authMode |-> <<"authentication", "mode">>, authProtocols |-> <<"authentication", "protocols">>,
   radiusAccountingInterimInterval |-> <<"authentication", "radius", "accounting-interim-interval">>,
   radiusTimeout |-> <<"authentication", "radius", "timeout">>,
   radiusNasIdentifier |-> <<"authentication", "radius", "nas-identifier">>]

parseClientIpPool ==
  [ranges |-> <<"range">>, nextPool |-> <<"next-pool">>]

parseIpv6PoolPrefix ==
  [mask |-> <<"mask">>]

parseExtendedScripts ==
  [onPreUp |-> <<"extended-scripts", "on-pre-up">>, onUp |-> <<"extended-scripts", "on-up">>,
   onDown |-> <<"extended-scripts", "on-down">>, onChange |-> <<"extended-scripts", "on-change">>]

parseL2tpIpsecSettings ==
  [ipsecAuthMode |-> <<"ipsec-settings", "authentication", "mode">>, ikeLifetime |-> <<"ipsec-settings", "ike-lifetime">>,
   espLifetime |-> <<"ipsec-settings", "lifetime">>,
   hasIpsecPresharedSecret |-> {<<"ipsec-settings", "authentication", "pre-shared-secret">>}]

parseL2tpLns ==
  [lnsHostName |-> <<"lns", "host-name">>, hasLnsSharedSecret |-> {<<"lns", "shared-secret">>}]

parseSstpSsl ==
  [caCertificate |-> <<"ssl", "ca-certificate">>, certificate |-> <<"ssl", "certificate">>]

parseAccelPppConfig ==
  [description |-> <<"description">>, defaultPool |-> <<"default-pool">>,
   defaultIpv6Pool |-> <<"default-ipv6-pool">>, gatewayAddress |-> <<"gateway-address">>,
   maxConcurrentSessions |-> <<"max-concurrent-sessions">>, mtu |-> <<"mtu">>,
   nameServers |-> <<"name-server">>, shaperFwmark |-> <<"shaper", "fwmark">>,
   snmpMasterAgent |-> <<"snmp", "master-agent">>, threadCount |-> <<"thread-count">>,
   winsServers |-> <<"wins-server">>, logLevel |-> <<"log", "level">>,
   connectionLimit |-> <<"limits", "connection-limit">>, burst |-> <<"limits", "burst">>,
   limitsTimeout |-> <<"limits", "timeout">>,
   minMtu |-> <<"ppp-options", "min-mtu">>, mru |-> <<"ppp-options", "mru">>,
   disableCcp |-> <<"ppp-options", "disable-ccp">>, mppe |-> <<"ppp-options", "mppe">>,
   lcpEchoInterval |-> <<"ppp-options", "lcp-echo-interval">>,
   lcpEchoFailure |-> <<"ppp-options", "lcp-echo-failure">>,
   lcpEchoTimeout |-> <<"ppp-options", "lcp-echo-timeout">>, ipv4 |-> <<"ppp-options", "ipv4">>,
   ipv6 |-> <<"ppp-options", "ipv6">>]

addAccelPppLocalUserOps ==
  SecretFields([password |-> <<"password">>])
  @@ ScalarFields([staticIp |-> <<"static-ip">>, rateLimitUpload |-> <<"rate-limit", "upload">>,
                   rateLimitDownload |-> <<"rate-limit", "download">>])

addAccelPppRadiusServerOps ==
  SecretFields([key |-> <<"key">>]) @@ ScalarFields([port |-> <<"port">>])

addAccelPppClientIpPoolOps ==
  ListFields([ranges |-> <<"range">>]) @@ ScalarFields([nextPool |-> <<"next-pool">>])

addAccelPppClientIpv6PoolPrefixOps ==
  ScalarFields([mask |-> <<"mask">>])

accelPppSettingsFormToOps ==
  ScalarFields([description |-> <<"description">>, defaultPool |-> <<"default-pool">>,
                defaultIpv6Pool |-> <<"default-ipv6-pool">>, gatewayAddress |-> <<"gateway-address">>,
                connectionLimit |-> <<"limits", "connection-limit">>, burst |-> <<"limits", "burst">>,
                limitsTimeout |-> <<"limits", "timeout">>,
                maxConcurrentSessions |-> <<"max-concurrent-sessions">>, mtu |-> <<"mtu">>,
                minMtu |-> <<"ppp-options", "min-mtu">>, mru |-> <<"ppp-options", "mru">>,
                mppe |-> <<"ppp-options", "mppe">>,
                lcpEchoInterval |-> <<"ppp-options", "lcp-echo-interval">>,
                lcpEchoFailure |-> <<"ppp-options", "lcp-echo-failure">>,
                lcpEchoTimeout |-> <<"ppp-options", "lcp-echo-timeout">>,
                ipv4 |-> <<"ppp-options", "ipv4">>, ipv6 |-> <<"ppp-options", "ipv6">>,
                shaperFwmark |-> <<"shaper", "fwmark">>, threadCount |-> <<"thread-count">>,
                logLevel |-> <<"log", "level">>, onPreUp |-> <<"extended-scripts", "on-pre-up">>,
                onUp |-> <<"extended-scripts", "on-up">>, onDown |-> <<"extended-scripts", "on-down">>,
                onChange |-> <<"extended-scripts", "on-change">>])
  @@ FlagFields([disableCcp |-> <<"ppp-options", "disable-ccp">>, snmpMasterAgent |-> <<"snmp", "master-agent">>])

-----------------------------------------------------------------------------
(* lib/vpnIpsec*.ts *)

IPsecPsk ==
  Texts({"secretType"})
  @@ Lists({"ids", "dhcpInterfaces"})
  @@ Secrets({"hasSecret"})

IPsecPpk ==
  Texts({"secretType"})
  @@ Lists({"ids"})
  @@ Secrets({"hasSecret"})

IPsecEspProposal ==
  Texts({"encryption", "hash", "esn"})

IPsecEspGroup ==
  Texts({"lifetime", "lifeBytes", "lifePackets", "mode", "pfs"})
  @@ Flags({"compression", "disableRekey"})

IPsecIkeProposal ==
  Texts({"dhGroup", "prf", "encryption", "hash", "esn"})

IPsecIkeGroup ==
  Texts({"closeAction", "dpdAction", "dpdInterval", "dpdTimeout", "keyExchange", "lifetime", "mode"})
  @@ Flags({"ikev2Reauth", "disableMobike"})

IPsecPeerAuthentication ==
  Texts({"localId", "remoteId", "authMode"}) @@ Flags({"useX509Id"})

IPsecTunnel ==
  Texts({"espGroup", "localPort", "protocol", "priority", "remotePort"})
  @@ Flags({"disabled"})
  @@ Lists({"localPrefixes", "remotePrefixes"})

IPsecPeer ==
  Texts({"childless", "connectionType", "defaultEspGroup", "description", "dhcpInterface", "ikeGroup",
         "ikev2Reauth", "localAddress", "replayWindow"})
  @@ Flags({"disabled", "forceUdpEncapsulation"})
  @@ Lists({"remoteAddresses", "virtualAddresses"})

IPsecRemoteAccessLocalUser ==
  Flags({"disabled"})
  @@ Secrets({"hasPassword"})

IPsecRemoteAccessAuthentication ==
  Texts({"localId", "eapId", "clientMode", "serverMode"})
  @@ Flags({"alwaysSendCert"})
  @@ Secrets({"hasPreSharedSecret"})

IPsecRemoteAccessConnection ==
  Texts({"childless", "description", "espGroup", "ikeGroup", "localAddress", "dhcpInterface",
         "localTrafficSelectorPort", "replayWindow", "bind", "timeout", "unique"})
  @@ Flags({"disabled"})
  @@ Lists({"localTrafficSelectorPrefixes", "pools"})

IPsecRemoteAccessPool ==
  Texts({"prefix", "rangeStart", "rangeStop"})
  @@ Lists({"excludePrefixes", "nameServers"})

IPsecRemoteAccessRadiusServer ==
  Texts({"port"})
  @@ Flags({"disabled", "disableAccounting"})
  @@ Secrets({"hasKey"})

IPsecRemoteAccessRadius ==
  Texts({"sourceAddress", "timeout", "nasIdentifier"})

IPsecOptions ==
  Texts({"interface", "retransmissionAttempts", "retransmissionBase", "retransmissionTimeout"})
  @@ Flags({"disableRouteAutoinstall", "flexvpn", "virtualIp"})

IPsecConfig ==
  Flags({"disableUniqreqids"})

parsePsk ==
  [ids |-> <<"id">>, secretType |-> <<"secret-type">>, dhcpInterfaces |-> <<"dhcp-interface">>,
   hasSecret |-> {<<"secret">>}]

parsePpk ==
  [ids |-> <<"id">>, secretType |-> <<"secret-type">>, hasSecret |-> {<<"secret">>}]

parseEspProposal ==
  [encryption |-> <<"encryption">>, hash |-> <<"hash">>, esn |-> <<"esn">>]

parseEspGroup ==
  [compression |-> <<"compression">>, lifetime |-> <<"lifetime">>, lifeBytes |-> <<"life-bytes">>,
   lifePackets |-> <<"life-packets">>, disableRekey |-> <<"disable-rekey">>, mode |-> <<"mode">>,
   pfs |-> <<"pfs">>]

parseIkeProposal ==
  [dhGroup |-> <<"dh-group">>, prf |-> <<"prf">>, encryption |-> <<"encryption">>, hash |-> <<"hash">>,
   esn |-> <<"esn">>]

parseIkeGroup ==
  [closeAction |-> <<"close-action">>, dpdAction |-> <<"dead-peer-detection", "action">>,
   dpdInterval |-> <<"dead-peer-detection", "interval">>, dpdTimeout |-> <<"dead-peer-detection", "timeout">>,
   ikev2Reauth |-> <<"ikev2-reauth">>, keyExchange |-> <<"key-exchange">>, lifetime |-> <<"lifetime">>,
   disableMobike |-> <<"disable-mobike">>, mode |-> <<"mode">>]

parsePeerAuthentication ==
  [localId |-> <<"authentication", "local-id">>, remoteId |-> <<"authentication", "remote-id">>,
   authMode |-> <<"authentication", "mode">>, useX509Id |-> <<"authentication", "use-x509-id">>]

parseTunnel ==
  [disabled |-> <<"disable">>, espGroup |-> <<"esp-group">>, localPort |-> <<"local", "port">>,
   localPrefixes |-> <<"local", "prefix">>, protocol |-> <<"protocol">>, priority |-> <<"priority">>,
   remotePort |-> <<"remote", "port">>, remotePrefixes |-> <<"remote", "prefix">>]

parsePeer ==
  [disabled |-> <<"disable">>, childless |-> <<"childless">>, connectionType |-> <<"connection-type">>,
   defaultEspGroup |-> <<"default-esp-group">>, description |-> <<"description">>,
   dhcpInterface |-> <<"dhcp-interface">>, forceUdpEncapsulation |-> <<"force-udp-encapsulation">>,
   ikeGroup |-> <<"ike-group">>, ikev2Reauth |-> <<"ikev2-reauth">>, localAddress |-> <<"local-address">>,
   remoteAddresses |-> <<"remote-address">>, replayWindow |-> <<"replay-window">>,
   virtualAddresses |-> <<"virtual-address">>]

parseRemoteAccessLocalUser ==
  [disabled |-> <<"disable">>, hasPassword |-> {<<"password">>}]

parseRemoteAccessAuthentication ==
  [localId |-> <<"authentication", "local-id">>, eapId |-> <<"authentication", "eap-id">>,
   clientMode |-> <<"authentication", "client-mode">>,
   alwaysSendCert |-> <<"authentication", "always-send-cert">>,
   serverMode |-> <<"authentication", "server-mode">>,
   hasPreSharedSecret |-> {<<"authentication", "pre-shared-secret">>}]

parseConnection ==
  [childless |-> <<"childless">>, description |-> <<"description">>, disabled |-> <<"disable">>,
   espGroup |-> <<"esp-group">>, ikeGroup |-> <<"ike-group">>, localAddress |-> <<"local-address">>,
   dhcpInterface |-> <<"dhcp-interface">>, localTrafficSelectorPort |-> <<"local-traffic-selector", "port">>,
   localTrafficSelectorPrefixes |-> <<"local-traffic-selector", "prefix">>,
   replayWindow |-> <<"replay-window">>, bind |-> <<"bind">>, timeout |-> <<"timeout">>, pools |-> <<"pool">>,
   unique |-> <<"unique">>]

parsePool ==
  [excludePrefixes |-> <<"exclude">>, prefix |-> <<"prefix">>, rangeStart |-> <<"range", "start">>,
   rangeStop |-> <<"range", "stop">>, nameServers |-> <<"name-server">>]

parseRemoteAccessRadiusServer ==
  [disabled |-> <<"disable">>, port |-> <<"port">>, disableAccounting |-> <<"disable-accounting">>,
   hasKey |-> {<<"key">>}]

parseRemoteAccessRadius ==
  [sourceAddress |-> <<"source-address">>, timeout |-> <<"timeout">>, nasIdentifier |-> <<"nas-identifier">>]

parseOptions ==
  [disableRouteAutoinstall |-> <<"disable-route-autoinstall">>, flexvpn |-> <<"flexvpn">>, interface |-> <<"interface">>,
   virtualIp |-> <<"virtual-ip">>, retransmissionAttempts |-> <<"retransmission", "attempts">>,
   retransmissionBase |-> <<"retransmission", "base">>, retransmissionTimeout |-> <<"retransmission", "timeout">>]

parseIPsecConfig ==
  [disableUniqreqids |-> <<"disable-uniqreqids">>]

addPskOps ==
  ListFields([ids |-> <<"id">>]) @@ SecretFields([secret |-> <<"secret">>]) @@ ScalarFields([secretType |-> <<"secret-type">>])

addPpkOps ==
  ListFields([ids |-> <<"id">>]) @@ SecretFields([secret |-> <<"secret">>]) @@ ScalarFields([secretType |-> <<"secret-type">>])

espGroupFormToOps ==
  ScalarFields([lifetime |-> <<"lifetime">>, lifeBytes |-> <<"life-bytes">>, lifePackets |-> <<"life-packets">>,
                mode |-> <<"mode">>, pfs |-> <<"pfs">>])
  @@ FlagFields([compression |-> <<"compression">>, disableRekey |-> <<"disable-rekey">>])

addEspProposalOps ==
  ScalarFields([encryption |-> <<"encryption">>, hash |-> <<"hash">>, esn |-> <<"esn">>])

ikeGroupFormToOps ==
  ScalarFields([closeAction |-> <<"close-action">>, dpdAction |-> <<"dead-peer-detection", "action">>,
                dpdInterval |-> <<"dead-peer-detection", "interval">>,
                dpdTimeout |-> <<"dead-peer-detection", "timeout">>, keyExchange |-> <<"key-exchange">>,
                lifetime |-> <<"lifetime">>, mode |-> <<"mode">>])
  @@ FlagFields([ikev2Reauth |-> <<"ikev2-reauth">>, disableMobike |-> <<"disable-mobike">>])

addIkeProposalOps ==
  ScalarFields([dhGroup |-> <<"dh-group">>, prf |-> <<"prf">>, encryption |-> <<"encryption">>,
                hash |-> <<"hash">>, esn |-> <<"esn">>])

peerFormToOps ==
  ScalarFields([authMode |-> <<"authentication", "mode">>, localId |-> <<"authentication", "local-id">>,
                remoteId |-> <<"authentication", "remote-id">>, childless |-> <<"childless">>,
                connectionType |-> <<"connection-type">>, defaultEspGroup |-> <<"default-esp-group">>,
                description |-> <<"description">>, ikeGroup |-> <<"ike-group">>,
                ikev2Reauth |-> <<"ikev2-reauth">>, localAddress |-> <<"local-address">>,
                replayWindow |-> <<"replay-window">>])
  @@ FlagFields([disabled |-> <<"disable">>, useX509Id |-> <<"authentication", "use-x509-id">>,
                 forceUdpEncapsulation |-> <<"force-udp-encapsulation">>])

addTunnelOps ==
  RawFields([espGroup |-> <<"esp-group">>, protocol |-> <<"protocol">>])

connectionFormToOps ==
  ScalarFields([description |-> <<"description">>, espGroup |-> <<"esp-group">>, ikeGroup |-> <<"ike-group">>,
                localAddress |-> <<"local-address">>, clientMode |-> <<"authentication", "client-mode">>,
                serverMode |-> <<"authentication", "server-mode">>, eapId |-> <<"authentication", "eap-id">>,
                timeout |-> <<"timeout">>, unique |-> <<"unique">>])
  @@ SecretFields([hasPreSharedSecret |-> <<"authentication", "pre-shared-secret">>])
  @@ FlagFields([disabled |-> <<"disable">>])

addRemoteAccessLocalUserOps ==
  SecretFields([password |-> <<"password">>])

addRemoteAccessPoolOps ==
  ScalarFields([prefix |-> <<"prefix">>, rangeStart |-> <<"range", "start">>, rangeStop |-> <<"range", "stop">>])

addRemoteAccessRadiusServerOps ==
  SecretFields([key |-> <<"key">>]) @@ ScalarFields([port |-> <<"port">>])

remoteAccessRadiusSettingsFormToOps ==
  ScalarFields([sourceAddress |-> <<"source-address">>, timeout |-> <<"timeout">>,
                nasIdentifier |-> <<"nas-identifier">>])

optionsFormToOps ==
  ScalarFields([interface |-> <<"interface">>, retransmissionAttempts |-> <<"retransmission", "attempts">>,
                retransmissionBase |-> <<"retransmission", "base">>,
                retransmissionTimeout |-> <<"retransmission", "timeout">>])
  @@ FlagFields([disableRouteAutoinstall |-> <<"disable-route-autoinstall">>, flexvpn |-> <<"flexvpn">>,
                 virtualIp |-> <<"virtual-ip">>])

-----------------------------------------------------------------------------
(* lib/vpnOpenconnect*.ts *)

OpenconnectRadiusServer ==
  Texts({"port"})
  @@ Flags({"disabled"})
  @@ Secrets({"hasKey"})

OpenconnectLocalUser ==
  Texts({"otpLength", "otpInterval", "otpTokenType"})
  @@ Flags({"disabled"})
  @@ Secrets({"hasPassword", "hasOtpKey"})

OpenconnectAuthentication ==
  Texts({"localAuthMode", "certificateUserIdentifierField", "radiusTimeout"})
  @@ Flags({"radiusAuthEnabled", "radiusGroupconfig"})
  @@ Lists({"groups"})

OpenconnectSsl ==
  Texts({"certificate"})
  @@ Lists({"caCertificates"})
  @@ Secrets({"hasPassphrase"})

OpenconnectNetworkSettings ==
  Texts({"clientIpv4Subnet", "tunnelAllDns", "clientIpv6PoolPrefix", "clientIpv6PoolMask"})
  @@ Lists({"pushRoutes", "nameServers", "splitDns"})

OpenconnectConfig ==
  Texts({"listenAddress", "tlsVersionMin", "listenPortTcp", "listenPortUdp", "scriptConnect", "scriptDisconnect"})
  @@ Flags({"httpSecurityHeaders"})

parseOpenconnectRadiusServer ==
  [disabled |-> <<"disable">>, port |-> <<"port">>, hasKey |-> {<<"key">>}]

parseOpenconnectLocalUser ==
  [disabled |-> <<"disable">>, hasPassword |-> {<<"password">>}, hasOtpKey |-> {<<"otp", "key">>},
   otpLength |-> <<"otp", "otp-length">>, otpInterval |-> <<"otp", "interval">>, otpTokenType |-> <<"otp", "token-type">>]

parseOpenconnectAuthentication ==
  [localAuthMode |-> <<"authentication", "mode", "local">>, radiusAuthEnabled |-> <<"authentication", "mode", "radius">>,
   certificateUserIdentifierField |-> <<"authentication", "mode", "certificate", "user-identifier-field">>,
   groups |-> <<"authentication", "group">>, radiusTimeout |-> <<"authentication", "radius", "timeout">>,
   radiusGroupconfig |-> <<"authentication", "radius", "groupconfig">>]

parseSsl ==
  [caCertificates |-> <<"ssl", "ca-certificate">>, certificate |-> <<"ssl", "certificate">>,
   hasPassphrase |-> {<<"ssl", "passphrase">>}]

parseNetworkSettings ==
  [pushRoutes |-> <<"network-settings", "push-route">>,
   clientIpv4Subnet |-> <<"network-settings", "client-ip-settings", "subnet">>,
   clientIpv6PoolPrefix |-> <<"network-settings", "client-ipv6-pool", "prefix">>,
   clientIpv6PoolMask |-> <<"network-settings", "client-ipv6-pool", "mask">>,
   nameServers |-> <<"network-settings", "name-server">>, splitDns |-> <<"network-settings", "split-dns">>,
   tunnelAllDns |-> <<"network-settings", "tunnel-all-dns">>]

parseOpenconnectConfig ==
  [listenAddress |-> <<"listen-address">>, httpSecurityHeaders |-> <<"http-security-headers">>,
   tlsVersionMin |-> <<"tls-version-min">>, listenPortTcp |-> <<"listen-ports", "tcp">>,
   listenPortUdp |-> <<"listen-ports", "udp">>, scriptConnect |-> <<"script", "connect">>,
   scriptDisconnect |-> <<"script", "disconnect">>]

addOpenconnectAccountingRadiusServerOps ==
  SecretFields([key |-> <<"key">>]) @@ ScalarFields([acctPort |-> <<"acct-port">>])

addOpenconnectLocalUserOps ==
  SecretFields([password |-> <<"password">>, otpKey |-> <<"otp", "key">>])
  @@ ScalarFields([otpLength |-> <<"otp", "otp-length">>, otpInterval |-> <<"otp", "interval">>,
                   otpTokenType |-> <<"otp", "token-type">>])

addOpenconnectAuthRadiusServerOps ==
  SecretFields([key |-> <<"key">>]) @@ ScalarFields([port |-> <<"port">>])

openconnectSettingsFormToOps ==
  ScalarFields([localAuthMode |-> <<"authentication", "mode", "local">>,
                certificateUserIdentifierField |-> <<"authentication", "mode", "certificate", "user-identifier-field">>,
                radiusTimeout |-> <<"authentication", "radius", "timeout">>, listenAddress |-> <<"listen-address">>,
                listenPortTcp |-> <<"listen-ports", "tcp">>, listenPortUdp |-> <<"listen-ports", "udp">>,
                tlsVersionMin |-> <<"tls-version-min">>, certificate |-> <<"ssl", "certificate">>,
                clientIpv4Subnet |-> <<"network-settings", "client-ip-settings", "subnet">>,
                clientIpv6PoolPrefix |-> <<"network-settings", "client-ipv6-pool", "prefix">>,
                clientIpv6PoolMask |-> <<"network-settings", "client-ipv6-pool", "mask">>,
                tunnelAllDns |-> <<"network-settings", "tunnel-all-dns">>, scriptConnect |-> <<"script", "connect">>,
                scriptDisconnect |-> <<"script", "disconnect">>])
  @@ SecretFields([hasPassphrase |-> <<"ssl", "passphrase">>])
  @@ FlagFields([radiusAuthEnabled |-> <<"authentication", "mode", "radius">>,
                 radiusGroupconfig |-> <<"authentication", "radius", "groupconfig">>,
                 httpSecurityHeaders |-> <<"http-security-headers">>])

-----------------------------------------------------------------------------
(* The components. *)

accelPppBasePath(kind) == IF kind = "sstp" THEN <<"vpn", kind>> ELSE <<"vpn", kind, "remote-access">>

KindFields(kind) ==
  CASE kind = "l2tp" ->
         ScalarFields([outsideAddress |-> <<"outside-address">>, ipsecAuthMode |-> <<"ipsec-settings", "authentication", "mode">>,
                       ikeLifetime |-> <<"ipsec-settings", "ike-lifetime">>, espLifetime |-> <<"ipsec-settings", "lifetime">>,
                       lnsHostName |-> <<"lns", "host-name">>])
         @@ SecretFields([hasIpsecPresharedSecret |-> <<"ipsec-settings", "authentication", "pre-shared-secret">>,
                          hasLnsSharedSecret |-> <<"lns", "shared-secret">>])
    [] kind = "pptp" -> ScalarFields([outsideAddress |-> <<"outside-address">>])
    [] kind = "sstp" ->
         ScalarFields([caCertificate |-> <<"ssl", "ca-certificate">>, certificate |-> <<"ssl", "certificate">>,
                       port |-> <<"port">>, sstpHostName |-> <<"host-name">>])

KindConfig(kind) ==
  CASE kind = "l2tp" -> Texts({"outsideAddress"}) @@ L2tpIpsecSettings @@ L2tpLns
    [] kind = "pptp" -> Texts({"outsideAddress"})
    [] kind = "sstp" -> Texts({"port", "sstpHostName"}) @@ SstpSsl

parseKindConfig(kind) ==
  CASE kind = "l2tp" -> [outsideAddress |-> <<"outside-address">>] @@ parseL2tpIpsecSettings @@ parseL2tpLns
    [] kind = "pptp" -> [outsideAddress |-> <<"outside-address">>]
    [] kind = "sstp" -> [port |-> <<"port">>, sstpHostName |-> <<"host-name">>] @@ parseSstpSsl

AccelPppSettingsSection(kind) ==
  WithChips(Form(accelPppBasePath(kind), AccelPppConfig @@ AccelPppExtendedScripts @@ KindConfig(kind),
                 parseAccelPppConfig @@ parseExtendedScripts @@ parseKindConfig(kind),
                 accelPppSettingsFormToOps @@ KindFields(kind)),
            [nameServers |-> <<"name-server">>, winsServers |-> <<"wins-server">>])

AccelPppServer(kind) == GatedBy(<<"vpn", kind>>, AccelPppSettingsSection(kind))

AuthenticationFields ==
  ScalarFields([authMode |-> <<"authentication", "mode">>,
                radiusAccountingInterimInterval |-> <<"authentication", "radius", "accounting-interim-interval">>,
                radiusTimeout |-> <<"authentication", "radius", "timeout">>,
                radiusNasIdentifier |-> <<"authentication", "radius", "nas-identifier">>])
  @@ ChoiceFields([authProtocols |-> <<"authentication", "protocols">>])

AccelPppAuthenticationSection(kind) ==
  Form(accelPppBasePath(kind), AccelPppAuthentication, parseAccelPppAuthentication, AuthenticationFields)

AccelPppLocalUsersSubsection(kind) ==
  Showing(Adds(WithChips(Form(accelPppBasePath(kind) \o <<"authentication", "local-users", "username", "k">>,
                              AccelPppLocalUser, parseAccelPppLocalUser, addAccelPppLocalUserOps),
                         [disabled |-> <<"disable">>])), [password |-> "hasPassword"])

AccelPppRadiusServersSubsection(kind) ==
  Showing(Adds(Form(accelPppBasePath(kind) \o <<"authentication", "radius", "server", "k">>,
                    AccelPppRadiusServer, parseAccelPppRadiusServer, addAccelPppRadiusServerOps)), [key |-> "hasKey"])

AccelPppClientIpPoolsSection(kind) ==
  Adds(Form(accelPppBasePath(kind) \o <<"client-ip-pool", "k">>, AccelPppClientIpPool, parseClientIpPool,
            addAccelPppClientIpPoolOps))

AccelPppClientIpv6PoolsSection(kind) ==
  LET at == accelPppBasePath(kind) \o <<"client-ipv6-pool", "k">>  first == at \o <<"prefix", "sub">> IN
  Starting(Adds(Form(at, NoFields, NoFields, NoFields)), <<SetNode(first), SetOp(first \o <<"mask">>, New)>>)

AccelPppIpv6PoolPrefixList(kind) ==
  Adds(Form(accelPppBasePath(kind) \o <<"client-ipv6-pool", "k", "prefix", "sub">>, AccelPppClientIpv6PoolPrefix,
            parseIpv6PoolPrefix, addAccelPppClientIpv6PoolPrefixOps))

IpsecSettingsForm ==
  Form(<<"vpn", "ipsec", "options">>, IPsecOptions, parseOptions, optionsFormToOps)

IpsecSettings ==
  Gated(WithChips(Form(<<"vpn", "ipsec">>, IPsecConfig, parseIPsecConfig, NoFields),
                  [disableUniqreqids |-> <<"disable-uniqreqids">>]))

IpsecPskSection ==
  Showing(Adds(Form(<<"vpn", "ipsec", "authentication", "psk", "k">>, IPsecPsk, parsePsk, addPskOps)),
          [secret |-> "hasSecret"])

IpsecPpkSection ==
  Showing(Adds(Form(<<"vpn", "ipsec", "authentication", "ppk", "k">>, IPsecPpk, parsePpk, addPpkOps)),
          [secret |-> "hasSecret"])

IpsecEspGroupForm ==
  LET at == <<"vpn", "ipsec", "esp-group", "k">>  first == at \o <<"proposal", "10">> IN
  Starting(Form(at, IPsecEspGroup, parseEspGroup, espGroupFormToOps),
           <<SetNode(first), SetOp(first \o <<"encryption">>, New), SetOp(first \o <<"hash">>, New)>>)

IpsecEspGroupsSection == Items(IpsecEspGroupForm)

IpsecEspProposals ==
  Adds(Form(IpsecEspGroupForm.at \o <<"proposal", "sub">>, IPsecEspProposal, parseEspProposal, addEspProposalOps))

IpsecIkeGroupForm ==
  LET at == <<"vpn", "ipsec", "ike-group", "k">>  first == at \o <<"proposal", "10">> IN
  Starting(Form(at, IPsecIkeGroup, parseIkeGroup, ikeGroupFormToOps),
           <<SetNode(first), SetOp(first \o <<"dh-group">>, New), SetOp(first \o <<"encryption">>, New),
             SetOp(first \o <<"hash">>, New)>>)

IpsecIkeGroupsSection == Items(IpsecIkeGroupForm)

IpsecIkeProposals ==
  Adds(Form(IpsecIkeGroupForm.at \o <<"proposal", "sub">>, IPsecIkeProposal, parseIkeProposal, addIkeProposalOps))

PeerForm ==
  LET at == <<"vpn", "ipsec", "site-to-site", "peer", "k">>  first == at \o <<"tunnel", "sub">> IN
  Starting(Form(at, IPsecPeer @@ IPsecPeerAuthentication, parsePeer @@ parsePeerAuthentication, peerFormToOps),
           <<SetOp(at \o <<"remote-address">>, New), SetNode(first), SetOp(first \o <<"local", "prefix">>, New),
             SetOp(first \o <<"remote", "prefix">>, New)>>)

PeerDetails == WithChips(PeerForm,
    [remoteAddresses |-> <<"remote-address">>, virtualAddresses |-> <<"virtual-address">>])

IpsecSiteToSite == Items(PeerDetails)

TunnelsSection ==
  Adds(WithChips(Form(PeerForm.at \o <<"tunnel", "sub">>, IPsecTunnel, parseTunnel, addTunnelOps),
    [localPrefixes |-> <<"local", "prefix">>, remotePrefixes |-> <<"remote", "prefix">>]))

ConnectionForm ==
  Form(<<"vpn", "ipsec", "remote-access", "connection", "k">>,
       IPsecRemoteAccessConnection @@ IPsecRemoteAccessAuthentication, parseConnection @@ parseRemoteAccessAuthentication,
       connectionFormToOps)

ConnectionsSection == Items(ConnectionForm)

LocalUsersSection ==
  Showing(Adds(Form(ConnectionForm.at \o <<"authentication", "local-users", "username", "sub">>,
                    IPsecRemoteAccessLocalUser, parseRemoteAccessLocalUser, addRemoteAccessLocalUserOps)),
          [password |-> "hasPassword"])

PoolsSection ==
  Adds(WithChips(Form(<<"vpn", "ipsec", "remote-access", "pool", "k">>, IPsecRemoteAccessPool, parsePool,
                      addRemoteAccessPoolOps), [nameServers |-> <<"name-server">>]))

RadiusSection ==
  Remembering(Form(<<"vpn", "ipsec", "remote-access", "radius">>, IPsecRemoteAccessRadius, parseRemoteAccessRadius,
                   remoteAccessRadiusSettingsFormToOps))

RadiusServers ==
  Showing(Adds(Form(<<"vpn", "ipsec", "remote-access", "radius", "server", "k">>, IPsecRemoteAccessRadiusServer,
                    parseRemoteAccessRadiusServer, addRemoteAccessRadiusServerOps)), [key |-> "hasKey"])

SettingsSection ==
  WithChips(Form(<<"vpn", "openconnect">>, OpenconnectConfig @@ OpenconnectNetworkSettings @@ OpenconnectSsl,
                 parseOpenconnectConfig @@ parseNetworkSettings @@ parseSsl,
                 [f \in DOMAIN openconnectSettingsFormToOps \ DOMAIN OpenconnectAuthentication |->
                    openconnectSettingsFormToOps[f]]),
    [pushRoutes |-> <<"network-settings", "push-route">>,
     nameServers |-> <<"network-settings", "name-server">>,
     splitDns |-> <<"network-settings", "split-dns">>, caCertificates |-> <<"ssl", "ca-certificate">>])

OpenconnectServer == Gated(SettingsSection)

OpenconnectAuthenticationSection ==
  WithChips(Form(<<"vpn", "openconnect">>, OpenconnectAuthentication, parseOpenconnectAuthentication,
                 [f \in DOMAIN OpenconnectAuthentication \ {"groups"} |-> openconnectSettingsFormToOps[f]]), [groups |-> <<"authentication", "group">>])

LocalUsersSubsection ==
  Showing(Adds(WithChips(Form(<<"vpn", "openconnect", "authentication", "local-users", "username", "k">>,
                              OpenconnectLocalUser, parseOpenconnectLocalUser, addOpenconnectLocalUserOps),
                         [disabled |-> <<"disable">>])), [password |-> "hasPassword", otpKey |-> "hasOtpKey"])

AuthRadiusServersSubsection ==
  Showing(Adds(Form(<<"vpn", "openconnect", "authentication", "radius", "server", "k">>, OpenconnectRadiusServer,
                    parseOpenconnectRadiusServer, addOpenconnectAuthRadiusServerOps)), [key |-> "hasKey"])

AccountingSection ==
  LET reads == [port |-> <<"acct-port">>] @@ parseOpenconnectRadiusServer IN
  Showing(Adds(Form(<<"vpn", "openconnect", "accounting", "radius", "server", "k">>, OpenconnectRadiusServer, reads,
                    addOpenconnectAccountingRadiusServerOps)), [key |-> "hasKey", acctPort |-> "port"])

AccountingMode ==
  WithChips(Form(<<"vpn", "openconnect", "accounting">>, Flags({"radiusEnabled"}), [radiusEnabled |-> <<"mode", "radius">>],
                 NoFields), [radiusEnabled |-> <<"mode", "radius">>])

VpnPages ==
  <<IpsecSettingsForm, IpsecSettings, IpsecPskSection, IpsecPpkSection, IpsecEspGroupsSection,
    IpsecEspProposals, IpsecIkeGroupsSection, IpsecIkeProposals, IpsecSiteToSite, TunnelsSection,
    ConnectionsSection, LocalUsersSection, PoolsSection, RadiusSection, RadiusServers, OpenconnectServer,
    OpenconnectAuthenticationSection, LocalUsersSubsection, AuthRadiusServersSubsection, AccountingSection,
    AccountingMode, AccelPppServer("sstp"), AccelPppSettingsSection("l2tp"), AccelPppSettingsSection("pptp"),
    AccelPppAuthenticationSection("sstp"), AccelPppLocalUsersSubsection("l2tp"),
    AccelPppRadiusServersSubsection("sstp"), AccelPppClientIpPoolsSection("l2tp"),
    AccelPppClientIpv6PoolsSection("sstp"), AccelPppIpv6PoolPrefixList("l2tp")>>
================================================================================
