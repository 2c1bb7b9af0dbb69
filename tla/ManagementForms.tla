---------------------------- MODULE ManagementForms ----------------------------
(***************************************************************************)
(* The forms of the services for managing the router: console server,      *)
(* event handler, HTTPS, monitoring, NTP, SNMP, SSH and TFTP. Three tables *)
(* of each and the components that use them.                               *)
(*                                                                         *)
(* Left out: the authentication mode that the Zabbix form sets along with  *)
(* a key.                                                                  *)
(***************************************************************************)
EXTENDS Forms

-----------------------------------------------------------------------------
(* lib/serviceConsoleServer*.ts *)

ConsoleServerDevice ==
  Texts({"description", "alias", "speed", "dataBits", "stopBits", "parity", "sshPort"})

parseDevice ==
  [description |-> <<"description">>, alias |-> <<"alias">>, speed |-> <<"speed">>,
   dataBits |-> <<"data-bits">>, stopBits |-> <<"stop-bits">>, parity |-> <<"parity">>,
   sshPort |-> <<"ssh", "port">>]

consoleServerDeviceFormToOps ==
  ScalarFields([description |-> <<"description">>, alias |-> <<"alias">>, speed |-> <<"speed">>,
                dataBits |-> <<"data-bits">>, stopBits |-> <<"stop-bits">>, parity |-> <<"parity">>,
                sshPort |-> <<"ssh", "port">>])

-----------------------------------------------------------------------------
(* lib/serviceEventHandler*.ts *)

EventHandlerEvent ==
  Texts({"filterPattern", "filterSyslogIdentifier", "scriptPath", "scriptArguments"})

parseEvent ==
  [filterPattern |-> <<"filter", "pattern">>, filterSyslogIdentifier |-> <<"filter", "syslog-identifier">>,
   scriptPath |-> <<"script", "path">>, scriptArguments |-> <<"script", "arguments">>]

eventHandlerEventFormToOps ==
  ScalarFields([filterPattern |-> <<"filter", "pattern">>,
                filterSyslogIdentifier |-> <<"filter", "syslog-identifier">>, scriptPath |-> <<"script", "path">>,
                scriptArguments |-> <<"script", "arguments">>])

-----------------------------------------------------------------------------
(* lib/serviceHttps*.ts *)

HTTPSAPIKey ==
  Secrets({"hasKey"})

HTTPSConfig ==
  Texts({"graphqlAuthType", "graphqlExpiration", "graphqlSecretLength", "port", "requestBodySizeLimit",
         "caCertificate", "certificate", "dhParams", "vrf"})
  @@ Flags({"restStrict", "graphqlIntrospection", "enableHttpRedirect"})
  @@ Lists({"graphqlCorsAllowOrigins", "allowClientAddresses", "listenAddresses", "tlsVersions"})

parseAPIKeys ==
  [hasKey |-> {<<"key">>}]

parseHTTPSConfig ==
  [restStrict |-> <<"api", "rest", "strict">>, graphqlIntrospection |-> <<"api", "graphql", "introspection">>,
   graphqlAuthType |-> <<"api", "graphql", "authentication", "type">>,
   graphqlExpiration |-> <<"api", "graphql", "authentication", "expiration">>,
   graphqlSecretLength |-> <<"api", "graphql", "authentication", "secret-length">>,
   graphqlCorsAllowOrigins |-> <<"api", "graphql", "cors", "allow-origin">>,
   allowClientAddresses |-> <<"allow-client", "address">>, enableHttpRedirect |-> <<"enable-http-redirect">>,
   listenAddresses |-> <<"listen-address">>, port |-> <<"port">>,
   requestBodySizeLimit |-> <<"request-body-size-limit">>,
   caCertificate |-> <<"certificates", "ca-certificate">>, certificate |-> <<"certificates", "certificate">>,
   dhParams |-> <<"certificates", "dh-params">>, tlsVersions |-> <<"tls-version">>, vrf |-> <<"vrf">>]

httpsFormToOps ==
  FlagFields([restStrict |-> <<"api", "rest", "strict">>,
              graphqlIntrospection |-> <<"api", "graphql", "introspection">>,
              enableHttpRedirect |-> <<"enable-http-redirect">>])
  @@ ScalarFields([graphqlAuthType |-> <<"api", "graphql", "authentication", "type">>,
                   graphqlExpiration |-> <<"api", "graphql", "authentication", "expiration">>,
                   graphqlSecretLength |-> <<"api", "graphql", "authentication", "secret-length">>,
                   port |-> <<"port">>, requestBodySizeLimit |-> <<"request-body-size-limit">>,
                   caCertificate |-> <<"certificates", "ca-certificate">>,
                   certificate |-> <<"certificates", "certificate">>, dhParams |-> <<"certificates", "dh-params">>,
                   vrf |-> <<"vrf">>])
  @@ ListFields([tlsVersions |-> <<"tls-version">>])

-----------------------------------------------------------------------------
(* lib/serviceMonitoring*.ts *)

PrometheusNodeExporterConfig ==
  Texts({"port", "vrf"})
  @@ Flags({"collectTextfile"})
  @@ Lists({"listenAddresses"})

PrometheusFrrExporterConfig ==
  Texts({"port", "vrf", "collectBgpPeerDescription"})
  @@ Flags({"collectBgpAcceptFilteredPrefixes", "collectBgpAdvertisedPrefixes", "collectBgpPeerGroup",
            "collectBgpPeerHostname", "collectBgpPeerType", "collectBgpL2Vpn", "collectPim",
            "collectDetailedRoutes"})
  @@ Lists({"listenAddresses", "collectOspfInstances"})

ZabbixServerActive ==
  Texts({"port"})

ZabbixAgentConfig ==
  Texts({"authMode", "pskId", "directory", "hostName", "bufferFlushInterval", "bufferSize", "debugLevel",
         "logSize", "port", "timeout", "vrf"})
  @@ Flags({"logRemoteCommands"})
  @@ Lists({"listenAddresses", "servers"})
  @@ Secrets({"hasPskSecret"})

NetworkEventConfig ==
  Texts({"queueSize", "logLevel"})
  @@ Flags({"eventRoute", "eventLink", "eventAddr", "eventNeigh", "eventRule"})

parseNodeExporter ==
  [listenAddresses |-> <<"listen-address">>, port |-> <<"port">>,
   vrf |-> <<"vrf">>, collectTextfile |-> <<"collectors", "textfile">>]

parseFrrExporter ==
  [listenAddresses |-> <<"listen-address">>, port |-> <<"port">>,
   vrf |-> <<"vrf">>,
   collectBgpAcceptFilteredPrefixes |-> <<"collector", "bgp", "accept-filtered-prefixes">>,
   collectBgpAdvertisedPrefixes |-> <<"collector", "bgp", "advertised-prefixes">>,
   collectBgpPeerDescription |-> <<"collector", "bgp", "peer-description">>,
   collectBgpPeerGroup |-> <<"collector", "bgp", "peer-group">>,
   collectBgpPeerHostname |-> <<"collector", "bgp", "peer-hostname">>,
   collectBgpPeerType |-> <<"collector", "bgp", "peer-type">>,
   collectBgpL2Vpn |-> <<"collector", "bgp-l2-vpn">>,
   collectOspfInstances |-> <<"collector", "ospf-instance">>,
   collectPim |-> <<"collector", "pim">>,
   collectDetailedRoutes |-> <<"collector", "detailed-routes">>]

parseZabbixServerActive ==
  [port |-> <<"port">>]

parseZabbixAgent ==
  [authMode |-> <<"authentication", "mode">>, pskId |-> <<"authentication", "psk", "id">>,
   directory |-> <<"directory">>, hostName |-> <<"host-name">>,
   bufferFlushInterval |-> <<"limits", "buffer-flush-interval">>, bufferSize |-> <<"limits", "buffer-size">>,
   debugLevel |-> <<"log", "debug-level">>, logRemoteCommands |-> <<"log", "remote-commands">>,
   logSize |-> <<"log", "size">>, listenAddresses |-> <<"listen-address">>, port |-> <<"port">>,
   servers |-> <<"server">>, timeout |-> <<"timeout">>, vrf |-> <<"vrf">>,
   hasPskSecret |-> {<<"authentication", "psk", "secret">>}]

parseNetworkEvent ==
  [eventRoute |-> <<"event", "route">>, eventLink |-> <<"event", "link">>, eventAddr |-> <<"event", "addr">>,
   eventNeigh |-> <<"event", "neigh">>, eventRule |-> <<"event", "rule">>, queueSize |-> <<"queue-size">>,
   logLevel |-> <<"log-level">>]

nodeExporterFormToOps ==
  ScalarFields([port |-> <<"port">>, vrf |-> <<"vrf">>])
  @@ FlagFields([collectTextfile |-> <<"collectors", "textfile">>])

frrExporterFormToOps ==
  FlagFields([collectBgpAcceptFilteredPrefixes |-> <<"collector", "bgp", "accept-filtered-prefixes">>,
              collectBgpAdvertisedPrefixes |-> <<"collector", "bgp", "advertised-prefixes">>,
              collectBgpPeerGroup |-> <<"collector", "bgp", "peer-group">>,
              collectBgpPeerHostname |-> <<"collector", "bgp", "peer-hostname">>,
              collectBgpPeerType |-> <<"collector", "bgp", "peer-type">>,
              collectBgpL2Vpn |-> <<"collector", "bgp-l2-vpn">>, collectPim |-> <<"collector", "pim">>,
              collectDetailedRoutes |-> <<"collector", "detailed-routes">>])
  @@ ScalarFields([port |-> <<"port">>, vrf |-> <<"vrf">>,
                   collectBgpPeerDescription |-> <<"collector", "bgp", "peer-description">>])

zabbixAgentFormToOps ==
  ScalarFields([pskId |-> <<"authentication", "psk", "id">>, directory |-> <<"directory">>,
                hostName |-> <<"host-name">>, bufferFlushInterval |-> <<"limits", "buffer-flush-interval">>,
                bufferSize |-> <<"limits", "buffer-size">>, debugLevel |-> <<"log", "debug-level">>,
                logSize |-> <<"log", "size">>, port |-> <<"port">>, timeout |-> <<"timeout">>, vrf |-> <<"vrf">>])
  @@ SecretFields([pskSecret |-> <<"authentication", "psk", "secret">>])
  @@ FlagFields([logRemoteCommands |-> <<"log", "remote-commands">>])

addZabbixServerActiveOps ==
  ScalarFields([port |-> <<"port">>])

networkEventFormToOps ==
  FlagFields([eventRoute |-> <<"event", "route">>, eventLink |-> <<"event", "link">>,
              eventAddr |-> <<"event", "addr">>, eventNeigh |-> <<"event", "neigh">>,
              eventRule |-> <<"event", "rule">>])
  @@ ScalarFields([queueSize |-> <<"queue-size">>, logLevel |-> <<"log-level">>])

-----------------------------------------------------------------------------
(* lib/serviceNtp*.ts *)

NTPServer ==
  Flags({"prefer", "pool", "noselect", "nts", "ptp", "interleave"})

NTPConfig ==
  Texts({"interface", "sourceInterface", "vrf", "leapSecond", "localStratum"})
  @@ Lists({"allowClientAddresses", "listenAddresses", "sourceAddresses"})

parseServer ==
  [prefer |-> <<"prefer">>, pool |-> <<"pool">>, noselect |-> <<"noselect">>, nts |-> <<"nts">>,
   ptp |-> <<"ptp">>, interleave |-> <<"interleave">>]

parseNTPConfig ==
  [allowClientAddresses |-> <<"allow-client", "address">>, listenAddresses |-> <<"listen-address">>,
   sourceAddresses |-> <<"source-address">>, interface |-> <<"interface">>,
   sourceInterface |-> <<"source-interface">>, vrf |-> <<"vrf">>, leapSecond |-> <<"leap-second">>,
   localStratum |-> <<"local-stratum">>]

ntpGeneralFormToOps ==
  ScalarFields([interface |-> <<"interface">>, sourceInterface |-> <<"source-interface">>, vrf |-> <<"vrf">>,
                leapSecond |-> <<"leap-second">>, localStratum |-> <<"local-stratum">>])

addNTPServerOps ==
  FlagFields([prefer |-> <<"prefer">>, pool |-> <<"pool">>, noselect |-> <<"noselect">>, nts |-> <<"nts">>,
              ptp |-> <<"ptp">>, interleave |-> <<"interleave">>])

-----------------------------------------------------------------------------
(* lib/serviceSnmp*.ts *)

SNMPCommunity ==
  Texts({"authorization"})
  @@ Lists({"clients", "networks"})

SNMPListenAddress ==
  Texts({"port"})

SNMPTrapTarget ==
  Texts({"port"})
  @@ Secrets({"hasCommunity"})

SNMPConfig ==
  Texts({"contact", "location", "description", "trapSource", "protocol"})

SNMPv3Group ==
  Texts({"mode", "seclevel", "view"})

SNMPv3AuthConfig ==
  Texts({"authType"}) @@ Secrets({"hasAuthPassword"})

SNMPv3PrivacyConfig ==
  Texts({"privacyType"}) @@ Secrets({"hasPrivacyPassword"})

SNMPv3User ==
  Texts({"group", "mode"})

SNMPv3ViewOid ==
  Texts({"mask"}) @@ Lists({"exclude"})

SNMPv3TrapTarget ==
  Texts({"port", "protocol", "type", "user"})

SNMPv3Config ==
  Texts({"engineId"})

parseCommunity ==
  [authorization |-> <<"authorization">>, clients |-> <<"client">>, networks |-> <<"network">>]

parseListenAddress ==
  [port |-> <<"port">>]

parseTrapTarget ==
  [port |-> <<"port">>, hasCommunity |-> {<<"community">>}]

parseV3Auth ==
  [authType |-> <<"auth", "type">>,
   hasAuthPassword |-> {<<"auth", "encrypted-password">>, <<"auth", "plaintext-password">>}]

parseV3Privacy ==
  [privacyType |-> <<"privacy", "type">>,
   hasPrivacyPassword |-> {<<"privacy", "encrypted-password">>, <<"privacy", "plaintext-password">>}]

parseV3Group ==
  [mode |-> <<"mode">>, seclevel |-> <<"seclevel">>, view |-> <<"view">>]

parseV3User ==
  [group |-> <<"group">>, mode |-> <<"mode">>]

parseV3ViewOid ==
  [exclude |-> <<"exclude">>, mask |-> <<"mask">>]

parseV3TrapTarget ==
  [port |-> <<"port">>, protocol |-> <<"protocol">>, type |-> <<"type">>, user |-> <<"user">>]

parseSNMPv3Config ==
  [engineId |-> <<"engineid">>]

parseSNMPConfig ==
  [contact |-> <<"contact">>, location |-> <<"location">>, description |-> <<"description">>,
   trapSource |-> <<"trap-source">>, protocol |-> <<"protocol">>]

snmpSettingsFormToOps ==
  ScalarFields([contact |-> <<"contact">>, location |-> <<"location">>, description |-> <<"description">>,
                trapSource |-> <<"trap-source">>, protocol |-> <<"protocol">>])

addSNMPCommunityOps ==
  ScalarFields([authorization |-> <<"authorization">>])

addSNMPListenAddressOps ==
  ScalarFields([port |-> <<"port">>])

addSNMPTrapTargetOps ==
  SecretFields([community |-> <<"community">>]) @@ ScalarFields([port |-> <<"port">>])

snmpV3EngineIdFormToOps ==
  ScalarFields([engineId |-> <<"engineid">>])

addSNMPv3GroupOps ==
  ScalarFields([mode |-> <<"mode">>, seclevel |-> <<"seclevel">>, view |-> <<"view">>])

addSNMPv3UserOps ==
  ScalarFields([group |-> <<"group">>, mode |-> <<"mode">>, authType |-> <<"auth", "type">>,
                privacyType |-> <<"privacy", "type">>])
  @@ SecretFields([authPassword |-> <<"auth", "plaintext-password">>,
                   privacyPassword |-> <<"privacy", "plaintext-password">>])

addSNMPv3ViewOidOps ==
  ScalarFields([mask |-> <<"mask">>])

addSNMPv3TrapTargetOps ==
  ScalarFields([authType |-> <<"auth", "type">>, privacyType |-> <<"privacy", "type">>, port |-> <<"port">>,
                protocol |-> <<"protocol">>, type |-> <<"type">>, user |-> <<"user">>])
  @@ SecretFields([authPassword |-> <<"auth", "plaintext-password">>,
                   privacyPassword |-> <<"privacy", "plaintext-password">>])

-----------------------------------------------------------------------------
(* lib/serviceSsh*.ts *)

SSHConfig ==
  Texts({"dynamicProtectionBlockTime", "dynamicProtectionDetectTime", "dynamicProtectionThreshold", "loglevel",
         "rekeyData", "rekeyTime", "clientKeepaliveInterval", "trustedUserCA"})
  @@ Flags({"disableHostValidation", "disablePasswordAuthentication", "fidoPinRequired", "fidoTouchRequired"})
  @@ Lists({"allowGroups", "allowUsers", "denyGroups", "denyUsers", "ciphers", "hostkeyAlgorithms",
            "pubkeyAcceptedAlgorithms", "keyExchangeAlgorithms", "macAlgorithms", "dynamicProtectionAllowFrom",
            "listenAddresses", "ports", "vrfs"})

parseSSHConfig ==
  [allowGroups |-> <<"access-control", "allow", "group">>, allowUsers |-> <<"access-control", "allow", "user">>,
   denyGroups |-> <<"access-control", "deny", "group">>, denyUsers |-> <<"access-control", "deny", "user">>,
   ciphers |-> <<"cipher">>, hostkeyAlgorithms |-> <<"hostkey-algorithm">>,
   pubkeyAcceptedAlgorithms |-> <<"pubkey-accepted-algorithm">>, keyExchangeAlgorithms |-> <<"key-exchange">>,
   macAlgorithms |-> <<"mac">>, disableHostValidation |-> <<"disable-host-validation">>,
   disablePasswordAuthentication |-> <<"disable-password-authentication">>,
   fidoPinRequired |-> <<"fido", "pin-required">>, fidoTouchRequired |-> <<"fido", "touch-required">>,
   dynamicProtectionBlockTime |-> <<"dynamic-protection", "block-time">>,
   dynamicProtectionDetectTime |-> <<"dynamic-protection", "detect-time">>,
   dynamicProtectionThreshold |-> <<"dynamic-protection", "threshold">>,
   dynamicProtectionAllowFrom |-> <<"dynamic-protection", "allow-from">>,
   listenAddresses |-> <<"listen-address">>, loglevel |-> <<"loglevel">>, ports |-> <<"port">>,
   rekeyData |-> <<"rekey", "data">>, rekeyTime |-> <<"rekey", "time">>,
   clientKeepaliveInterval |-> <<"client-keepalive-interval">>, trustedUserCA |-> <<"trusted-user-ca">>,
   vrfs |-> <<"vrf">>]

sshFormToOps ==
  FlagFields([disableHostValidation |-> <<"disable-host-validation">>,
              disablePasswordAuthentication |-> <<"disable-password-authentication">>,
              fidoPinRequired |-> <<"fido", "pin-required">>, fidoTouchRequired |-> <<"fido", "touch-required">>])
  @@ ScalarFields([dynamicProtectionBlockTime |-> <<"dynamic-protection", "block-time">>,
                   dynamicProtectionDetectTime |-> <<"dynamic-protection", "detect-time">>,
                   dynamicProtectionThreshold |-> <<"dynamic-protection", "threshold">>, loglevel |-> <<"loglevel">>,
                   rekeyData |-> <<"rekey", "data">>, rekeyTime |-> <<"rekey", "time">>,
                   clientKeepaliveInterval |-> <<"client-keepalive-interval">>,
                   trustedUserCA |-> <<"trusted-user-ca">>])

-----------------------------------------------------------------------------
(* lib/serviceTftp*.ts *)

TFTPListenAddress ==
  Texts({"vrf"})

TFTPServerConfig ==
  Texts({"directory", "port"})
  @@ Flags({"allowUpload"})

parseTFTPServerConfig ==
  [allowUpload |-> <<"allow-upload">>, directory |-> <<"directory">>, port |-> <<"port">>]

tftpServerFormToOps ==
  ScalarFields([directory |-> <<"directory">>, port |-> <<"port">>])
  @@ FlagFields([allowUpload |-> <<"allow-upload">>])

addTFTPListenAddressOps ==
  ScalarFields([vrf |-> <<"vrf">>])

-----------------------------------------------------------------------------
(* The components. *)

ConsoleServerList == Gated(Form(<<"service", "console-server">>, NoFields, NoFields, NoFields))

DeviceForm ==
  Form(<<"service", "console-server", "device", "k">>, ConsoleServerDevice, parseDevice, consoleServerDeviceFormToOps)

ConsoleServerEnabled == Items(DeviceForm)

EventHandlerList == Gated(Form(<<"service", "event-handler">>, NoFields, NoFields, NoFields))

EventForm ==
  Form(<<"service", "event-handler", "event", "k">>, EventHandlerEvent, parseEvent, eventHandlerEventFormToOps)

EventHandlerEnabled == Items(EventForm)

EventHandlerEnvironment == KeyValuePairList(EventForm.at \o <<"script", "environment">>)

HttpsSettingsForm ==
  WithChips(Form(<<"service", "https">>, HTTPSConfig, parseHTTPSConfig, httpsFormToOps),
    [listenAddresses |-> <<"listen-address">>, allowClientAddresses |-> <<"allow-client", "address">>,
     graphqlCorsAllowOrigins |-> <<"api", "graphql", "cors", "allow-origin">>])

HttpsSettings == Gated(HttpsSettingsForm)

addHTTPSAPIKeyOp == SecretFields([key |-> <<"key">>])

ApiKeysSection ==
  Needing(Showing(Unmarked(Adds(Form(<<"service", "https", "api", "keys", "id", "k">>, HTTPSAPIKey, parseAPIKeys,
                                     addHTTPSAPIKeyOp))), [key |-> "hasKey"]), {"key"})

NodeExporterSection ==
  Gated(WithChips(Form(<<"service", "monitoring", "prometheus", "node-exporter">>, PrometheusNodeExporterConfig,
                       parseNodeExporter, nodeExporterFormToOps), [listenAddresses |-> <<"listen-address">>]))

FrrExporterSection ==
  Gated(WithChips(Form(<<"service", "monitoring", "prometheus", "frr-exporter">>, PrometheusFrrExporterConfig,
                       parseFrrExporter, frrExporterFormToOps),
    [listenAddresses |-> <<"listen-address">>,
     collectOspfInstances |-> <<"collector", "ospf-instance">>]))

ZabbixAgentForm ==
  Showing(WithChips(Form(<<"service", "monitoring", "zabbix-agent">>, ZabbixAgentConfig, parseZabbixAgent,
                         zabbixAgentFormToOps),
    [listenAddresses |-> <<"listen-address">>, servers |-> <<"server">>]), [pskSecret |-> "hasPskSecret"])

ZabbixAgentSection == Gated(ZabbixAgentForm)

ServerActiveSection ==
  Adds(Form(<<"service", "monitoring", "zabbix-agent", "server-active", "k">>, ZabbixServerActive, parseZabbixServerActive,
            addZabbixServerActiveOps))

NetworkEventForm ==
  Form(<<"service", "monitoring", "network-event">>, NetworkEventConfig, parseNetworkEvent, networkEventFormToOps)

NetworkEventSection == Gated(NetworkEventForm)

ServersSection == Adds(Form(<<"service", "ntp", "server", "k">>, NTPServer, parseServer, addNTPServerOps))

GeneralSettings ==
  WithChips(Form(<<"service", "ntp">>, NTPConfig, parseNTPConfig, ntpGeneralFormToOps),
    [allowClientAddresses |-> <<"allow-client", "address">>, listenAddresses |-> <<"listen-address">>,
     sourceAddresses |-> <<"source-address">>])

SnmpSettingsForm == Form(<<"service", "snmp">>, SNMPConfig, parseSNMPConfig, snmpSettingsFormToOps)

SnmpSettings == Gated(SnmpSettingsForm)

CommunitiesSection ==
  Adds(WithChips(Form(<<"service", "snmp", "community", "k">>, SNMPCommunity, parseCommunity, addSNMPCommunityOps), [clients |-> <<"client">>, networks |-> <<"network">>]))

SnmpListenAddressesSection ==
  Adds(Form(<<"service", "snmp", "listen-address", "k">>, SNMPListenAddress, parseListenAddress, addSNMPListenAddressOps))

TrapTargetsSection ==
  Showing(Adds(Form(<<"service", "snmp", "trap-target", "k">>, SNMPTrapTarget, parseTrapTarget, addSNMPTrapTargetOps)),
          [community |-> "hasCommunity"])

EngineIdField ==
  Remembering(Form(<<"service", "snmp", "v3">>, SNMPv3Config, parseSNMPv3Config, snmpV3EngineIdFormToOps))

GroupsSection ==
  Adds(Form(<<"service", "snmp", "v3", "group", "k">>, SNMPv3Group, parseV3Group, addSNMPv3GroupOps))

UsersSection ==
  Showing(Adds(Form(<<"service", "snmp", "v3", "user", "k">>, SNMPv3User @@ SNMPv3AuthConfig @@ SNMPv3PrivacyConfig,
                    parseV3User @@ parseV3Auth @@ parseV3Privacy, addSNMPv3UserOps)),
          [authPassword |-> "hasAuthPassword", privacyPassword |-> "hasPrivacyPassword"])

ViewsSection == Adds(Form(<<"service", "snmp", "v3", "view", "k">>, NoFields, NoFields, NoFields))

ViewOids ==
  Adds(WithChips(Form(ViewsSection.at \o <<"oid", "k">>, SNMPv3ViewOid, parseV3ViewOid, addSNMPv3ViewOidOps), [exclude |-> <<"exclude">>]))

V3TrapTargetsSection ==
  Showing(Adds(Form(<<"service", "snmp", "v3", "trap-target", "k">>,
                    SNMPv3TrapTarget @@ SNMPv3AuthConfig @@ SNMPv3PrivacyConfig,
                    parseV3TrapTarget @@ parseV3Auth @@ parseV3Privacy, addSNMPv3TrapTargetOps)),
          [authPassword |-> "hasAuthPassword", privacyPassword |-> "hasPrivacyPassword"])

SshSettingsForm == WithChips(Form(<<"service", "ssh">>, SSHConfig, parseSSHConfig, sshFormToOps),
    [ports |-> <<"port">>, listenAddresses |-> <<"listen-address">>, vrfs |-> <<"vrf">>,
     dynamicProtectionAllowFrom |-> <<"dynamic-protection", "allow-from">>,
     allowGroups |-> <<"access-control", "allow", "group">>,
     allowUsers |-> <<"access-control", "allow", "user">>,
     denyGroups |-> <<"access-control", "deny", "group">>,
     denyUsers |-> <<"access-control", "deny", "user">>, ciphers |-> <<"cipher">>,
     hostkeyAlgorithms |-> <<"hostkey-algorithm">>,
     pubkeyAcceptedAlgorithms |-> <<"pubkey-accepted-algorithm">>,
     keyExchangeAlgorithms |-> <<"key-exchange">>, macAlgorithms |-> <<"mac">>])

SshSettings == Gated(SshSettingsForm)

TftpSettingsForm == Form(<<"service", "tftp-server">>, TFTPServerConfig, parseTFTPServerConfig, tftpServerFormToOps)

TftpSettings == Gated(TftpSettingsForm)

parseTFTPListenAddress == [vrf |-> <<"vrf">>]

TftpListenAddressesSection ==
  Adds(Form(<<"service", "tftp-server", "listen-address", "k">>, TFTPListenAddress, parseTFTPListenAddress,
            addTFTPListenAddressOps))

ManagementPages ==
  <<ConsoleServerList, ConsoleServerEnabled, EventHandlerList, EventHandlerEnabled, EventHandlerEnvironment,
    HttpsSettings, ApiKeysSection, NodeExporterSection, FrrExporterSection, ZabbixAgentSection,
    ServerActiveSection, NetworkEventSection, ServersSection, GeneralSettings, SnmpSettings, CommunitiesSection,
    SnmpListenAddressesSection, TrapTargetsSection, EngineIdField, GroupsSection, UsersSection, ViewsSection,
    ViewOids, V3TrapTargetsSection, SshSettings, TftpSettings, TftpListenAddressesSection>>
================================================================================
