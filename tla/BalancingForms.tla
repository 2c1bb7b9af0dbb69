---------------------------- MODULE BalancingForms -----------------------------
(***************************************************************************)
(* The forms of the load balancing pages (WAN and HAProxy) and of the high *)
(* availability pages (VRRP and conntrack-sync).                           *)
(*                                                                         *)
(* Left out: the logging facility of HAProxy, the limit of a WAN rule and  *)
(* the authentication of a VRRP group, each written as a unit of its own.  *)
(* The failure count and the interval of a VRRP health check, which are 3  *)
(* and 60 once there is a check, are blank here.                           *)
(***************************************************************************)
EXTENDS Forms

-----------------------------------------------------------------------------
(* lib/loadBalancing*.ts *)

WANHealthTest ==
  Texts({"target", "testScript"}) @@ TextsOr([type |-> "ping"]) @@ NumeralsOr([respTime |-> "5", ttlLimit |-> "1"])

WANInterfaceHealth ==
  Texts({"nexthop"}) @@ NumeralsOr([failureCount |-> "1", successCount |-> "1"])

WANRuleInterface ==
  NumeralsOr([weight |-> "1"])

WANRule ==
  Texts({"description", "inboundInterface"}) @@ TextsOr([protocol |-> "all"])
  @@ Flags({"exclude", "failover", "perPacketBalancing"})

WANConfig ==
  Texts({"hook"})
  @@ Flags({"disableSourceNat", "enableLocalTraffic", "flushConnections", "onlyDefaultRoute", "stickyInbound"})

HAProxyListenAddress ==
  Flags({"acceptProxy"})

HAProxyRule ==
  Texts({"ssl", "setRedirectLocation", "setBackend", "setServer"})
  @@ Flags({"wildcardDomain"})
  @@ Lists({"domainNames", "urlPathBegin", "urlPathEnd", "urlPathExact"})

HAProxyService ==
  Texts({"description", "httpCompressionAlgorithm"})
  @@ Numerals({"port", "tcpRequestInspectDelay", "timeoutClient"})
  @@ TextsOr([mode |-> "http"])
  @@ Flags({"redirectHttpToHttps"})
  @@ Lists({"backends", "httpCompressionMimeTypes", "sslCertificates"})

HAProxyServer ==
  Texts({"address"}) @@ Numerals({"port", "checkPort"}) @@ Flags({"backup", "sendProxy", "sendProxyV2"})

HAProxyBackend ==
  Texts({"description", "httpCheckMethod", "httpCheckUri", "httpCheckExpectString", "healthCheck",
         "sslCaCertificate"})
  @@ Numerals({"httpCheckExpectStatus", "timeoutCheck", "timeoutConnect", "timeoutServer", "timeoutTunnel"})
  @@ TextsOr([balance |-> "round-robin", mode |-> "http"])
  @@ Flags({"httpServerClose", "sslNoVerify"})

HAProxyGlobalParameters ==
  Numerals({"maxConnections"}) @@ TextsOr([tlsVersionMin |-> "1.3"]) @@ Lists({"sslBindCiphers"})

HAProxyGlobalTimeout ==
  NumeralsOr([check |-> "5", connect |-> "10", client |-> "50", server |-> "50", tunnel |-> "300"])

parseWANMatch ==
  [sourceAddress |-> <<"source", "address">>, sourcePort |-> <<"source", "port">>,
   sourceAddressGroup |-> <<"source", "group", "address-group">>,
   sourceNetworkGroup |-> <<"source", "group", "network-group">>,
   sourcePortGroup |-> <<"source", "group", "port-group">>,
   sourceDomainGroup |-> <<"source", "group", "domain-group">>,
   destinationAddress |-> <<"destination", "address">>, destinationPort |-> <<"destination", "port">>,
   destinationAddressGroup |-> <<"destination", "group", "address-group">>,
   destinationNetworkGroup |-> <<"destination", "group", "network-group">>,
   destinationPortGroup |-> <<"destination", "group", "port-group">>,
   destinationDomainGroup |-> <<"destination", "group", "domain-group">>]

parseWANHealthTest ==
  [type |-> <<"type">>, target |-> <<"target">>, testScript |-> <<"test-script">>, respTime |-> <<"resp-time">>,
   ttlLimit |-> <<"ttl-limit">>]

parseWANInterfaceHealth ==
  [nexthop |-> <<"nexthop">>, failureCount |-> <<"failure-count">>, successCount |-> <<"success-count">>]

parseWANRule ==
  [description |-> <<"description">>, exclude |-> <<"exclude">>, failover |-> <<"failover">>,
   inboundInterface |-> <<"inbound-interface">>, perPacketBalancing |-> <<"per-packet-balancing">>,
   protocol |-> <<"protocol">>]

parseWANConfig ==
  [disableSourceNat |-> <<"disable-source-nat">>, enableLocalTraffic |-> <<"enable-local-traffic">>,
   flushConnections |-> <<"flush-connections">>, onlyDefaultRoute |-> <<"only-default-route">>,
   hook |-> <<"hook">>, stickyInbound |-> <<"sticky-connections", "inbound">>]

parseHAProxyRule ==
  [domainNames |-> <<"domain-name">>, wildcardDomain |-> <<"wildcard-domain">>, ssl |-> <<"ssl">>,
   urlPathBegin |-> <<"url-path", "begin">>, urlPathEnd |-> <<"url-path", "end">>,
   urlPathExact |-> <<"url-path", "exact">>, setRedirectLocation |-> <<"set", "redirect-location">>,
   setBackend |-> <<"set", "backend">>, setServer |-> <<"set", "server">>]

parseListenAddresses ==
  [acceptProxy |-> <<"accept-proxy">>]

parseHAProxyService ==
  [backends |-> <<"backend">>, description |-> <<"description">>, mode |-> <<"mode">>, port |-> <<"port">>,
   tcpRequestInspectDelay |-> <<"tcp-request", "inspect-delay">>, timeoutClient |-> <<"timeout", "client">>,
   redirectHttpToHttps |-> <<"redirect-http-to-https">>,
   httpCompressionAlgorithm |-> <<"http-compression", "algorithm">>,
   httpCompressionMimeTypes |-> <<"http-compression", "mime-type">>, sslCertificates |-> <<"ssl", "certificate">>]

parseServers ==
  [address |-> <<"address">>, backup |-> <<"backup">>, checkPort |-> <<"check", "port">>, port |-> <<"port">>,
   sendProxy |-> <<"send-proxy">>, sendProxyV2 |-> <<"send-proxy-v2">>]

parseHAProxyBackend ==
  [balance |-> <<"balance">>, description |-> <<"description">>, httpCheckMethod |-> <<"http-check", "method">>,
   httpCheckUri |-> <<"http-check", "uri">>, httpCheckExpectString |-> <<"http-check", "expect", "string">>,
   healthCheck |-> <<"health-check">>, httpServerClose |-> <<"http-server-close">>,
   sslCaCertificate |-> <<"ssl", "ca-certificate">>, sslNoVerify |-> <<"ssl", "no-verify">>]
  @@ [mode |-> <<"mode">>, httpCheckExpectStatus |-> <<"http-check", "expect", "status">>,
      timeoutCheck |-> <<"timeout", "check">>, timeoutConnect |-> <<"timeout", "connect">>,
      timeoutServer |-> <<"timeout", "server">>, timeoutTunnel |-> <<"timeout", "tunnel">>]

parseGlobalParameters ==
  [maxConnections |-> <<"max-connections">>, sslBindCiphers |-> <<"ssl-bind-ciphers">>,
   tlsVersionMin |-> <<"tls-version-min">>]

haproxyServiceFormToOps ==
  ScalarFields([description |-> <<"description">>, mode |-> <<"mode">>, port |-> <<"port">>,
                timeoutClient |-> <<"timeout", "client">>,
                httpCompressionAlgorithm |-> <<"http-compression", "algorithm">>,
                tcpRequestInspectDelay |-> <<"tcp-request", "inspect-delay">>])
  @@ FlagFields([redirectHttpToHttps |-> <<"redirect-http-to-https">>])
  @@ ListFields([backends |-> <<"backend">>])

addHAProxyListenAddressOps ==
  FlagFields([acceptProxy |-> <<"accept-proxy">>])

ruleOps ==
  ListFields([domainNames |-> <<"domain-name">>])
  @@ RawFields([urlPathBegin |-> <<"url-path", "begin">>, setBackend |-> <<"set", "backend">>,
                setServer |-> <<"set", "server">>])

haproxyBackendFormToOps ==
  ScalarFields([balance |-> <<"balance">>, description |-> <<"description">>, mode |-> <<"mode">>,
                httpCheckMethod |-> <<"http-check", "method">>, httpCheckUri |-> <<"http-check", "uri">>,
                httpCheckExpectStatus |-> <<"http-check", "expect", "status">>,
                httpCheckExpectString |-> <<"http-check", "expect", "string">>,
                healthCheck |-> <<"health-check">>, sslCaCertificate |-> <<"ssl", "ca-certificate">>,
                timeoutCheck |-> <<"timeout", "check">>, timeoutConnect |-> <<"timeout", "connect">>,
                timeoutServer |-> <<"timeout", "server">>, timeoutTunnel |-> <<"timeout", "tunnel">>])
  @@ FlagFields([httpServerClose |-> <<"http-server-close">>, sslNoVerify |-> <<"ssl", "no-verify">>])

addHAProxyServerOps ==
  RawFields([address |-> <<"address">>, port |-> <<"port">>, checkPort |-> <<"check", "port">>])
  @@ FlagFields([backup |-> <<"backup">>, sendProxy |-> <<"send-proxy">>, sendProxyV2 |-> <<"send-proxy-v2">>])

haproxyGlobalParametersFormToOps ==
  ScalarFields([maxConnections |-> <<"max-connections">>, tlsVersionMin |-> <<"tls-version-min">>])

haproxyGlobalTimeoutFormToOps ==
  ScalarFields([f \in DOMAIN HAProxyGlobalTimeout |-> <<f>>])

interfaceHealthFormToOps ==
  ScalarFields([nexthop |-> <<"nexthop">>, failureCount |-> <<"failure-count">>,
                successCount |-> <<"success-count">>])

addWANHealthTestOps ==
  ScalarFields([type |-> <<"type">>])
  @@ RawFields([target |-> <<"target">>, testScript |-> <<"test-script">>, respTime |-> <<"resp-time">>,
                ttlLimit |-> <<"ttl-limit">>])

wanRuleFormToOps ==
  ScalarFields([description |-> <<"description">>, inboundInterface |-> <<"inbound-interface">>,
                protocol |-> <<"protocol">>])
  @@ FlagFields([exclude |-> <<"exclude">>, failover |-> <<"failover">>,
                 perPacketBalancing |-> <<"per-packet-balancing">>])
  @@ ScalarFields(parseWANMatch)

addWANRuleInterfaceOps ==
  ScalarFields([weight |-> <<"weight">>])

-----------------------------------------------------------------------------
(* lib/ha*.ts *)

VRRPHealthCheck ==
  Texts({"healthCheckPing", "healthCheckScript"})
  @@ Numerals({"healthCheckFailureCount", "healthCheckInterval", "healthCheckTimeout"})

VRRPTransitionScripts ==
  Texts({"transitionMaster", "transitionBackup", "transitionFault", "transitionStop"})

VRRPAddress ==
  Texts({"interface"})

VRRPGroup ==
  Texts({"interface", "vrid", "description", "helloSourceAddress"})
  @@ NumeralsOr([priority |-> "100", advertiseInterval |-> "1", preemptDelay |-> "0"])
  @@ Flags({"disabled", "noPreempt", "rfc3768Compatibility", "excludeVrrpInterface"})
  @@ Lists({"peerAddresses", "trackInterfaces"})

VRRPSyncGroup ==
  Lists({"members"})

VRRPGlobalSettings ==
  Numerals({"startupDelay"}) @@ Texts({"version"}) @@ TextsOr([garpInterval |-> "0"])
  @@ NumeralsOr([garpMasterDelay |-> "5", garpMasterRefresh |-> "5", garpMasterRefreshRepeat |-> "1",
                 garpMasterRepeat |-> "5"])
  @@ Flags({"snmpTrap"})

HAConfig ==
  Flags({"disabled"})

ConntrackSyncInterface ==
  Texts({"peer"}) @@ Numerals({"port"})

ConntrackSyncConfig ==
  Texts({"vrrpSyncGroup"})
  @@ TextsOr([mcastGroup |-> "225.0.0.50"])
  @@ NumeralsOr([eventListenQueueSize |-> "8", syncQueueSize |-> "1", purgeTimeout |-> "60"])
  @@ Flags({"disableExternalCache", "disableSyslog", "startupResync"})
  @@ Lists({"acceptProtocols", "expectSync", "ignoreAddresses", "listenAddresses"})

parseVRRPHealthCheck ==
  [healthCheckPing |-> <<"health-check", "ping">>, healthCheckScript |-> <<"health-check", "script">>,
   healthCheckFailureCount |-> <<"health-check", "failure-count">>,
   healthCheckInterval |-> <<"health-check", "interval">>, healthCheckTimeout |-> <<"health-check", "timeout">>]

parseTransitionScripts ==
  [transitionMaster |-> <<"transition-script", "master">>, transitionBackup |-> <<"transition-script", "backup">>,
   transitionFault |-> <<"transition-script", "fault">>, transitionStop |-> <<"transition-script", "stop">>]

parseVRRPAddresses ==
  [interface |-> <<"interface">>]

parseVRRPGroup ==
  [interface |-> <<"interface">>, vrid |-> <<"vrid">>, priority |-> <<"priority">>,
   advertiseInterval |-> <<"advertise-interval">>, description |-> <<"description">>, disabled |-> <<"disable">>,
   noPreempt |-> <<"no-preempt">>, preemptDelay |-> <<"preempt-delay">>,
   rfc3768Compatibility |-> <<"rfc3768-compatibility">>, helloSourceAddress |-> <<"hello-source-address">>,
   peerAddresses |-> <<"peer-address">>, excludeVrrpInterface |-> <<"track", "exclude-vrrp-interface">>,
   trackInterfaces |-> <<"track", "interface">>]

parseHAConfig ==
  [disabled |-> <<"disable">>, snmpTrap |-> <<"vrrp", "snmp", "trap">>,
   startupDelay |-> <<"vrrp", "global-parameters", "startup-delay">>,
   version |-> <<"vrrp", "global-parameters", "version">>,
   garpInterval |-> <<"vrrp", "global-parameters", "garp", "interval">>,
   garpMasterDelay |-> <<"vrrp", "global-parameters", "garp", "master-delay">>,
   garpMasterRefresh |-> <<"vrrp", "global-parameters", "garp", "master-refresh">>,
   garpMasterRefreshRepeat |-> <<"vrrp", "global-parameters", "garp", "master-refresh-repeat">>,
   garpMasterRepeat |-> <<"vrrp", "global-parameters", "garp", "master-repeat">>]

parseConntrackSyncInterfaces ==
  [peer |-> <<"peer">>, port |-> <<"port">>]

parseConntrackSyncConfig ==
  [disableExternalCache |-> <<"disable-external-cache">>, disableSyslog |-> <<"disable-syslog">>,
   startupResync |-> <<"startup-resync">>, vrrpSyncGroup |-> <<"failover-mechanism", "vrrp", "sync-group">>,
   mcastGroup |-> <<"mcast-group">>]
  @@ [acceptProtocols |-> <<"accept-protocol">>, eventListenQueueSize |-> <<"event-listen-queue-size">>,
      expectSync |-> <<"expect-sync">>, ignoreAddresses |-> <<"ignore-address">>,
      listenAddresses |-> <<"listen-address">>, syncQueueSize |-> <<"sync-queue-size">>,
      purgeTimeout |-> <<"purge-timeout">>]

conntrackSyncFormToOps ==
  FlagFields([disableExternalCache |-> <<"disable-external-cache">>, disableSyslog |-> <<"disable-syslog">>,
              startupResync |-> <<"startup-resync">>])
  @@ ScalarFields([eventListenQueueSize |-> <<"event-listen-queue-size">>,
                   vrrpSyncGroup |-> <<"failover-mechanism", "vrrp", "sync-group">>,
                   mcastGroup |-> <<"mcast-group">>, syncQueueSize |-> <<"sync-queue-size">>,
                   purgeTimeout |-> <<"purge-timeout">>])

addConntrackSyncInterfaceOps ==
  ScalarFields([peer |-> <<"peer">>, port |-> <<"port">>])

vrrpGlobalFormToOps ==
  ScalarFields([startupDelay |-> <<"vrrp", "global-parameters", "startup-delay">>,
                version |-> <<"vrrp", "global-parameters", "version">>,
                garpInterval |-> <<"vrrp", "global-parameters", "garp", "interval">>,
                garpMasterDelay |-> <<"vrrp", "global-parameters", "garp", "master-delay">>,
                garpMasterRefresh |-> <<"vrrp", "global-parameters", "garp", "master-refresh">>,
                garpMasterRefreshRepeat |-> <<"vrrp", "global-parameters", "garp", "master-refresh-repeat">>,
                garpMasterRepeat |-> <<"vrrp", "global-parameters", "garp", "master-repeat">>])

vrrpGroupFormToOps ==
  FlagFields([disabled |-> <<"disable">>, noPreempt |-> <<"no-preempt">>,
              rfc3768Compatibility |-> <<"rfc3768-compatibility">>,
              excludeVrrpInterface |-> <<"track", "exclude-vrrp-interface">>])
  @@ ScalarFields([interface |-> <<"interface">>, vrid |-> <<"vrid">>, priority |-> <<"priority">>,
                   advertiseInterval |-> <<"advertise-interval">>, description |-> <<"description">>,
                   preemptDelay |-> <<"preempt-delay">>, helloSourceAddress |-> <<"hello-source-address">>,
                   healthCheckPing |-> <<"health-check", "ping">>,
                   healthCheckScript |-> <<"health-check", "script">>,
                   healthCheckFailureCount |-> <<"health-check", "failure-count">>,
                   healthCheckInterval |-> <<"health-check", "interval">>,
                   healthCheckTimeout |-> <<"health-check", "timeout">>,
                   transitionMaster |-> <<"transition-script", "master">>,
                   transitionBackup |-> <<"transition-script", "backup">>,
                   transitionFault |-> <<"transition-script", "fault">>,
                   transitionStop |-> <<"transition-script", "stop">>])

addVRRPGroupAddressOps ==
  ScalarFields([interface |-> <<"interface">>])

vrrpSyncGroupFormToOps ==
  ScalarFields([healthCheckPing |-> <<"health-check", "ping">>,
                healthCheckScript |-> <<"health-check", "script">>,
                healthCheckFailureCount |-> <<"health-check", "failure-count">>,
                healthCheckInterval |-> <<"health-check", "interval">>,
                healthCheckTimeout |-> <<"health-check", "timeout">>,
                transitionMaster |-> <<"transition-script", "master">>,
                transitionBackup |-> <<"transition-script", "backup">>,
                transitionFault |-> <<"transition-script", "fault">>,
                transitionStop |-> <<"transition-script", "stop">>])

-----------------------------------------------------------------------------
(* The components. *)

WANRuleInterfaceWeight == [weight |-> <<"weight">>]

WanGlobalSettings ==
  Remembering(WithChips(Form(<<"load-balancing", "wan">>, WANConfig, parseWANConfig,
                             ScalarFields([hook |-> <<"hook">>])),
                        [f \in DOMAIN WANConfig \ {"hook"} |-> parseWANConfig[f]]))

InterfaceHealthForm ==
  LET at == <<"load-balancing", "wan", "interface-health", "k">>  first == at \o <<"test", "0">> IN
  Starting(Form(at, WANInterfaceHealth, parseWANInterfaceHealth, interfaceHealthFormToOps),
           <<SetNode(first), SetOp(first \o <<"type">>, New), SetOp(first \o <<"target">>, New)>>)

WanInterfaceHealthList == Items(InterfaceHealthForm)

WanHealthTestsSection ==
  Adds(Form(InterfaceHealthForm.at \o <<"test", "sub">>, WANHealthTest, parseWANHealthTest, addWANHealthTestOps))

WanRuleFormPanel ==
  LET at == <<"load-balancing", "wan", "rule", "k">>  first == at \o <<"interface", "sub">> IN
  Starting(Form(at, WANRule @@ Texts(DOMAIN parseWANMatch), parseWANRule @@ parseWANMatch, wanRuleFormToOps),
           <<SetNode(first), SetOp(first \o <<"weight">>, New)>>)

WanRuleList == Items(WanRuleFormPanel)

WanRuleInterfacesSection ==
  Adds(Form(WanRuleFormPanel.at \o <<"interface", "sub">>, WANRuleInterface, WANRuleInterfaceWeight,
            addWANRuleInterfaceOps))

HaproxyGlobalSettings ==
  LET In(node, table) == [f \in DOMAIN table |-> <<node>> \o table[f]]
      WritesIn(node, table) == [f \in DOMAIN table |-> [table[f] EXCEPT !.path = <<node>> \o @]]
      timeouts == [f \in DOMAIN HAProxyGlobalTimeout |-> <<f>>]
  IN WithChips(Form(<<"load-balancing", "haproxy">>, HAProxyGlobalParameters @@ HAProxyGlobalTimeout,
                    In("global-parameters", parseGlobalParameters) @@ In("timeout", timeouts),
                    WritesIn("global-parameters", haproxyGlobalParametersFormToOps)
                    @@ WritesIn("timeout", haproxyGlobalTimeoutFormToOps)),
    [sslBindCiphers |-> <<"global-parameters", "ssl-bind-ciphers">>])

HaproxyServiceFormPanel ==
  LET at == <<"load-balancing", "haproxy", "service", "k">>  rule == at \o <<"rule", "1">> IN
  Starting(Form(at, HAProxyService, parseHAProxyService, haproxyServiceFormToOps),
           <<SetNode(at \o <<"listen-address", "sub">>), SetNode(rule), SetOp(rule \o <<"domain-name">>, New),
             SetOp(rule \o <<"set", "backend">>, New)>>)

HaproxyServiceList == Items(WithChips(HaproxyServiceFormPanel,
    [sslCertificates |-> <<"ssl", "certificate">>,
     httpCompressionMimeTypes |-> <<"http-compression", "mime-type">>]))

HaproxyServiceHeaders == KeyValuePairList(HaproxyServiceFormPanel.at \o <<"http-response-headers">>)

HaproxyListenAddressesSection ==
  Adds(Form(HaproxyServiceFormPanel.at \o <<"listen-address", "sub">>, HAProxyListenAddress, parseListenAddresses,
            addHAProxyListenAddressOps))

HaproxyServiceRulesSection ==
  Adds(Form(HaproxyServiceFormPanel.at \o <<"rule", "sub">>, HAProxyRule, parseHAProxyRule,
            [f \in {"domainNames", "urlPathBegin", "setBackend"} |-> ruleOps[f]]))

HaproxyBackendFormPanel ==
  LET at == <<"load-balancing", "haproxy", "backend", "k">>
      server == at \o <<"server", "sub">>  rule == at \o <<"rule", "1">> IN
  Starting(Form(at, HAProxyBackend, parseHAProxyBackend, haproxyBackendFormToOps),
           <<SetNode(server), SetOp(server \o <<"address">>, New), SetOp(server \o <<"port">>, New), SetNode(rule),
             SetOp(rule \o <<"domain-name">>, New), SetOp(rule \o <<"set", "server">>, New)>>)

HaproxyBackendList == Items(HaproxyBackendFormPanel)

HaproxyBackendHeaders == KeyValuePairList(HaproxyBackendFormPanel.at \o <<"http-response-headers">>)

HaproxyServersSection ==
  Adds(Form(HaproxyBackendFormPanel.at \o <<"server", "sub">>, HAProxyServer, parseServers, addHAProxyServerOps))

HaproxyBackendRulesSection ==
  Adds(Form(HaproxyBackendFormPanel.at \o <<"rule", "sub">>, HAProxyRule, parseHAProxyRule,
            [f \in {"domainNames", "setServer"} |-> ruleOps[f]]))

VrrpGlobalSettings ==
  WithChips(Form(<<"high-availability">>, VRRPGlobalSettings @@ HAConfig, parseHAConfig, vrrpGlobalFormToOps),
            [disabled |-> <<"disable">>, snmpTrap |-> <<"vrrp", "snmp", "trap">>])

VrrpGroupFormPanel ==
  LET at == <<"high-availability", "vrrp", "group", "k">>  first == at \o <<"address", "sub">> IN
  Starting(Form(at, VRRPGroup @@ VRRPHealthCheck @@ VRRPTransitionScripts,
                parseVRRPGroup @@ parseVRRPHealthCheck @@ parseTransitionScripts, vrrpGroupFormToOps),
           <<SetNode(first), SetOp(first \o <<"interface">>, New)>>)

VrrpGroupList == Items(WithChips(VrrpGroupFormPanel,
    [peerAddresses |-> <<"peer-address">>, trackInterfaces |-> <<"track", "interface">>]))

VrrpAddressesSection(leaf) ==
  Adds(Form(VrrpGroupFormPanel.at \o <<leaf, "sub">>, VRRPAddress, parseVRRPAddresses, addVRRPGroupAddressOps))

VrrpSyncGroupFormPanel ==
  Form(<<"high-availability", "vrrp", "sync-group", "k">>,
       VRRPSyncGroup @@ VRRPHealthCheck @@ VRRPTransitionScripts,
       [members |-> <<"member">>] @@ parseVRRPHealthCheck @@ parseTransitionScripts,
       vrrpSyncGroupFormToOps @@ ListFields([members |-> <<"member">>]))

VrrpSyncGroupList == Items(VrrpSyncGroupFormPanel)

ConntrackSyncSettings ==
  WithChips(Form(<<"service", "conntrack-sync">>, ConntrackSyncConfig, parseConntrackSyncConfig,
                 conntrackSyncFormToOps),
    [acceptProtocols |-> <<"accept-protocol">>, expectSync |-> <<"expect-sync">>,
     ignoreAddresses |-> <<"ignore-address">>, listenAddresses |-> <<"listen-address">>])

ConntrackSyncInterfacesSection ==
  Adds(Form(<<"service", "conntrack-sync", "interface", "k">>, ConntrackSyncInterface, parseConntrackSyncInterfaces,
            addConntrackSyncInterfaceOps))

BalancingPages ==
  <<WanGlobalSettings, WanInterfaceHealthList, WanHealthTestsSection, WanRuleList, WanRuleInterfacesSection,
    HaproxyGlobalSettings, HaproxyServiceList, HaproxyServiceHeaders, HaproxyListenAddressesSection,
    HaproxyServiceRulesSection, HaproxyBackendList, HaproxyBackendHeaders, HaproxyServersSection,
    HaproxyBackendRulesSection, VrrpGlobalSettings, VrrpGroupList, VrrpSyncGroupList, ConntrackSyncSettings,
    ConntrackSyncInterfacesSection, VrrpAddressesSection("address"), VrrpAddressesSection("excluded-address")>>
================================================================================
