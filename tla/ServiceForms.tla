----------------------------- MODULE ServiceForms ------------------------------
(***************************************************************************)
(* The forms of the services for the network: broadcast relay, DHCP        *)
(* relays, DHCPv6 server, dynamic DNS, DNS forwarding, LLDP, mDNS          *)
(* repeater, NDP proxy and router advertisements. Three tables of each and *)
(* the components that use them.                                           *)
(*                                                                         *)
(* Left out: the address of a dynamic DNS entry, which is one of two       *)
(* shapes.                                                                 *)
(***************************************************************************)
EXTENDS Forms

-----------------------------------------------------------------------------
(* lib/serviceBroadcastRelay*.ts *)

BroadcastRelayInstance ==
  Texts({"address", "description", "port"})
  @@ Flags({"disabled"})
  @@ Lists({"interfaces"})

BroadcastRelayConfig ==
  Flags({"disabled"})

parseInstance ==
  [disabled |-> <<"disable">>, address |-> <<"address">>, description |-> <<"description">>,
   interfaces |-> <<"interface">>, port |-> <<"port">>]

parseBroadcastRelayConfig ==
  [disabled |-> <<"disable">>]

broadcastRelayInstanceFormToOps ==
  ScalarFields([address |-> <<"address">>, description |-> <<"description">>, port |-> <<"port">>])
  @@ FlagFields([disabled |-> <<"disable">>])

-----------------------------------------------------------------------------
(* lib/serviceDhcpRelay*.ts *)

DHCPRelayConfig ==
  Texts({"hopCount", "maxSize", "relayAgentsPackets"})
  @@ Flags({"disabled"})
  @@ Lists({"interfaces", "listenInterfaces", "upstreamInterfaces", "servers"})

DHCPv6RelayListenInterface ==
  Texts({"address"})

DHCPv6RelayUpstreamInterface ==
  Lists({"addresses"})

DHCPv6RelayConfig ==
  Texts({"maxHopCount"})
  @@ Flags({"disabled", "useInterfaceIdOption"})

parseDHCPRelayConfig ==
  [disabled |-> <<"disable">>, interfaces |-> <<"interface">>, listenInterfaces |-> <<"listen-interface">>,
   upstreamInterfaces |-> <<"upstream-interface">>, hopCount |-> <<"relay-options", "hop-count">>,
   maxSize |-> <<"relay-options", "max-size">>,
   relayAgentsPackets |-> <<"relay-options", "relay-agents-packets">>, servers |-> <<"server">>]

parseListenInterface ==
  [address |-> <<"address">>]

parseUpstreamInterface ==
  [addresses |-> <<"address">>]

parseDHCPv6RelayConfig ==
  [disabled |-> <<"disable">>, maxHopCount |-> <<"max-hop-count">>,
   useInterfaceIdOption |-> <<"use-interface-id-option">>]

dhcpRelaySettingsFormToOps ==
  ScalarFields([hopCount |-> <<"relay-options", "hop-count">>, maxSize |-> <<"relay-options", "max-size">>,
                relayAgentsPackets |-> <<"relay-options", "relay-agents-packets">>])
  @@ FlagFields([disabled |-> <<"disable">>])

dhcpv6RelaySettingsFormToOps ==
  ScalarFields([maxHopCount |-> <<"max-hop-count">>])
  @@ FlagFields([disabled |-> <<"disable">>,
                 useInterfaceIdOption |-> <<"use-interface-id-option">>])

addDHCPv6RelayListenInterfaceOps ==
  ScalarFields([address |-> <<"address">>])

-----------------------------------------------------------------------------
(* lib/serviceDhcpv6Server*.ts *)

DHCPv6Option ==
  Lists({"nameServers", "domainSearch", "sntpServers"})

DHCPv6Range ==
  Texts({"prefix", "start", "stop"})

DHCPv6PrefixDelegation ==
  Texts({"prefixLength", "delegatedLength", "excludedPrefix", "excludedPrefixLength"})

DHCPv6StaticMapping ==
  Texts({"mac", "duid"})
  @@ Flags({"disabled"})
  @@ Lists({"ipv6Addresses", "ipv6Prefixes"})

DHCPv6Subnet ==
  Texts({"interface", "subnetId", "leaseDefault", "leaseMaximum", "leaseMinimum"})

DHCPv6SharedNetwork ==
  Texts({"description", "interface"})
  @@ Flags({"disabled"})

DHCPv6ServerConfig ==
  Texts({"preference", "logLevel"})
  @@ Flags({"disabled", "disableRouteAutoinstall"})
  @@ Lists({"listenInterfaces", "globalNameServers"})

parseDHCPv6Option ==
  [nameServers |-> <<"option", "name-server">>, domainSearch |-> <<"option", "domain-search">>,
   sntpServers |-> <<"option", "sntp-server">>]

parseDHCPv6Range ==
  [prefix |-> <<"prefix">>, start |-> <<"start">>, stop |-> <<"stop">>]

parseDHCPv6PrefixDelegation ==
  [prefixLength |-> <<"prefix-length">>, delegatedLength |-> <<"delegated-length">>,
   excludedPrefix |-> <<"excluded-prefix">>, excludedPrefixLength |-> <<"excluded-prefix-length">>]

parseDHCPv6StaticMapping ==
  [disabled |-> <<"disable">>, mac |-> <<"mac">>, duid |-> <<"duid">>, ipv6Addresses |-> <<"ipv6-address">>,
   ipv6Prefixes |-> <<"ipv6-prefix">>]

parseDHCPv6Subnet ==
  [interface |-> <<"interface">>, subnetId |-> <<"subnet-id">>, leaseDefault |-> <<"lease-time", "default">>,
   leaseMaximum |-> <<"lease-time", "maximum">>, leaseMinimum |-> <<"lease-time", "minimum">>]

parseDHCPv6SharedNetwork ==
  [disabled |-> <<"disable">>, description |-> <<"description">>, interface |-> <<"interface">>]

parseDHCPv6ServerConfig ==
  [disabled |-> <<"disable">>, listenInterfaces |-> <<"listen-interface">>,
   disableRouteAutoinstall |-> <<"disable-route-autoinstall">>, preference |-> <<"preference">>,
   logLevel |-> <<"log-level">>, globalNameServers |-> <<"global-parameters", "name-server">>]

dhcpv6GlobalFormToOps ==
  ScalarFields([preference |-> <<"preference">>, logLevel |-> <<"log-level">>])
  @@ FlagFields([disabled |-> <<"disable">>, disableRouteAutoinstall |-> <<"disable-route-autoinstall">>])

dhcpv6SharedNetworkFormToOps ==
  ScalarFields([description |-> <<"description">>, interface |-> <<"interface">>])
  @@ FlagFields([disabled |-> <<"disable">>])

dhcpv6SubnetFormToOps ==
  ScalarFields([interface |-> <<"interface">>, subnetId |-> <<"subnet-id">>,
                leaseDefault |-> <<"lease-time", "default">>, leaseMaximum |-> <<"lease-time", "maximum">>,
                leaseMinimum |-> <<"lease-time", "minimum">>])

addDHCPv6RangeOps ==
  ScalarFields([prefix |-> <<"prefix">>, start |-> <<"start">>, stop |-> <<"stop">>])

addDHCPv6StaticMappingOps ==
  ScalarFields([mac |-> <<"mac">>, duid |-> <<"duid">>])
  @@ FlagFields([disabled |-> <<"disable">>])

addDHCPv6PrefixDelegationOps ==
  ScalarFields([prefixLength |-> <<"prefix-length">>, delegatedLength |-> <<"delegated-length">>,
                excludedPrefix |-> <<"excluded-prefix">>, excludedPrefixLength |-> <<"excluded-prefix-length">>])

-----------------------------------------------------------------------------
(* lib/serviceDnsDynamic*.ts *)

DynamicDNSEntry ==
  Texts({"description", "protocol", "ipVersion", "server", "zone", "username", "ttl", "waitTime", "expiryTime"})
  @@ Lists({"hostNames"})
  @@ Secrets({"hasPassword", "hasKey"})

DynamicDNSConfig ==
  Texts({"interval", "vrf"})

parseEntry ==
  [description |-> <<"description">>, protocol |-> <<"protocol">>, ipVersion |-> <<"ip-version">>,
   hostNames |-> <<"host-name">>, server |-> <<"server">>, zone |-> <<"zone">>, username |-> <<"username">>,
   ttl |-> <<"ttl">>, waitTime |-> <<"wait-time">>, expiryTime |-> <<"expiry-time">>,
   hasPassword |-> {<<"password">>}, hasKey |-> {<<"key">>}]

parseDynamicDNSConfig ==
  [interval |-> <<"interval">>, vrf |-> <<"vrf">>]

dynamicDNSEntryFormToOps ==
  ScalarFields([description |-> <<"description">>, protocol |-> <<"protocol">>, ipVersion |-> <<"ip-version">>,
                server |-> <<"server">>, zone |-> <<"zone">>, username |-> <<"username">>, ttl |-> <<"ttl">>,
                waitTime |-> <<"wait-time">>, expiryTime |-> <<"expiry-time">>])
  @@ SecretFields([password |-> <<"password">>, key |-> <<"key">>])

dynamicDNSGlobalFormToOps ==
  ScalarFields([interval |-> <<"interval">>, vrf |-> <<"vrf">>])

-----------------------------------------------------------------------------
(* lib/serviceDnsForwarding*.ts *)

DNSForwardingNameServer ==
  Texts({"port"})

DNSForwardingDomain ==
  Flags({"addnta", "recursionDesired"})

DNSForwardingConfig ==
  Texts({"cacheSize", "dnssec", "negativeTtl", "port"})
  @@ Flags({"ignoreHostsFile", "noServeRfc1918", "useSystemNameServers"})
  @@ Lists({"dhcpInterfaces", "allowFrom", "listenAddresses", "sourceAddresses"})

parseNameServers ==
  [port |-> <<"port">>]

parseDomain ==
  [addnta |-> <<"addnta">>, recursionDesired |-> <<"recursion-desired">>]

parseDNSForwardingConfig ==
  [cacheSize |-> <<"cache-size">>, dhcpInterfaces |-> <<"dhcp">>, dnssec |-> <<"dnssec">>,
   allowFrom |-> <<"allow-from">>, listenAddresses |-> <<"listen-address">>,
   ignoreHostsFile |-> <<"ignore-hosts-file">>, noServeRfc1918 |-> <<"no-serve-rfc1918">>,
   negativeTtl |-> <<"negative-ttl">>, useSystemNameServers |-> <<"system">>,
   sourceAddresses |-> <<"source-address">>, port |-> <<"port">>]

dnsForwardingSettingsFormToOps ==
  FlagFields([ignoreHostsFile |-> <<"ignore-hosts-file">>, noServeRfc1918 |-> <<"no-serve-rfc1918">>,
              useSystemNameServers |-> <<"system">>])
  @@ ScalarFields([cacheSize |-> <<"cache-size">>, dnssec |-> <<"dnssec">>, negativeTtl |-> <<"negative-ttl">>,
                   port |-> <<"port">>])

dnsForwardingDomainFormToOps ==
  FlagFields([addnta |-> <<"addnta">>, recursionDesired |-> <<"recursion-desired">>])

addNameServerOps ==
  ScalarFields([port |-> <<"port">>])

-----------------------------------------------------------------------------
(* lib/serviceLldp*.ts *)

LLDPLocation ==
  Texts({"altitude", "datum", "latitude", "longitude", "elin"})

LLDPInterface ==
  Texts({"mode"})

LLDPConfig ==
  Flags({"legacyCdp", "legacyEdp", "legacyFdp", "legacySonmp", "snmp"})
  @@ Lists({"managementAddresses"})

parseLldpLocation ==
  [altitude |-> <<"location", "coordinate-based", "altitude">>,
   datum |-> <<"location", "coordinate-based", "datum">>,
   latitude |-> <<"location", "coordinate-based", "latitude">>,
   longitude |-> <<"location", "coordinate-based", "longitude">>, elin |-> <<"location", "elin">>]

parseLldpInterface ==
  [mode |-> <<"mode">>]

parseLLDPConfig ==
  [legacyCdp |-> <<"legacy-protocols", "cdp">>, legacyEdp |-> <<"legacy-protocols", "edp">>,
   legacyFdp |-> <<"legacy-protocols", "fdp">>, legacySonmp |-> <<"legacy-protocols", "sonmp">>,
   managementAddresses |-> <<"management-address">>, snmp |-> <<"snmp">>]

lldpInterfaceFormToOps ==
  ScalarFields([mode |-> <<"mode">>, altitude |-> <<"location", "coordinate-based", "altitude">>,
                datum |-> <<"location", "coordinate-based", "datum">>,
                latitude |-> <<"location", "coordinate-based", "latitude">>,
                longitude |-> <<"location", "coordinate-based", "longitude">>, elin |-> <<"location", "elin">>])

lldpGeneralFormToOps ==
  FlagFields([legacyCdp |-> <<"legacy-protocols", "cdp">>, legacyEdp |-> <<"legacy-protocols", "edp">>,
              legacyFdp |-> <<"legacy-protocols", "fdp">>, legacySonmp |-> <<"legacy-protocols", "sonmp">>,
              snmp |-> <<"snmp">>])

-----------------------------------------------------------------------------
(* lib/serviceMdns*.ts *)

MdnsRepeaterConfig ==
  Texts({"ipVersion", "cacheEntries"})
  @@ Flags({"disabled", "vrrpDisable"})
  @@ Lists({"interfaces", "browseDomains", "allowServices"})

parseMdnsRepeaterConfig ==
  [disabled |-> <<"disable">>, interfaces |-> <<"interface">>, ipVersion |-> <<"ip-version">>,
   browseDomains |-> <<"browse-domain">>, allowServices |-> <<"allow-service">>,
   cacheEntries |-> <<"cache-entries">>, vrrpDisable |-> <<"vrrp-disable">>]

mdnsRepeaterFormToOps ==
  ScalarFields([ipVersion |-> <<"ip-version">>, cacheEntries |-> <<"cache-entries">>])
  @@ FlagFields([disabled |-> <<"disable">>, vrrpDisable |-> <<"vrrp-disable">>])

-----------------------------------------------------------------------------
(* lib/serviceNdpProxy*.ts *)

NDPProxyPrefix ==
  Texts({"mode", "interface"})
  @@ Flags({"disabled"})

NDPProxyInterface ==
  Texts({"timeout", "ttl"})
  @@ Flags({"disabled", "enableRouterBit"})

NDPProxyConfig ==
  Texts({"routeRefresh"})

parseNdpPrefix ==
  [disabled |-> <<"disable">>, mode |-> <<"mode">>, interface |-> <<"interface">>]

parseNdpInterface ==
  [disabled |-> <<"disable">>, enableRouterBit |-> <<"enable-router-bit">>, timeout |-> <<"timeout">>,
   ttl |-> <<"ttl">>]

parseNDPProxyConfig ==
  [routeRefresh |-> <<"route-refresh">>]

ndpProxyInterfaceFormToOps ==
  ScalarFields([timeout |-> <<"timeout">>, ttl |-> <<"ttl">>])
  @@ FlagFields([disabled |-> <<"disable">>, enableRouterBit |-> <<"enable-router-bit">>])

addNDPProxyPrefixOps ==
  ScalarFields([mode |-> <<"mode">>, interfaceRef |-> <<"interface">>])
  @@ FlagFields([disabled |-> <<"disable">>])

ndpProxyGlobalFormToOps ==
  ScalarFields([routeRefresh |-> <<"route-refresh">>])

-----------------------------------------------------------------------------
(* lib/serviceRouterAdvert*.ts *)

RouterAdvertPrefix ==
  Texts({"baseInterface", "preferredLifetime", "validLifetime"})
  @@ Flags({"noAutonomousFlag", "noOnLinkFlag", "deprecatePrefix", "decrementLifetime"})

RouterAdvertRoute ==
  Texts({"validLifetime", "routePreference"})
  @@ Flags({"noRemoveRoute"})

RouterAdvertInterface ==
  Texts({"hopLimit", "defaultLifetime", "defaultPreference", "linkMtu", "intervalMax", "intervalMin",
         "nameServerLifetime", "reachableTime", "retransTimer"})
  @@ Flags({"managedFlag", "otherConfigFlag", "noSendAdvert", "noSendInterval"})
  @@ Lists({"dnssl", "nameServers", "sourceAddresses"})

parseAdvertPrefix ==
  [noAutonomousFlag |-> <<"no-autonomous-flag">>, noOnLinkFlag |-> <<"no-on-link-flag">>,
   deprecatePrefix |-> <<"deprecate-prefix">>, decrementLifetime |-> <<"decrement-lifetime">>,
   baseInterface |-> <<"base-interface">>, preferredLifetime |-> <<"preferred-lifetime">>,
   validLifetime |-> <<"valid-lifetime">>]

parseRoute ==
  [validLifetime |-> <<"valid-lifetime">>, routePreference |-> <<"route-preference">>,
   noRemoveRoute |-> <<"no-remove-route">>]

parseAdvertInterface ==
  [hopLimit |-> <<"hop-limit">>, defaultLifetime |-> <<"default-lifetime">>,
   defaultPreference |-> <<"default-preference">>, dnssl |-> <<"dnssl">>, linkMtu |-> <<"link-mtu">>,
   managedFlag |-> <<"managed-flag">>, intervalMax |-> <<"interval", "max">>,
   intervalMin |-> <<"interval", "min">>, nameServers |-> <<"name-server">>,
   nameServerLifetime |-> <<"name-server-lifetime">>, otherConfigFlag |-> <<"other-config-flag">>,
   sourceAddresses |-> <<"source-address">>, reachableTime |-> <<"reachable-time">>,
   retransTimer |-> <<"retrans-timer">>, noSendAdvert |-> <<"no-send-advert">>,
   noSendInterval |-> <<"no-send-interval">>]

routerAdvertInterfaceFormToOps ==
  ScalarFields([hopLimit |-> <<"hop-limit">>, defaultLifetime |-> <<"default-lifetime">>,
                defaultPreference |-> <<"default-preference">>, linkMtu |-> <<"link-mtu">>,
                intervalMax |-> <<"interval", "max">>, intervalMin |-> <<"interval", "min">>,
                nameServerLifetime |-> <<"name-server-lifetime">>, reachableTime |-> <<"reachable-time">>,
                retransTimer |-> <<"retrans-timer">>])
  @@ FlagFields([managedFlag |-> <<"managed-flag">>, otherConfigFlag |-> <<"other-config-flag">>,
                 noSendAdvert |-> <<"no-send-advert">>, noSendInterval |-> <<"no-send-interval">>])

addRouterAdvertPrefixOps ==
  RawFields([baseInterface |-> <<"base-interface">>, preferredLifetime |-> <<"preferred-lifetime">>,
             validLifetime |-> <<"valid-lifetime">>])
  @@ FlagFields([noAutonomousFlag |-> <<"no-autonomous-flag">>, noOnLinkFlag |-> <<"no-on-link-flag">>,
                 deprecatePrefix |-> <<"deprecate-prefix">>, decrementLifetime |-> <<"decrement-lifetime">>])

addRouterAdvertRouteOps ==
  RawFields([validLifetime |-> <<"valid-lifetime">>]) @@ ScalarFields([routePreference |-> <<"route-preference">>])
  @@ FlagFields([noRemoveRoute |-> <<"no-remove-route">>])

-----------------------------------------------------------------------------
(* The components. *)

BroadcastRelayEnabled ==
  WithChips(Form(<<"service", "broadcast-relay">>, BroadcastRelayConfig, parseBroadcastRelayConfig, NoFields),
            [disabled |-> <<"disable">>])

BroadcastRelayList == Gated(BroadcastRelayEnabled)

BroadcastRelayInstanceForm ==
  Items(WithChips(Form(<<"service", "broadcast-relay", "id", "k">>, BroadcastRelayInstance, parseInstance,
                       broadcastRelayInstanceFormToOps), [interfaces |-> <<"interface">>]))

V4Settings ==
  WithChips(Form(<<"service", "dhcp-relay">>, DHCPRelayConfig, parseDHCPRelayConfig, dhcpRelaySettingsFormToOps),
    [interfaces |-> <<"interface">>, listenInterfaces |-> <<"listen-interface">>,
     upstreamInterfaces |-> <<"upstream-interface">>, servers |-> <<"server">>])

V6Settings ==
  Form(<<"service", "dhcpv6-relay">>, DHCPv6RelayConfig, parseDHCPv6RelayConfig, dhcpv6RelaySettingsFormToOps)

ListenInterfaces ==
  Adds(Form(<<"service", "dhcpv6-relay", "listen-interface", "k">>, DHCPv6RelayListenInterface, parseListenInterface,
            addDHCPv6RelayListenInterfaceOps))

UpstreamInterfaces ==
  Adds(WithChips(Form(<<"service", "dhcpv6-relay", "upstream-interface", "k">>, DHCPv6RelayUpstreamInterface,
                      parseUpstreamInterface, NoFields), [addresses |-> <<"address">>]))

Dhcpv6ServerSettingsForm ==
  WithChips(Form(<<"service", "dhcpv6-server">>, DHCPv6ServerConfig, parseDHCPv6ServerConfig, dhcpv6GlobalFormToOps),
           
    [listenInterfaces |-> <<"listen-interface">>,
     globalNameServers |-> <<"global-parameters", "name-server">>])

Dhcpv6ServerSettings == Gated(Dhcpv6ServerSettingsForm)

SharedNetworkForm ==
  LET at == <<"service", "dhcpv6-server", "shared-network-name", "k">>
      first == at \o <<"subnet", "sub">>
      range == first \o <<"range", "0">>
  IN Starting(Form(at, DHCPv6SharedNetwork @@ DHCPv6Option, parseDHCPv6SharedNetwork @@ parseDHCPv6Option,
                   dhcpv6SharedNetworkFormToOps),
              <<SetOp(first \o <<"subnet-id">>, New), SetNode(range), SetOp(range \o <<"start">>, New),
                SetOp(range \o <<"stop">>, New)>>)

SharedNetworkList == Items(SharedNetworkForm)

SubnetForm ==
  Form(<<"service", "dhcpv6-server", "shared-network-name", "k", "subnet", "sub">>, DHCPv6Subnet @@ DHCPv6Option,
       parseDHCPv6Subnet @@ parseDHCPv6Option, dhcpv6SubnetFormToOps)

SubnetContents == WithChips(SubnetForm,
    [nameServers |-> <<"option", "name-server">>, domainSearch |-> <<"option", "domain-search">>,
     sntpServers |-> <<"option", "sntp-server">>])

Dhcpv6SubnetDetails == Items(SubnetContents)

RangesSection ==
  Adds(Form(SubnetForm.at \o <<"range", "k">>, DHCPv6Range, parseDHCPv6Range, addDHCPv6RangeOps))

StaticMappingsSection ==
  Adds(WithChips(Form(SubnetForm.at \o <<"static-mapping", "k">>, DHCPv6StaticMapping, parseDHCPv6StaticMapping,
                      addDHCPv6StaticMappingOps),
    [ipv6Addresses |-> <<"ipv6-address">>, ipv6Prefixes |-> <<"ipv6-prefix">>]))

PrefixDelegationsSection ==
  Adds(Form(SubnetForm.at \o <<"prefix-delegation", "prefix", "k">>, DHCPv6PrefixDelegation, parseDHCPv6PrefixDelegation,
            addDHCPv6PrefixDelegationOps))

DnsForwardingSettingsForm ==
  WithChips(Form(<<"service", "dns", "forwarding">>, DNSForwardingConfig, parseDNSForwardingConfig,
                 dnsForwardingSettingsFormToOps),
    [dhcpInterfaces |-> <<"dhcp">>, allowFrom |-> <<"allow-from">>,
     listenAddresses |-> <<"listen-address">>, sourceAddresses |-> <<"source-address">>])

DnsForwardingSettings == Gated(DnsForwardingSettingsForm)

NameServersSection(base) ==
  Adds(Form(base \o <<"k">>, DNSForwardingNameServer, parseNameServers, addNameServerOps))

DomainsSection ==
  Adds(Form(<<"service", "dns", "forwarding", "domain", "k">>, DNSForwardingDomain, parseDomain,
            dnsForwardingDomainFormToOps))

DomainNameServers == NameServersSection(DomainsSection.at \o <<"name-server">>)

EntryForm ==
  Form(<<"service", "dns", "dynamic", "name", "k">>, DynamicDNSEntry, parseEntry, dynamicDNSEntryFormToOps)

DynamicDnsList ==
  Showing(Unmarked(Items(WithChips(EntryForm, [hostNames |-> <<"host-name">>]))), [password |-> "hasPassword", key |-> "hasKey"])

DynamicDnsGlobalSettings ==
  Form(<<"service", "dns", "dynamic">>, DynamicDNSConfig, parseDynamicDNSConfig, dynamicDNSGlobalFormToOps)

LldpEnabled ==
  WithChips(Form(<<"service", "lldp">>, LLDPConfig, parseLLDPConfig, lldpGeneralFormToOps), [managementAddresses |-> <<"management-address">>])

LldpList == Gated(LldpEnabled)

LldpInterfaceForm ==
  Items(Form(<<"service", "lldp", "interface", "k">>, LLDPInterface @@ LLDPLocation,
             parseLldpInterface @@ parseLldpLocation, lldpInterfaceFormToOps))

MdnsSettingsForm ==
  WithChips(Form(<<"service", "mdns", "repeater">>, MdnsRepeaterConfig, parseMdnsRepeaterConfig, mdnsRepeaterFormToOps),
           
    [interfaces |-> <<"interface">>, browseDomains |-> <<"browse-domain">>,
     allowServices |-> <<"allow-service">>])

MdnsSettings == Gated(MdnsSettingsForm)

NdpProxyEnabled == Form(<<"service", "ndp-proxy">>, NDPProxyConfig, parseNDPProxyConfig, ndpProxyGlobalFormToOps)

NdpProxyList == Gated(NdpProxyEnabled)

NdpInterfaceForm ==
  LET at == <<"service", "ndp-proxy", "interface", "k">>  first == at \o <<"prefix", "sub">> IN
  Items(Starting(Form(at, NDPProxyInterface, parseNdpInterface, ndpProxyInterfaceFormToOps),
                 <<SetNode(first), SetOp(first \o <<"mode">>, New), SetOp(first \o <<"interface">>, New)>>))

NdpPrefixesSection ==
  Showing(Adds(Form(NdpInterfaceForm.at \o <<"prefix", "k">>, NDPProxyPrefix, parseNdpPrefix, addNDPProxyPrefixOps)),
          [interfaceRef |-> "interface"])

RouterAdvertInterfaceForm ==
  LET at == <<"service", "router-advert", "interface", "k">> IN
  Starting(Form(at, RouterAdvertInterface, parseAdvertInterface, routerAdvertInterfaceFormToOps),
           <<SetNode(at \o <<"prefix", "sub">>), SetNode(at \o <<"route", "sub">>)>>)

InterfaceDetails == WithChips(RouterAdvertInterfaceForm,
    [dnssl |-> <<"dnssl">>, nameServers |-> <<"name-server">>, sourceAddresses |-> <<"source-address">>])

RouterAdvertList == Items(InterfaceDetails)

AdvertPrefixesSection ==
  Adds(Form(RouterAdvertList.at \o <<"prefix", "k">>, RouterAdvertPrefix, parseAdvertPrefix, addRouterAdvertPrefixOps))

RoutesSection ==
  Adds(Form(RouterAdvertList.at \o <<"route", "k">>, RouterAdvertRoute, parseRoute, addRouterAdvertRouteOps))

ServicePages ==
  <<BroadcastRelayList, BroadcastRelayInstanceForm, V4Settings, V6Settings, ListenInterfaces,
    UpstreamInterfaces, Dhcpv6ServerSettings, SharedNetworkList, Dhcpv6SubnetDetails, RangesSection,
    StaticMappingsSection, PrefixDelegationsSection, DnsForwardingSettings, DomainsSection, DomainNameServers,
    DynamicDnsList, DynamicDnsGlobalSettings, LldpList, LldpInterfaceForm, MdnsSettings, NdpProxyList,
    NdpInterfaceForm, NdpPrefixesSection, RouterAdvertList, AdvertPrefixesSection, RoutesSection>>
================================================================================
