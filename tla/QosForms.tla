------------------------------- MODULE QosForms --------------------------------
(***************************************************************************)
(* The forms of the QoS page: match groups, interface bindings and the     *)
(* eight kinds of policy. A policy, a class and a match are entries "k",   *)
(* "sub" and "m" of one another; a policy is created by its name alone.    *)
(***************************************************************************)
EXTENDS Forms

-----------------------------------------------------------------------------
(* lib/qos*.ts *)

QosMatch ==
  Texts({"description", "interface", "ipSourceAddress", "ipSourcePort", "ipDestinationAddress",
         "ipDestinationPort", "ipProtocol", "ipDscp", "ipv6SourceAddress", "ipv6SourcePort",
         "ipv6DestinationAddress", "ipv6DestinationPort", "ipv6Protocol", "ipv6Dscp", "etherSource",
         "etherDestination", "etherProtocol"})
  @@ Flags({"ipTcpAck", "ipTcpSyn", "ipv6TcpAck", "ipv6TcpSyn"})
  @@ Numerals({"ipMaxLength", "ipv6MaxLength", "mark", "vif"})

QosLimiterClass ==
  Texts({"description", "bandwidth"}) @@ Numerals({"mtu"})
  @@ TextsOr([burst |-> "15k", policeExceed |-> "drop", policeNotExceed |-> "ok"]) @@ NumeralsOr([priority |-> "20"])
  @@ Lists({"matchGroups"})

QosLimiterDefaultClass ==
  Texts({"bandwidth"}) @@ Numerals({"mtu"}) @@ TextsOr([burst |-> "15k", policeExceed |-> "drop", policeNotExceed |-> "ok"])

QosShaperClass ==
  Texts({"description", "bandwidth", "ceiling", "setDscp"})
  @@ Numerals({"codelQuantum", "flows", "interval", "priority", "queueAveragePacket", "queueMaximumThreshold",
               "queueMinimumThreshold", "queueMarkProbability", "queueLimit", "target"})
  @@ TextsOr([burst |-> "15k", queueType |-> "fq-codel"]) @@ Lists({"matchGroups"})

QosShaperDefaultClass ==
  Texts({"bandwidth", "ceiling", "setDscp"})
  @@ Numerals({"codelQuantum", "flows", "interval", "queueAveragePacket", "queueMaximumThreshold",
               "queueMinimumThreshold", "queueMarkProbability", "queueLimit", "target"})
  @@ TextsOr([burst |-> "15k", queueType |-> "fq-codel"]) @@ NumeralsOr([priority |-> "20"])

QosShaperPolicy ==
  Texts({"description"}) @@ TextsOr([bandwidth |-> "auto"])

QosHfscClass ==
  Texts({"description", "linkshareM1", "linkshareM2", "realtimeM1", "realtimeM2", "upperlimitM1", "upperlimitM2"})
  @@ Numerals({"linkshareD", "realtimeD", "upperlimitD"})
  @@ Lists({"matchGroups"})

QosShaperHfscPolicy ==
  Texts({"description"}) @@ TextsOr([bandwidth |-> "auto"])

QosSimpleClassfulClass ==
  Texts({"description"})
  @@ Numerals({"codelQuantum", "flows", "interval", "quantum", "queueLimit", "target"})
  @@ TextsOr([queueType |-> "drop-tail"])
  @@ Lists({"matchGroups"})

QosSimpleClassfulDefaultClass ==
  Numerals({"codelQuantum", "flows", "interval", "queueLimit", "target"})

QosCakePolicy ==
  Texts({"description", "bandwidth"}) @@ TextsOr([flowIsolation |-> "triple-isolate"]) @@ NumeralsOr([rtt |-> "100"])
  @@ Flags({"flowIsolationNat", "noSplitGso", "ackFilterAggressive"})

QosFqCodelPolicy ==
  Texts({"description"}) @@ Numerals({"codelQuantum", "flows", "interval", "queueLimit", "target"})

QosRateControlPolicy ==
  Texts({"description", "bandwidth"}) @@ TextsOr([burst |-> "15k"]) @@ NumeralsOr([latency |-> "50"])

parseQosMatch ==
  [description |-> <<"description">>, interface |-> <<"interface">>,
   ipSourceAddress |-> <<"ip", "source", "address">>, ipSourcePort |-> <<"ip", "source", "port">>,
   ipDestinationAddress |-> <<"ip", "destination", "address">>,
   ipDestinationPort |-> <<"ip", "destination", "port">>, ipProtocol |-> <<"ip", "protocol">>,
   ipDscp |-> <<"ip", "dscp">>, ipTcpAck |-> <<"ip", "tcp", "ack">>, ipTcpSyn |-> <<"ip", "tcp", "syn">>,
   ipv6SourceAddress |-> <<"ipv6", "source", "address">>, ipv6SourcePort |-> <<"ipv6", "source", "port">>,
   ipv6DestinationAddress |-> <<"ipv6", "destination", "address">>,
   ipv6DestinationPort |-> <<"ipv6", "destination", "port">>, ipv6Protocol |-> <<"ipv6", "protocol">>,
   ipv6Dscp |-> <<"ipv6", "dscp">>, ipv6TcpAck |-> <<"ipv6", "tcp", "ack">>,
   ipv6TcpSyn |-> <<"ipv6", "tcp", "syn">>, etherSource |-> <<"ether", "source">>,
   etherDestination |-> <<"ether", "destination">>, etherProtocol |-> <<"ether", "protocol">>]
  @@ [ipMaxLength |-> <<"ip", "max-length">>, ipv6MaxLength |-> <<"ipv6", "max-length">>, mark |-> <<"mark">>,
      vif |-> <<"vif">>]

parseInterfaceBindings ==
  [ingress |-> <<"ingress">>, egress |-> <<"egress">>]

parseLimiterClass ==
  [description |-> <<"description">>, bandwidth |-> <<"bandwidth">>, burst |-> <<"burst">>, mtu |-> <<"mtu">>,
   policeExceed |-> <<"exceed">>, policeNotExceed |-> <<"not-exceed">>, priority |-> <<"priority">>,
   matchGroups |-> <<"match-group">>]

parseLimiterDefaultClass ==
  [bandwidth |-> <<"bandwidth">>, burst |-> <<"burst">>, mtu |-> <<"mtu">>, policeExceed |-> <<"exceed">>,
   policeNotExceed |-> <<"not-exceed">>]

parseShaperClass ==
  [description |-> <<"description">>, bandwidth |-> <<"bandwidth">>, burst |-> <<"burst">>,
   ceiling |-> <<"ceiling">>, queueType |-> <<"queue-type">>, setDscp |-> <<"set-dscp">>]
  @@ [codelQuantum |-> <<"codel-quantum">>, flows |-> <<"flows">>, interval |-> <<"interval">>,
      priority |-> <<"priority">>, queueAveragePacket |-> <<"queue-average-packet">>,
      queueMaximumThreshold |-> <<"queue-maximum-threshold">>,
      queueMinimumThreshold |-> <<"queue-minimum-threshold">>,
      queueMarkProbability |-> <<"queue-mark-probability">>, queueLimit |-> <<"queue-limit">>,
      target |-> <<"target">>, matchGroups |-> <<"match-group">>]

parseShaperDefaultClass ==
  [bandwidth |-> <<"bandwidth">>, burst |-> <<"burst">>, ceiling |-> <<"ceiling">>,
   queueType |-> <<"queue-type">>, setDscp |-> <<"set-dscp">>]
  @@ [codelQuantum |-> <<"codel-quantum">>, flows |-> <<"flows">>, interval |-> <<"interval">>,
      priority |-> <<"priority">>, queueAveragePacket |-> <<"queue-average-packet">>,
      queueMaximumThreshold |-> <<"queue-maximum-threshold">>,
      queueMinimumThreshold |-> <<"queue-minimum-threshold">>,
      queueMarkProbability |-> <<"queue-mark-probability">>, queueLimit |-> <<"queue-limit">>,
      target |-> <<"target">>]

parseShaperPolicies ==
  [description |-> <<"description">>, bandwidth |-> <<"bandwidth">>]

parseHfscClass ==
  [description |-> <<"description">>, matchGroups |-> <<"match-group">>]
  @@ [linkshareD |-> <<"linkshare", "d">>, linkshareM1 |-> <<"linkshare", "m1">>, linkshareM2 |-> <<"linkshare", "m2">>,
     realtimeD |-> <<"realtime", "d">>, realtimeM1 |-> <<"realtime", "m1">>, realtimeM2 |-> <<"realtime", "m2">>,
     upperlimitD |-> <<"upperlimit", "d">>, upperlimitM1 |-> <<"upperlimit", "m1">>,
     upperlimitM2 |-> <<"upperlimit", "m2">>]

parseShaperHfscPolicies ==
  [description |-> <<"description">>, bandwidth |-> <<"bandwidth">>]

parseSimpleClassfulClass ==
  [description |-> <<"description">>, queueType |-> <<"queue-type">>]
  @@ [codelQuantum |-> <<"codel-quantum">>, flows |-> <<"flows">>, interval |-> <<"interval">>,
      quantum |-> <<"quantum">>, queueLimit |-> <<"queue-limit">>, target |-> <<"target">>,
      matchGroups |-> <<"match-group">>]

parseSimpleClassfulDefaultClass ==
  [queueType |-> <<"queue-type">>, codelQuantum |-> <<"codel-quantum">>, flows |-> <<"flows">>,
   interval |-> <<"interval">>, queueLimit |-> <<"queue-limit">>, target |-> <<"target">>]

parseCakePolicies ==
  [description |-> <<"description">>, bandwidth |-> <<"bandwidth">>, flowIsolation |-> <<"flow-isolation">>,
   flowIsolationNat |-> <<"flow-isolation-nat">>, noSplitGso |-> <<"no-split-gso">>,
   ackFilterAggressive |-> <<"ack-filter", "aggressive">>]
  @@ [rtt |-> <<"rtt">>]

parseFqCodelPolicies ==
  [description |-> <<"description">>, codelQuantum |-> <<"codel-quantum">>, flows |-> <<"flows">>,
   interval |-> <<"interval">>, queueLimit |-> <<"queue-limit">>, target |-> <<"target">>]

parseRateControlPolicies ==
  [description |-> <<"description">>, bandwidth |-> <<"bandwidth">>, burst |-> <<"burst">>]
  @@ [latency |-> <<"latency">>]

limiterClassFormToOps ==
  ScalarFields([description |-> <<"description">>, bandwidth |-> <<"bandwidth">>, burst |-> <<"burst">>,
                mtu |-> <<"mtu">>, policeExceed |-> <<"exceed">>, policeNotExceed |-> <<"not-exceed">>,
                priority |-> <<"priority">>])

limiterDefaultClassFormToOps ==
  ScalarFields([bandwidth |-> <<"bandwidth">>, burst |-> <<"burst">>, mtu |-> <<"mtu">>,
                policeExceed |-> <<"exceed">>, policeNotExceed |-> <<"not-exceed">>])

addQosMatchOps ==
  RawFields([ipSourceAddress |-> <<"ip", "source", "address">>, ipSourcePort |-> <<"ip", "source", "port">>,
             ipDestinationAddress |-> <<"ip", "destination", "address">>,
             ipDestinationPort |-> <<"ip", "destination", "port">>, ipProtocol |-> <<"ip", "protocol">>,
             ipDscp |-> <<"ip", "dscp">>, ipv6SourceAddress |-> <<"ipv6", "source", "address">>,
             ipv6SourcePort |-> <<"ipv6", "source", "port">>,
             ipv6DestinationAddress |-> <<"ipv6", "destination", "address">>,
             ipv6DestinationPort |-> <<"ipv6", "destination", "port">>,
             ipv6Protocol |-> <<"ipv6", "protocol">>, ipv6Dscp |-> <<"ipv6", "dscp">>,
             interfaceName |-> <<"interface">>, mark |-> <<"mark">>, vif |-> <<"vif">>])

shaperPolicyFormToOps ==
  ScalarFields([description |-> <<"description">>]) @@ ScalarFieldsOr([bandwidth |-> <<"bandwidth">>], "auto")

shaperClassFormToOps ==
  ScalarFields([description |-> <<"description">>, bandwidth |-> <<"bandwidth">>, burst |-> <<"burst">>,
                ceiling |-> <<"ceiling">>, queueType |-> <<"queue-type">>, queueLimit |-> <<"queue-limit">>,
                setDscp |-> <<"set-dscp">>, priority |-> <<"priority">>])

shaperDefaultClassFormToOps ==
  ScalarFields([bandwidth |-> <<"bandwidth">>, burst |-> <<"burst">>, ceiling |-> <<"ceiling">>,
                queueType |-> <<"queue-type">>, queueLimit |-> <<"queue-limit">>, setDscp |-> <<"set-dscp">>,
                priority |-> <<"priority">>])

shaperHfscPolicyFormToOps ==
  ScalarFields([description |-> <<"description">>]) @@ ScalarFieldsOr([bandwidth |-> <<"bandwidth">>], "auto")

hfscClassFormToOps ==
  ScalarFields([description |-> <<"description">>])
  @@ ScalarFields([linkshareD |-> <<"linkshare", "d">>, linkshareM1 |-> <<"linkshare", "m1">>, linkshareM2 |-> <<"linkshare", "m2">>,
                   realtimeD |-> <<"realtime", "d">>, realtimeM1 |-> <<"realtime", "m1">>, realtimeM2 |-> <<"realtime", "m2">>,
                   upperlimitD |-> <<"upperlimit", "d">>, upperlimitM1 |-> <<"upperlimit", "m1">>,
                   upperlimitM2 |-> <<"upperlimit", "m2">>])

hfscDefaultClassFormToOps ==
  [f \in DOMAIN hfscClassFormToOps \ {"description"} |-> hfscClassFormToOps[f]]

simpleClassfulClassFormToOps ==
  ScalarFields([description |-> <<"description">>, codelQuantum |-> <<"codel-quantum">>, flows |-> <<"flows">>,
                interval |-> <<"interval">>, quantum |-> <<"quantum">>, queueLimit |-> <<"queue-limit">>,
                queueType |-> <<"queue-type">>, target |-> <<"target">>])

simpleClassfulDefaultClassFormToOps ==
  ScalarFields([codelQuantum |-> <<"codel-quantum">>, flows |-> <<"flows">>, interval |-> <<"interval">>,
                queueLimit |-> <<"queue-limit">>, queueType |-> <<"queue-type">>, target |-> <<"target">>])

cakeFormToOps ==
  ScalarFields([description |-> <<"description">>, bandwidth |-> <<"bandwidth">>,
                flowIsolation |-> <<"flow-isolation">>, rtt |-> <<"rtt">>])
  @@ FlagFields([flowIsolationNat |-> <<"flow-isolation-nat">>, noSplitGso |-> <<"no-split-gso">>,
                 ackFilterAggressive |-> <<"ack-filter", "aggressive">>])

fqCodelFormToOps ==
  ScalarFields([description |-> <<"description">>, codelQuantum |-> <<"codel-quantum">>, flows |-> <<"flows">>,
                interval |-> <<"interval">>, queueLimit |-> <<"queue-limit">>, target |-> <<"target">>])

rateControlFormToOps ==
  ScalarFields([description |-> <<"description">>, bandwidth |-> <<"bandwidth">>, burst |-> <<"burst">>,
                latency |-> <<"latency">>])

-----------------------------------------------------------------------------
(* The components. *)

qosPolicyPath(type) == <<"qos", "policy", type, "k">>

qosClassPath(type) == qosPolicyPath(type) \o <<"class", "sub">>

Named(at, starts) == Starting(Adds(Form(at, NoFields, NoFields, NoFields)), starts)

QosMatchList(basePath) ==
  Showing(Adds(Form(basePath \o <<"match", "m">>, QosMatch, parseQosMatch, addQosMatchOps)),
          [interfaceName |-> "interface"])

QosMatchGroupsList ==
  LET at == <<"qos", "traffic-match-group", "k">>  first == at \o <<"match", "m", "ip", "destination">> IN
  Named(at, <<SetOp(first \o <<"address">>, New), SetOp(first \o <<"port">>, New)>>)

QosInterfaceBindingsList == Edits(Form(<<"qos", "interface", "k">>, NoFields, NoFields, NoFields))

setQosInterfaceDirectionOp == ScalarFields([ingress |-> <<"ingress">>, egress |-> <<"egress">>])

BindingRow ==
  Unmarked(Items(Form(QosInterfaceBindingsList.at, Texts({"ingress", "egress"}), parseInterfaceBindings,
                      setQosInterfaceDirectionOp)))

LimiterPolicyList ==
  LET class == qosClassPath("limiter") IN
  Named(qosPolicyPath("limiter"),
        <<SetNode(class), SetOp(class \o <<"bandwidth">>, New),
          SetOp(qosPolicyPath("limiter") \o <<"default", "bandwidth">>, New)>>)

LimiterClassList == Named(qosClassPath("limiter"), <<>>)

LimiterClassFields ==
  Panels(WithChips(Form(qosClassPath("limiter"), QosLimiterClass, parseLimiterClass, limiterClassFormToOps),
                   [matchGroups |-> <<"match-group">>]))

LimiterDefaultClassPanel ==
  Remembering(Form(qosPolicyPath("limiter") \o <<"default">>, QosLimiterDefaultClass, parseLimiterDefaultClass,
                   limiterDefaultClassFormToOps))

ShaperPolicyList ==
  LET at == qosPolicyPath("shaper")  class == qosClassPath("shaper") IN
  Named(at, <<SetNode(class), SetOp(class \o <<"bandwidth">>, New), SetOp(class \o <<"ceiling">>, New),
              SetOp(at \o <<"default", "bandwidth">>, New), SetOp(at \o <<"default", "ceiling">>, New)>>)

ShaperPolicyFields ==
  Panels(Form(qosPolicyPath("shaper"), QosShaperPolicy, parseShaperPolicies, shaperPolicyFormToOps))

ShaperClassList == Named(qosClassPath("shaper"), <<>>)

ShaperClassFields ==
  Panels(WithChips(Form(qosClassPath("shaper"), QosShaperClass, parseShaperClass, shaperClassFormToOps),
                   [matchGroups |-> <<"match-group">>]))

ShaperDefaultClassPanel ==
  Remembering(Form(qosPolicyPath("shaper") \o <<"default">>, QosShaperDefaultClass, parseShaperDefaultClass,
                   shaperDefaultClassFormToOps))

ShaperHfscPolicyList ==
  LET at == qosPolicyPath("shaper-hfsc")  class == qosClassPath("shaper-hfsc") IN
  Named(at, <<SetNode(class), SetOp(class \o <<"linkshare", "m2">>, New),
              SetOp(at \o <<"default", "linkshare", "m2">>, New)>>)

HfscPolicyFields ==
  Panels(Form(qosPolicyPath("shaper-hfsc"), QosShaperHfscPolicy, parseShaperHfscPolicies, shaperHfscPolicyFormToOps))

HfscClassList == Named(qosClassPath("shaper-hfsc"), <<>>)

HfscClassFields ==
  Panels(WithChips(Form(qosClassPath("shaper-hfsc"), QosHfscClass, parseHfscClass, hfscClassFormToOps),
                   [matchGroups |-> <<"match-group">>]))

HfscDefaultClassPanel ==
  LET curves == DOMAIN hfscDefaultClassFormToOps IN
  Remembering(Form(qosPolicyPath("shaper-hfsc") \o <<"default">>, [f \in curves |-> QosHfscClass[f]],
                   [f \in curves |-> parseHfscClass[f]], hfscDefaultClassFormToOps))

SimpleClassfulPolicyList(policyType) == Named(qosPolicyPath(policyType), <<SetNode(qosClassPath(policyType))>>)

ClassList(policyType) == Named(qosClassPath(policyType), <<>>)

ClassFields(policyType) ==
  LET ops == [f \in DOMAIN simpleClassfulClassFormToOps \ (IF policyType = "round-robin" THEN {} ELSE {"quantum"}) |->
                simpleClassfulClassFormToOps[f]]
  IN Panels(WithChips(Form(qosClassPath(policyType), QosSimpleClassfulClass, parseSimpleClassfulClass, ops),
                      [matchGroups |-> <<"match-group">>]))

DefaultClassPanel(policyType) ==
  LET queueType == TextsOr([queueType |-> IF policyType = "round-robin" THEN "fair-queue" ELSE "drop-tail"]) IN
  Remembering(Form(qosPolicyPath(policyType) \o <<"default">>, QosSimpleClassfulDefaultClass @@ queueType,
                   parseSimpleClassfulDefaultClass, simpleClassfulDefaultClassFormToOps))

CakePolicyList == Named(qosPolicyPath("cake"), <<>>)

CakeFields == Panels(Form(qosPolicyPath("cake"), QosCakePolicy, parseCakePolicies, cakeFormToOps))

FqCodelPolicyList == Named(qosPolicyPath("fq-codel"), <<>>)

FqCodelFields == Panels(Form(qosPolicyPath("fq-codel"), QosFqCodelPolicy, parseFqCodelPolicies, fqCodelFormToOps))

RateControlPolicyList == Named(qosPolicyPath("rate-control"), <<>>)

RateControlFields ==
  Panels(Form(qosPolicyPath("rate-control"), QosRateControlPolicy, parseRateControlPolicies, rateControlFormToOps))

QosPages ==
  <<QosMatchGroupsList, QosInterfaceBindingsList, BindingRow, LimiterPolicyList, LimiterClassList,
    LimiterClassFields, LimiterDefaultClassPanel, ShaperPolicyList, ShaperPolicyFields, ShaperClassList,
    ShaperClassFields, ShaperDefaultClassPanel, ShaperHfscPolicyList, HfscPolicyFields, HfscClassList,
    HfscClassFields, HfscDefaultClassPanel, CakePolicyList, CakeFields, FqCodelPolicyList, FqCodelFields,
    RateControlPolicyList, RateControlFields, QosMatchList(qosClassPath("limiter")),
    SimpleClassfulPolicyList("priority-queue"), ClassList("round-robin"), ClassFields("priority-queue"),
    ClassFields("round-robin"), DefaultClassPanel("round-robin")>>
================================================================================
