------------------------------- MODULE Config -------------------------------
(***************************************************************************)
(* From sinks to pipelines (rust/src/config.rs, exporters.rs): the program *)
(* constructs sinks and a Config, which validate their arguments; init     *)
(* resolves the Config, parsing the arguments once more; install then      *)
(* builds an exporter and a provider for every sink.                       *)
(*                                                                         *)
(* Runtime starts where this ends: a resolved Config is there what it has  *)
(* of each kind.                                                           *)
(***************************************************************************)
EXTENDS Integers, Sequences, Functions

CONSTANT MaxSinks   \* bound: sinks that the program makes

ASSUME ConfigAssumption == MaxSinks \in Nat

VARIABLES made,       \* the list of sinks, as the program passes it
          config,     \* the Config: its sinks of each kind
          format,     \* and its console_format
          stage,      \* how far init has come
          queue,      \* resolved sinks that install has still to build
          pipelines   \* the providers built, oldest first

vars == <<made, config, format, stage, queue, pipelines>>

----------------------------------------------------------------------------
(* Arguments of the constructors. *)

Kind == {"traces", "metrics", "otlp", "sls"}

\* Empty; a string that is no URL with a host; and such a URL.
Endpoint == {"", "hostless", "url"}

\* The last of each is a value that the parser does not know.
ProtocolArg    == {"none", "grpc", "http", "thrift"}
SamplerArg     == {"none", "always_on", "custom"}
TemporalityArg == {"none", "delta", "foo"}
FormatArg      == {"compact", "json", "xml"}
NameArg        == {"", "service"}

\* The numeric knobs, those that travel together as one, and the compression.
Knobs == [traces  |-> {"timeout", "compression", "batch", "export_timeout", "limits"},
          metrics |-> {"timeout", "compression", "interval", "export_timeout"},
          otlp    |-> {"timeout", "compression", "batch", "export_timeout"},
          sls     |-> {}]

\* Bound: a sink is given one knob at most; each has its own `if let`.
Given(kind) == {{}} \cup {{k} : k \in Knobs[kind]}

Required == {"project", "logstore", "ak_id", "ak_secret"}

TraceArgs  == [kind : {"traces"}, endpoint : Endpoint, protocol : ProtocolArg,
               sampler : SamplerArg, knobs : Given("traces")]
MetricArgs == [kind : {"metrics"}, endpoint : Endpoint, protocol : ProtocolArg,
               temporality : TemporalityArg, knobs : Given("metrics")]
OtlpArgs   == [kind : {"otlp"}, endpoint : Endpoint, protocol : ProtocolArg,
               knobs : Given("otlp")]
SlsArgs    == [kind : {"sls"}, endpoint : Endpoint, filled : SUBSET Required,
               knobs : {{}}]

Args == TraceArgs \cup MetricArgs \cup OtlpArgs \cup SlsArgs

----------------------------------------------------------------------------
(* Parsing. *)

Protocols     == {"grpc", "http"}
Samplers      == {"always_on", "always_off", "parent_based_traceid_ratio"}
Temporalities == {"cumulative", "delta", "lowmemory"}
Formats       == {"compact", "pretty", "json"}

\* An optional argument parses when it is left out or known.
Parses(arg, known) == arg = "none" \/ arg \in known

\* Mutated form: the sampler is not looked at before resolve.
AcceptsSampler(a) == a.endpoint # "" /\ Parses(a.protocol, Protocols)

AcceptsTrace(a) ==
    /\ a.endpoint # ""
    /\ Parses(a.protocol, Protocols)
    /\ Parses(a.sampler, Samplers)

AcceptsMetric(a) ==
    /\ a.endpoint # ""
    /\ Parses(a.protocol, Protocols)
    /\ Parses(a.temporality, Temporalities)

AcceptsOtlp(a) == a.endpoint # "" /\ Parses(a.protocol, Protocols)

\* Mutated form: an empty endpoint goes through.
AcceptsNoEndpoint(a) == a.filled = Required

AcceptsSls(a) == a.endpoint # "" /\ a.filled = Required

Accepted == {a \in TraceArgs : AcceptsTrace(a)} \cup {a \in MetricArgs : AcceptsMetric(a)}
            \cup {a \in OtlpArgs : AcceptsOtlp(a)} \cup {a \in SlsArgs : AcceptsSls(a)}

\* Anything else a program may put into the list.
Foreign == [kind |-> "other"]

----------------------------------------------------------------------------
(* Resolving: defaults, and the strings parsed into the enums. *)

Or(arg, default) == IF arg = "none" THEN default ELSE arg

Resolvable(s) ==
    /\ s.kind # "sls" => Or(s.protocol, "grpc") \in Protocols
    /\ s.kind = "traces" => Or(s.sampler, "parent_based_traceid_ratio") \in Samplers
    /\ s.kind = "metrics" => Parses(s.temporality, Temporalities)

\* What the exporter and the provider are configured from; SLS has no exporter of
\* this kind. Temporality and sampler are the signal's own option, or none.
Resolved(s) ==
    [kind     |-> s.kind,
     endpoint |-> s.endpoint,
     protocol |-> IF s.kind = "sls" THEN "none" ELSE Or(s.protocol, "grpc"),
     option   |-> CASE s.kind = "traces"  -> Or(s.sampler, "parent_based_traceid_ratio")
                    [] s.kind = "metrics" -> s.temporality
                    [] OTHER -> "none",
     knobs    |-> s.knobs]

ResolvedSeq(sinks) == [i \in DOMAIN sinks |-> Resolved(sinks[i])]

SinksOf(c) == c.traces \o c.metrics \o c.otlp \o c.sls

----------------------------------------------------------------------------
Empty == [kind \in Kind |-> <<>>]

Init ==
    /\ made = <<>>
    /\ config = Empty
    /\ format = "compact"
    /\ stage = "making"
    /\ queue = <<>>
    /\ pipelines = <<>>

\* A constructor that accepts its arguments. One that raises changes nothing.
NewSink ==
    /\ stage = "making" /\ Len(made) < MaxSinks
    /\ \E s \in Accepted \cup {Foreign} : made' = Append(made, s)
    /\ UNCHANGED <<config, format, stage, queue, pipelines>>

AcceptsConfig(name, fmt) == name # "" /\ fmt \in Formats

\* Config(name, .., console_format = fmt, sinks = made): both are looked at before the
\* sinks.
NewConfig ==
    /\ stage = "making"
    /\ \E name \in NameArg, fmt \in FormatArg :
          IF AcceptsConfig(name, fmt)
          THEN stage' = "sorting" /\ queue' = made /\ format' = fmt
          ELSE stage' = "rejected" /\ UNCHANGED <<queue, format>>
    /\ UNCHANGED <<made, config, pipelines>>

\* Mutated form: a sink is put in front of those of its kind.
InFront(sinks, s) == <<s>> \o sinks

PutInto(sinks, s) == Append(sinks, s)

\* The next object of the list: into the list of its kind, or the constructor fails.
SortSink ==
    /\ stage = "sorting" /\ queue # <<>>
    /\ LET s == Head(queue)
       IN  IF s.kind \in Kind
           THEN /\ config' = [config EXCEPT ![s.kind] = PutInto(@, s)]
                /\ queue' = Tail(queue)
                /\ UNCHANGED stage
           ELSE /\ stage' = "rejected"
                /\ queue' = <<>>
                /\ UNCHANGED config
    /\ UNCHANGED <<made, format, pipelines>>

\* PyConfig::resolve, called by init.
Resolve ==
    /\ stage = "sorting" /\ queue = <<>>
    /\ IF /\ format \in Formats
          /\ \A kind \in Kind : \A i \in DOMAIN config[kind] : Resolvable(config[kind][i])
       THEN /\ stage' = "building"
            /\ queue' = ResolvedSeq(SinksOf(config))
       ELSE /\ stage' = "unresolved"
            /\ UNCHANGED queue
    /\ UNCHANGED <<made, config, format, pipelines>>

\* What the gRPC exporters need for TLS; HTTP takes the endpoint as it is.
HasHost(r) == r.protocol = "grpc" => r.endpoint = "url"

\* The setters that are called. The log processor is built without a batch config.
Applied(r) ==
    IF r.kind = "otlp" THEN r.knobs \cap {"timeout", "compression"} ELSE r.knobs

\* The exporter and the provider of the next sink; of an SLS sink, client and writer.
Build ==
    /\ stage = "building" /\ queue # <<>>
    /\ HasHost(Head(queue))
    /\ pipelines' = Append(pipelines, [Head(queue) EXCEPT !.knobs = Applied(Head(queue))])
    /\ queue' = Tail(queue)
    /\ UNCHANGED <<made, config, format, stage>>

\* The endpoint has no host, or the library refuses something else.
BuildFails ==
    /\ stage = "building" /\ queue # <<>>
    /\ stage' = "failed"
    /\ UNCHANGED <<made, config, format, queue, pipelines>>

Installed ==
    /\ stage = "building" /\ queue = <<>>
    /\ stage' = "installed"
    /\ UNCHANGED <<made, config, format, queue, pipelines>>

Next == NewSink \/ NewConfig \/ SortSink \/ Resolve \/ Build \/ BuildFails \/ Installed

Spec == Init /\ [][Next]_vars

----------------------------------------------------------------------------
(* Properties. *)

\* Every sink in a Config is of the list it is in, and has an endpoint and, for SLS,
\* everything that a client needs: the builders do not look at that again.
TypeOK ==
    /\ made \in Seq(Args \cup {Foreign})
    /\ stage \in {"making", "sorting", "rejected", "building", "unresolved", "failed",
                  "installed"}
    /\ config \in [Kind -> Seq(Args)]
    /\ \A kind \in Kind : \A i \in DOMAIN config[kind] :
          LET s == config[kind][i]
          IN  s.kind = kind /\ s.endpoint # "" /\ (kind = "sls" => s.filled = Required)

\* The arguments are parsed twice, in the constructors and in resolve: what resolve
\* would refuse, a constructor has refused. (An init may still fail later, in building:
\* no constructor looks for an endpoint's host, or at the headers.)
BuiltConfigResolves == stage # "unresolved"

\* The protocol, the option and the knobs that the user asked for, or the defaults.
AsAsked(p, s) ==
    /\ p.kind = s.kind
    /\ p.endpoint = s.endpoint
    /\ s.kind # "sls" => p.protocol = Or(s.protocol, "grpc")
    /\ s.kind = "traces" => p.option = Or(s.sampler, "parent_based_traceid_ratio")
    /\ s.kind = "metrics" => p.option = s.temporality
    /\ s.knobs \cap {"timeout", "compression"} \subseteq p.knobs
    /\ s.kind # "otlp" => p.knobs = s.knobs

\* An init that succeeds has one pipeline for every sink of the list, per kind in the
\* order of the list (the first one is the global provider), set up as asked.
InstalledAsListed ==
    stage = "installed" =>
        \E f \in Bijection(DOMAIN pipelines, DOMAIN made) :
            /\ \A i \in DOMAIN pipelines : AsAsked(pipelines[i], made[f[i]])
            /\ \A i, j \in DOMAIN pipelines :
                  i < j /\ pipelines[i].kind = pipelines[j].kind => f[i] < f[j]

\* config.rs, on the sinks' knobs: "when the runtime builds the underlying OTel SDK it
\* only calls the corresponding with_* setter when the user supplied a value".
EveryKnobReaches ==
    stage = "installed" =>
        \A i \in DOMAIN made : \A k \in made[i].knobs :
            \E j \in DOMAIN pipelines : pipelines[j].kind = made[i].kind /\ k \in pipelines[j].knobs
============================================================================
