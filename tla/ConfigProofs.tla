---------------------------- MODULE ConfigProofs ----------------------------
(***************************************************************************)
(* Proofs about Config, for lists of any length: the constructors check    *)
(* all that resolve checks, and an init that succeeds installs exactly the *)
(* listed sinks, set up as asked.                                          *)
(***************************************************************************)
EXTENDS Config, SequenceTheorems, TLAPS

\* Whatever is in a Config went through the constructor of its kind.
SortedInv ==
    /\ made \in Seq(Accepted \cup {Foreign})
    /\ stage \in {"making", "sorting", "rejected", "building", "unresolved", "failed",
                  "installed"}
    /\ stage = "sorting" => queue \in Seq(Accepted \cup {Foreign})
    /\ config \in [Kind -> Seq(Accepted)]
    /\ format \in Formats
    /\ \A kind \in Kind : \A i \in DOMAIN config[kind] : config[kind][i].kind = kind

\* The kinds of sink do not overlap.
LEMMA ArgKinds ==
    ASSUME NEW s \in Accepted \cup {Foreign}
    PROVE  /\ s \in TraceArgs => s.kind = "traces"
           /\ s \in MetricArgs => s.kind = "metrics"
           /\ s \in OtlpArgs => s.kind = "otlp"
           /\ s \in SlsArgs => s.kind = "sls"
           /\ s.kind \in Kind => s \in Accepted
           /\ s.kind # "other" => s \in Args
  BY DEF Accepted, Foreign, Args, TraceArgs, MetricArgs, OtlpArgs, SlsArgs, Kind

\* What the constructors accept parses, and is complete.
LEMMA AcceptedResolves ==
    ASSUME NEW s \in Accepted
    PROVE  /\ Resolvable(s)
           /\ s \in Args
           /\ s.endpoint # ""
           /\ s.kind = "sls" => s.filled = Required
  <1>1. CASE s \in TraceArgs /\ AcceptsTrace(s)
    BY <1>1 DEF AcceptsTrace, TraceArgs, Args, Resolvable, Or, Parses, Protocols, Samplers
  <1>2. CASE s \in MetricArgs /\ AcceptsMetric(s)
    BY <1>2 DEF AcceptsMetric, MetricArgs, Args, Resolvable, Or, Parses, Protocols
  <1>3. CASE s \in OtlpArgs /\ AcceptsOtlp(s)
    BY <1>3 DEF AcceptsOtlp, OtlpArgs, Args, Resolvable, Or, Parses, Protocols
  <1>4. CASE s \in SlsArgs /\ AcceptsSls(s)
    BY <1>4 DEF AcceptsSls, SlsArgs, Args, Resolvable
  <1> QED BY <1>1, <1>2, <1>3, <1>4 DEF Accepted

LEMMA SortedStep == SortedInv /\ [Next]_vars => SortedInv'
  <1> SUFFICES ASSUME SortedInv, [Next]_vars PROVE SortedInv'
    OBVIOUS
  <1> DEFINE Listed == Accepted \cup {Foreign}
  <1>1. CASE NewSink
    <2>1. PICK s \in Listed : made' = Append(made, s)
      BY <1>1 DEF NewSink
    <2>2. made' \in Seq(Listed)
      BY <2>1, AppendProperties DEF SortedInv
    <2> QED BY <1>1, <2>2 DEF NewSink, SortedInv
  <1>2. CASE NewConfig
    BY <1>2 DEF NewConfig, AcceptsConfig, SortedInv
  <1>3. CASE SortSink
    <2>1. queue \in Seq(Listed) /\ queue # <<>>
      BY <1>3 DEF SortSink, SortedInv
    <2>2. Head(queue) \in Listed /\ Tail(queue) \in Seq(Listed)
      BY <2>1, HeadTailProperties
    <2>3. CASE Head(queue).kind \in Kind
      <3> DEFINE s == Head(queue)
      <3>1. s \in Accepted
        BY <2>2, <2>3, ArgKinds
      <3>2. /\ config' = [config EXCEPT ![s.kind] = Append(config[s.kind], s)]
            /\ queue' = Tail(queue)
            /\ UNCHANGED <<stage, made, format>>
        BY <1>3, <2>3 DEF SortSink, PutInto
      <3>3. config[s.kind] \in Seq(Accepted)
        BY <2>3 DEF SortedInv
      <3>4. /\ Append(config[s.kind], s) \in Seq(Accepted)
            /\ \A i \in DOMAIN Append(config[s.kind], s) :
                  Append(config[s.kind], s)[i].kind = s.kind
        <4>1. \A i \in DOMAIN config[s.kind] : config[s.kind][i].kind = s.kind
          BY <2>3 DEF SortedInv
        <4> QED BY <3>1, <3>3, <4>1, AppendProperties
      <3>5. config' \in [Kind -> Seq(Accepted)]
        BY <2>3, <3>2, <3>4 DEF SortedInv
      <3>6. \A kind \in Kind : \A i \in DOMAIN config'[kind] : config'[kind][i].kind = kind
        BY <2>3, <3>2, <3>4 DEF SortedInv
      <3> QED BY <2>2, <3>2, <3>5, <3>6 DEF SortedInv
    <2>4. CASE Head(queue).kind \notin Kind
      BY <1>3, <2>4 DEF SortSink, SortedInv
    <2> QED BY <2>3, <2>4
  <1>4. CASE Resolve
    BY <1>4 DEF Resolve, SortedInv
  <1>5. CASE Build
    BY <1>5 DEF Build, SortedInv
  <1>6. CASE BuildFails
    BY <1>6 DEF BuildFails, SortedInv
  <1>7. CASE Installed
    BY <1>7 DEF Installed, SortedInv
  <1>8. CASE UNCHANGED vars
    BY <1>8 DEF vars, SortedInv
  <1> QED BY <1>1, <1>2, <1>3, <1>4, <1>5, <1>6, <1>7, <1>8 DEF Next

LEMMA SortedInvariant == Spec => []SortedInv
  <1>1. Init => SortedInv
    BY DEF Init, SortedInv, Empty, Formats
  <1> QED BY <1>1, SortedStep, PTL DEF Spec

\* Types, and every sink in the list of its kind with all that its client needs.
THEOREM TypeCorrect == Spec => []TypeOK
  <1>1. SortedInv => TypeOK
    <2> SUFFICES ASSUME SortedInv PROVE TypeOK
      OBVIOUS
    <2>1. Accepted \subseteq Args
      BY AcceptedResolves
    <2>2. made \in Seq(Args \cup {Foreign})
      BY <2>1 DEF SortedInv
    <2>3. config \in [Kind -> Seq(Args)]
      <3>1. \A kind \in Kind : config[kind] \in Seq(Args)
        BY <2>1 DEF SortedInv
      <3> QED BY <3>1 DEF SortedInv
    <2>4. ASSUME NEW kind \in Kind, NEW i \in DOMAIN config[kind]
          PROVE  /\ config[kind][i].kind = kind
                 /\ config[kind][i].endpoint # ""
                 /\ kind = "sls" => config[kind][i].filled = Required
      <3>1. config[kind][i] \in Accepted /\ config[kind][i].kind = kind
        BY DEF SortedInv
      <3> QED BY <3>1, AcceptedResolves
    <2> QED BY <2>2, <2>3, <2>4 DEF TypeOK, SortedInv
  <1> QED BY <1>1, SortedInvariant, PTL

\* Whatever PyConfig::resolve checks, the constructors have checked: it refuses no Config
\* that could be built, however many sinks it has. What init may still fail at is the
\* building of an exporter, whose endpoint and headers no constructor looks into.
THEOREM BuiltResolves == Spec => []BuiltConfigResolves
  <1>1. Init => BuiltConfigResolves
    BY DEF Init, BuiltConfigResolves
  <1>2. SortedInv /\ BuiltConfigResolves /\ [Next]_vars => BuiltConfigResolves'
    <2> SUFFICES ASSUME SortedInv, BuiltConfigResolves, [Next]_vars
                 PROVE  BuiltConfigResolves'
      OBVIOUS
    <2>1. CASE Resolve
      <3>1. ASSUME NEW kind \in Kind, NEW i \in DOMAIN config[kind]
            PROVE  Resolvable(config[kind][i])
        <4>1. config[kind][i] \in Accepted
          BY DEF SortedInv
        <4> QED BY <4>1, AcceptedResolves
      <3>2. format \in Formats
        BY DEF SortedInv
      <3> QED BY <2>1, <3>1, <3>2 DEF Resolve, BuiltConfigResolves
    <2>2. CASE ~Resolve
      BY <2>2 DEF Next, vars, NewSink, NewConfig, SortSink, Build, BuildFails, Installed,
                  BuiltConfigResolves
    <2> QED BY <2>1, <2>2
  <1> QED BY <1>1, <1>2, SortedInvariant, PTL DEF Spec

----------------------------------------------------------------------------
(* An init that succeeds has installed the list it was given.                *)

\* f finds where in list each of seq is from. seq holds those of the first n of list
\* that are of these kinds, each once, and of one kind in the order of the list.
Arranges(f, list, seq, kinds, n) ==
    /\ \A i \in 1..Len(seq) : seq[i] = list[f[i]] /\ seq[i].kind \in kinds
    /\ \A i, j \in 1..Len(seq) : i < j /\ seq[i].kind = seq[j].kind => f[i] < f[j]
    /\ \A m \in 1..n : list[m].kind \in kinds => \E i \in 1..Len(seq) : f[i] = m

Arranged(list, seq, kinds, n) ==
    \E f \in [1..Len(seq) -> 1..n] : Arranges(f, list, seq, kinds, n)

\* The pipeline of a sink.
Piped(s) == [Resolved(s) EXCEPT !.knobs = Applied(Resolved(s))]

ResolvedSinks == {Resolved(s) : s \in Accepted}
Pipelines     == {Piped(s) : s \in Accepted}

\* The first n sinks of the list have been sorted, the rest are in the queue.
Sorted(n) ==
    /\ n + Len(queue) = Len(made)
    /\ \A i \in 1..Len(queue) : queue[i] = made[n + i]
    /\ \A m \in 1..n : made[m].kind \in Kind
    /\ \A kind \in Kind : Arranged(made, config[kind], {kind}, n)

SortingInv == \E n \in Nat : Sorted(n)

\* The first sinks of the Config have a pipeline, the rest are in the queue.
BuildingInv ==
    /\ queue \in Seq(ResolvedSinks)
    /\ \A m \in 1..Len(made) : made[m].kind \in Kind
    /\ Arranged(made, SinksOf(config), Kind, Len(made))
    /\ Len(pipelines) + Len(queue) = Len(SinksOf(config))
    /\ \A i \in 1..Len(pipelines) : pipelines[i] = Piped(SinksOf(config)[i])
    /\ \A i \in 1..Len(queue) : queue[i] = Resolved(SinksOf(config)[Len(pipelines) + i])

ListedInv ==
    /\ pipelines \in Seq(Pipelines)
    /\ stage \in {"making", "sorting"} => pipelines = <<>>
    /\ stage = "making" => config = Empty
    /\ stage = "sorting" => SortingInv
    /\ stage \in {"building", "installed"} => BuildingInv
    /\ stage = "installed" => queue = <<>>

\* A sink's pipeline is what was asked for.
LEMMA PipedAsAsked ==
    ASSUME NEW s \in Accepted
    PROVE  AsAsked(Piped(s), s)
  <1>1. s \in Args
    BY AcceptedResolves
  <1>2. /\ Resolved(s).kind = s.kind
        /\ Resolved(s).endpoint = s.endpoint
        /\ s.kind # "sls" => Resolved(s).protocol = Or(s.protocol, "grpc")
        /\ s.kind = "traces" => Resolved(s).option = Or(s.sampler, "parent_based_traceid_ratio")
        /\ s.kind = "metrics" => Resolved(s).option = s.temporality
        /\ Resolved(s).knobs = s.knobs
    BY DEF Resolved
  <1>3. /\ Piped(s).kind = s.kind
        /\ Piped(s).endpoint = s.endpoint
        /\ Piped(s).protocol = Resolved(s).protocol
        /\ Piped(s).option = Resolved(s).option
        /\ Piped(s).knobs = Applied(Resolved(s))
    BY <1>2 DEF Piped, Resolved
  <1>4. /\ s.knobs \cap {"timeout", "compression"} \subseteq Applied(Resolved(s))
        /\ s.kind # "otlp" => Applied(Resolved(s)) = s.knobs
    BY <1>2 DEF Applied
  <1> QED BY <1>2, <1>3, <1>4 DEF AsAsked

\* Two arrangements of different kinds, one after the other.
LEMMA Merge ==
    ASSUME NEW list, NEW n \in Nat, NEW K1, NEW K2, K1 \cap K2 = {},
           NEW s \in Seq(Accepted), NEW t \in Seq(Accepted),
           Arranged(list, s, K1, n), Arranged(list, t, K2, n)
    PROVE  /\ s \o t \in Seq(Accepted)
           /\ Arranged(list, s \o t, K1 \cup K2, n)
  <1> DEFINE u == s \o t
             a == Len(s)
             b == Len(t)
  <1>1. PICK f \in [1..a -> 1..n] :
            /\ \A i \in 1..a : s[i] = list[f[i]] /\ s[i].kind \in K1
            /\ \A i, j \in 1..a : i < j /\ s[i].kind = s[j].kind => f[i] < f[j]
            /\ \A m \in 1..n : list[m].kind \in K1 => \E i \in 1..a : f[i] = m
    BY DEF Arranged, Arranges
  <1>2. PICK g \in [1..b -> 1..n] :
            /\ \A i \in 1..b : t[i] = list[g[i]] /\ t[i].kind \in K2
            /\ \A i, j \in 1..b : i < j /\ t[i].kind = t[j].kind => g[i] < g[j]
            /\ \A m \in 1..n : list[m].kind \in K2 => \E i \in 1..b : g[i] = m
    BY DEF Arranged, Arranges
  <1>3. /\ u \in Seq(Accepted)
        /\ Len(u) = a + b
        /\ DOMAIN u = 1..(a + b)
        /\ \A i \in 1..(a + b) : u[i] = IF i <= a THEN s[i] ELSE t[i - a]
    BY ConcatProperties
  <1>4. a \in Nat /\ b \in Nat
    OBVIOUS
  <1> DEFINE h == [i \in 1..(a + b) |-> IF i <= a THEN f[i] ELSE g[i - a]]
  <1>5. /\ h \in [1..(a + b) -> 1..n]
        /\ \A i \in 1..a : h[i] = f[i] /\ u[i] = s[i] /\ i \in 1..(a + b)
        /\ \A i \in 1..b : h[i + a] = g[i] /\ u[i + a] = t[i] /\ i + a \in 1..(a + b)
    BY <1>1, <1>2, <1>3, <1>4
  <1>6. \A i \in 1..(a + b) : i \in 1..a \/ \E k \in 1..b : i = k + a
    <2> SUFFICES ASSUME NEW i \in 1..(a + b), i \notin 1..a PROVE \E k \in 1..b : i = k + a
      OBVIOUS
    <2>1. i - a \in 1..b /\ i = (i - a) + a
      BY <1>4
    <2> QED BY <2>1
  <1> HIDE DEF h, u
  <1>7. ASSUME NEW i \in 1..(a + b)
        PROVE  u[i] = list[h[i]] /\ u[i].kind \in K1 \cup K2
    <2>1. CASE i \in 1..a
      BY <1>1, <1>5, <2>1
    <2>2. CASE i \notin 1..a
      <3>1. PICK k \in 1..b : i = k + a
        BY <1>6, <2>2
      <3>2. u[i] = t[k] /\ h[i] = g[k]
        BY <1>5, <3>1
      <3> QED BY <1>2, <3>2
    <2> QED BY <2>1, <2>2
  <1>8. ASSUME NEW i \in 1..(a + b), NEW j \in 1..(a + b), i < j, u[i].kind = u[j].kind
        PROVE  h[i] < h[j]
    <2>1. CASE i \in 1..a /\ j \in 1..a
      BY <1>1, <1>5, <1>8, <2>1
    <2>2. CASE i \in 1..a /\ j \notin 1..a
      <3>1. PICK k \in 1..b : j = k + a
        BY <1>6, <2>2
      <3>2. u[i].kind \in K1 /\ u[j].kind \in K2
        BY <1>1, <1>2, <1>5, <2>2, <3>1
      <3> QED BY <1>8, <3>2
    <2>3. CASE i \notin 1..a
      <3>1. j \notin 1..a
        BY <1>4, <1>8, <2>3
      <3>2. PICK k \in 1..b : i = k + a
        BY <1>6, <2>3
      <3>3. PICK l \in 1..b : j = l + a
        BY <1>6, <3>1
      <3>4. k < l
        BY <1>4, <1>8, <3>2, <3>3
      <3>5. t[k].kind = t[l].kind
        BY <1>5, <1>8, <3>2, <3>3
      <3> QED BY <1>2, <1>5, <3>2, <3>3, <3>4, <3>5
    <2> QED BY <2>1, <2>2, <2>3
  <1>9. ASSUME NEW m \in 1..n, list[m].kind \in K1 \cup K2
        PROVE  \E i \in 1..(a + b) : h[i] = m
    <2>1. CASE list[m].kind \in K1
      <3>1. PICK i \in 1..a : f[i] = m
        BY <1>1, <2>1
      <3> QED BY <1>5, <3>1
    <2>2. CASE list[m].kind \in K2
      <3>1. PICK k \in 1..b : g[k] = m
        BY <1>2, <2>2
      <3> QED BY <1>5, <3>1
    <2> QED BY <1>9, <2>1, <2>2
  <1>10. Arranged(list, u, K1 \cup K2, n)
    <2>1. Arranges(h, list, u, K1 \cup K2, n)
      BY <1>3, <1>7, <1>8, <1>9 DEF Arranges
    <2> QED BY <1>3, <1>5, <2>1 DEF Arranged
  <1> QED BY <1>3, <1>10 DEF u

\* Next in the list comes a sink of this kind: it goes to the end of the kind's sinks.
LEMMA ArrangeOne ==
    ASSUME NEW list, NEW n \in Nat, NEW kind, NEW seq \in Seq(Accepted), NEW s \in Accepted,
           list[n + 1] = s, s.kind = kind, Arranged(list, seq, {kind}, n)
    PROVE  Arranged(list, Append(seq, s), {kind}, n + 1)
  <1> DEFINE u == Append(seq, s)
             a == Len(seq)
  <1>1. PICK f \in [1..a -> 1..n] :
            /\ \A i \in 1..a : seq[i] = list[f[i]] /\ seq[i].kind \in {kind}
            /\ \A i, j \in 1..a : i < j /\ seq[i].kind = seq[j].kind => f[i] < f[j]
            /\ \A m \in 1..n : list[m].kind \in {kind} => \E i \in 1..a : f[i] = m
    BY DEF Arranged, Arranges
  <1>2. /\ Len(u) = a + 1
        /\ \A i \in 1..a : u[i] = seq[i]
        /\ u[a + 1] = s
    BY AppendProperties
  <1>3. a \in Nat
    OBVIOUS
  <1> DEFINE h == [i \in 1..(a + 1) |-> IF i = a + 1 THEN n + 1 ELSE f[i]]
  <1>4. /\ h \in [1..(a + 1) -> 1..(n + 1)]
        /\ \A i \in 1..a : h[i] = f[i] /\ i \in 1..(a + 1) /\ f[i] \in 1..n
        /\ h[a + 1] = n + 1
        /\ a + 1 \in 1..(a + 1)
        /\ \A i \in 1..(a + 1) : i \in 1..a \/ i = a + 1
    <2>1. \A i \in 1..(a + 1) : i \in 1..a \/ i = a + 1
      BY <1>3
    <2>2. \A i \in 1..a : i # a + 1 /\ i \in 1..(a + 1) /\ f[i] \in 1..n /\ f[i] \in 1..(n + 1)
      BY <1>1, <1>3
    <2>3. n + 1 \in 1..(n + 1) /\ a + 1 \in 1..(a + 1)
      BY <1>3
    <2> QED BY <2>1, <2>2, <2>3
  <1> HIDE DEF h, u
  <1>5. ASSUME NEW i \in 1..(a + 1)
        PROVE  u[i] = list[h[i]] /\ u[i].kind \in {kind}
    BY <1>1, <1>2, <1>4
  <1>6. ASSUME NEW i \in 1..(a + 1), NEW j \in 1..(a + 1), i < j
        PROVE  h[i] < h[j]
    <2>1. i \in 1..a
      BY <1>3, <1>6
    <2>2. CASE j \in 1..a
      <3>1. seq[i].kind = seq[j].kind
        BY <1>1, <2>1, <2>2
      <3> QED BY <1>1, <1>4, <1>6, <2>1, <2>2, <3>1
    <2>3. CASE j = a + 1
      BY <1>4, <2>1, <2>3
    <2> QED BY <1>4, <2>2, <2>3
  <1>7. ASSUME NEW m \in 1..(n + 1), list[m].kind \in {kind}
        PROVE  \E i \in 1..(a + 1) : h[i] = m
    <2>1. CASE m = n + 1
      BY <1>4, <2>1
    <2>2. CASE m # n + 1
      <3>1. m \in 1..n
        BY <2>2
      <3> QED BY <1>1, <1>4, <1>7, <3>1
    <2> QED BY <2>1, <2>2
  <1>8. Arranged(list, u, {kind}, n + 1)
    <2>1. Arranges(h, list, u, {kind}, n + 1)
      BY <1>2, <1>5, <1>6, <1>7 DEF Arranges
    <2> QED BY <1>2, <1>4, <2>1 DEF Arranged
  <1> QED BY <1>8 DEF u

\* Next comes a sink of another kind: nothing changes.
LEMMA ArrangeOther ==
    ASSUME NEW list, NEW n \in Nat, NEW kind, NEW seq \in Seq(Accepted),
           list[n + 1].kind # kind, Arranged(list, seq, {kind}, n)
    PROVE  Arranged(list, seq, {kind}, n + 1)
  <1> DEFINE a == Len(seq)
  <1>1. PICK f \in [1..a -> 1..n] :
            /\ \A i \in 1..a : seq[i] = list[f[i]] /\ seq[i].kind \in {kind}
            /\ \A i, j \in 1..a : i < j /\ seq[i].kind = seq[j].kind => f[i] < f[j]
            /\ \A m \in 1..n : list[m].kind \in {kind} => \E i \in 1..a : f[i] = m
    BY DEF Arranged, Arranges
  <1>2. f \in [1..a -> 1..(n + 1)]
    OBVIOUS
  <1>3. \A m \in 1..(n + 1) : list[m].kind \in {kind} => \E i \in 1..a : f[i] = m
    <2> SUFFICES ASSUME NEW m \in 1..(n + 1), list[m].kind = kind
                 PROVE  \E i \in 1..a : f[i] = m
      OBVIOUS
    <2>1. m # n + 1
      OBVIOUS
    <2>2. m \in 1..n
      BY <2>1
    <2> QED BY <1>1, <2>2
  <1> QED BY <1>1, <1>2, <1>3 DEF Arranged, Arranges

LEMMA ResolvedSinksOf ==
    ASSUME NEW sinks \in Seq(Accepted)
    PROVE  /\ ResolvedSeq(sinks) \in Seq(ResolvedSinks)
           /\ Len(ResolvedSeq(sinks)) = Len(sinks)
           /\ \A i \in 1..Len(sinks) : ResolvedSeq(sinks)[i] = Resolved(sinks[i])
  <1>1. /\ Len(sinks) \in Nat /\ DOMAIN sinks = 1..Len(sinks)
        /\ \A i \in 1..Len(sinks) : sinks[i] \in Accepted
    OBVIOUS
  <1>2. ResolvedSeq(sinks) = [i \in 1..Len(sinks) |-> Resolved(sinks[i])]
    BY <1>1 DEF ResolvedSeq
  <1>3. \A i \in 1..Len(sinks) : Resolved(sinks[i]) \in ResolvedSinks
    BY <1>1 DEF ResolvedSinks
  <1> QED BY <1>1, <1>2, <1>3

\* All sinks of a Config, when every list of it is arranged.
LEMMA MergeAll ==
    ASSUME NEW list, NEW n \in Nat, NEW c \in [Kind -> Seq(Accepted)],
           \A kind \in Kind : Arranged(list, c[kind], {kind}, n)
    PROVE  /\ SinksOf(c) \in Seq(Accepted)
           /\ Arranged(list, SinksOf(c), Kind, n)
  <1> DEFINE t1 == c.traces \o c.metrics
             t2 == t1 \o c.otlp
             K1 == {"traces"} \cup {"metrics"}
             K2 == K1 \cup {"otlp"}
  <1>0. /\ c.traces \in Seq(Accepted) /\ c.metrics \in Seq(Accepted)
        /\ c.otlp \in Seq(Accepted) /\ c.sls \in Seq(Accepted)
        /\ Arranged(list, c.traces, {"traces"}, n) /\ Arranged(list, c.metrics, {"metrics"}, n)
        /\ Arranged(list, c.otlp, {"otlp"}, n) /\ Arranged(list, c.sls, {"sls"}, n)
    BY DEF Kind
  <1>1. t1 \in Seq(Accepted) /\ Arranged(list, t1, K1, n)
    <2>1. {"traces"} \cap {"metrics"} = {}
      OBVIOUS
    <2> QED BY <1>0, <2>1, Merge
  <1> HIDE DEF t1
  <1>2. t2 \in Seq(Accepted) /\ Arranged(list, t2, K2, n)
    <2>1. K1 \cap {"otlp"} = {}
      OBVIOUS
    <2> HIDE DEF K1
    <2> QED BY <1>0, <1>1, <2>1, Merge
  <1> HIDE DEF t2
  <1>3. t2 \o c.sls \in Seq(Accepted) /\ Arranged(list, t2 \o c.sls, K2 \cup {"sls"}, n)
    <2>1. K2 \cap {"sls"} = {}
      OBVIOUS
    <2> HIDE DEF K2
    <2> QED BY <1>0, <1>2, <2>1, Merge
  <1>4. K2 \cup {"sls"} = Kind
    BY DEF Kind
  <1>5. t2 \o c.sls = SinksOf(c)
    BY DEF t1, t2, SinksOf
  <1> HIDE DEF K2
  <1> QED BY <1>3, <1>4, <1>5

\* One more sink of the list is sorted.
LEMMA SortingStep ==
    ASSUME SortedInv, SortingInv, SortSink, stage' = "sorting"
    PROVE  SortingInv'
  <1> DEFINE Listed == Accepted \cup {Foreign}
             s == Head(queue)
  <1>1. queue \in Seq(Listed) /\ queue # <<>> /\ stage = "sorting"
    BY DEF SortSink, SortedInv
  <1>2. /\ s \in Listed /\ s = queue[1]
        /\ Tail(queue) \in Seq(Listed)
        /\ Len(queue) \in Nat /\ 1 \in 1..Len(queue) /\ Len(Tail(queue)) = Len(queue) - 1
        /\ \A i \in 1..Len(Tail(queue)) : Tail(queue)[i] = queue[i + 1]
    BY <1>1, HeadTailProperties
  <1>3. /\ s.kind \in Kind
        /\ config' = [config EXCEPT ![s.kind] = Append(config[s.kind], s)]
        /\ queue' = Tail(queue)
        /\ made' = made
    BY <1>1 DEF SortSink, PutInto
  <1>4. s \in Accepted
    BY <1>2, <1>3, ArgKinds
  <1>5. PICK n \in Nat :
            /\ n + Len(queue) = Len(made)
            /\ \A i \in 1..Len(queue) : queue[i] = made[n + i]
            /\ \A m \in 1..n : made[m].kind \in Kind
            /\ \A kind \in Kind : Arranged(made, config[kind], {kind}, n)
    BY DEF SortingInv, Sorted
  <1>6. made[n + 1] = s
    BY <1>2, <1>5
  <1>7. (n + 1) + Len(queue') = Len(made')
    BY <1>2, <1>3, <1>5
  <1>8. \A i \in 1..Len(queue') : queue'[i] = made'[(n + 1) + i]
    <2> SUFFICES ASSUME NEW i \in 1..Len(Tail(queue)) PROVE Tail(queue)[i] = made[(n + 1) + i]
      BY <1>3
    <2>1. i + 1 \in 1..Len(queue) /\ n + (i + 1) = (n + 1) + i
      BY <1>2
    <2> QED BY <1>2, <1>5, <2>1
  <1>9. \A m \in 1..(n + 1) : made'[m].kind \in Kind
    <2> SUFFICES ASSUME NEW m \in 1..(n + 1) PROVE made[m].kind \in Kind
      BY <1>3
    <2>1. m \in 1..n \/ m = n + 1
      OBVIOUS
    <2> QED BY <1>3, <1>5, <1>6, <2>1
  <1>10. ASSUME NEW kind \in Kind
         PROVE  Arranged(made', config'[kind], {kind}, n + 1)
    <2>1. config[kind] \in Seq(Accepted) /\ config \in [Kind -> Seq(Accepted)]
      BY DEF SortedInv
    <2>2. CASE kind = s.kind
      <3>1. config'[kind] = Append(config[kind], s)
        BY <1>3, <2>1, <2>2
      <3>2. Arranged(made, Append(config[kind], s), {kind}, n + 1)
        BY <1>4, <1>5, <1>6, <2>1, <2>2, ArrangeOne
      <3> QED BY <1>3, <3>1, <3>2
    <2>3. CASE kind # s.kind
      <3>1. config'[kind] = config[kind]
        BY <1>3, <2>1, <2>3
      <3>2. Arranged(made, config[kind], {kind}, n + 1)
        BY <1>5, <1>6, <2>1, <2>3, ArrangeOther
      <3> QED BY <1>3, <3>1, <3>2
    <2> QED BY <2>2, <2>3
  <1>11. Sorted(n + 1)'
    BY <1>7, <1>8, <1>9, <1>10 DEF Sorted
  <1> QED BY <1>11 DEF SortingInv

\* resolve keeps the order, and hands over every sink.
LEMMA BuildingStarts ==
    ASSUME SortedInv, SortingInv, Resolve, pipelines = <<>>, stage' = "building"
    PROVE  BuildingInv'
  <1> DEFINE sinks == SinksOf(config)
  <1>1. /\ queue = <<>> /\ queue' = ResolvedSeq(sinks)
        /\ UNCHANGED <<made, config, pipelines>>
    BY DEF Resolve
  <1>2. PICK n \in Nat :
            /\ n + Len(queue) = Len(made)
            /\ \A m \in 1..n : made[m].kind \in Kind
            /\ \A kind \in Kind : Arranged(made, config[kind], {kind}, n)
    BY DEF SortingInv, Sorted
  <1>3. n = Len(made)
    BY <1>1, <1>2
  <1>4. sinks \in Seq(Accepted) /\ Arranged(made, sinks, Kind, n)
    BY <1>2, MergeAll DEF SortedInv
  <1> HIDE DEF sinks
  <1>5. /\ queue' \in Seq(ResolvedSinks)
        /\ Len(queue') = Len(sinks)
        /\ \A i \in 1..Len(sinks) : queue'[i] = Resolved(sinks[i])
    BY <1>1, <1>4, ResolvedSinksOf
  <1>6. sinks' = sinks
    BY <1>1 DEF sinks, SinksOf
  <1>7. Len(sinks) \in Nat /\ Len(pipelines') = 0
    BY <1>1, <1>4
  <1>8. /\ Len(pipelines') + Len(queue') = Len(sinks')
        /\ \A i \in 1..Len(pipelines') : pipelines'[i] = Piped(sinks'[i])
        /\ \A i \in 1..Len(queue') : queue'[i] = Resolved(sinks'[Len(pipelines') + i])
    BY <1>5, <1>6, <1>7
  <1>9. /\ \A m \in 1..Len(made') : made'[m].kind \in Kind
        /\ Arranged(made', sinks', Kind, Len(made'))
    BY <1>1, <1>2, <1>3, <1>4, <1>6
  <1> QED BY <1>5, <1>8, <1>9 DEF BuildingInv, sinks

\* A sink that is built goes from the front of the queue to the end of the pipelines.
LEMMA BuildingStep ==
    ASSUME SortedInv, BuildingInv, Build, pipelines \in Seq(Pipelines)
    PROVE  BuildingInv' /\ pipelines' \in Seq(Pipelines)
  <1> DEFINE sinks == SinksOf(config)
             r == Head(queue)
             a == Len(pipelines)
  <1>1. /\ queue # <<>> /\ queue' = Tail(queue)
        /\ pipelines' = Append(pipelines, [r EXCEPT !.knobs = Applied(r)])
        /\ UNCHANGED <<made, config>>
    BY DEF Build
  <1>2. /\ queue \in Seq(ResolvedSinks)
        /\ a + Len(queue) = Len(sinks)
        /\ \A i \in 1..a : pipelines[i] = Piped(sinks[i])
        /\ \A i \in 1..Len(queue) : queue[i] = Resolved(sinks[a + i])
    BY DEF BuildingInv
  <1>3. /\ r = queue[1] /\ r \in ResolvedSinks
        /\ Tail(queue) \in Seq(ResolvedSinks)
        /\ Len(queue) \in Nat /\ 1 \in 1..Len(queue) /\ Len(Tail(queue)) = Len(queue) - 1
        /\ \A i \in 1..Len(Tail(queue)) : Tail(queue)[i] = queue[i + 1]
    BY <1>1, <1>2, HeadTailProperties
  <1>4. r = Resolved(sinks[a + 1])
    BY <1>2, <1>3
  <1>5. sinks[a + 1] \in Accepted
    <2>1. SinksOf(config) \in Seq(Accepted)
      <3>1. /\ config.traces \in Seq(Accepted) /\ config.metrics \in Seq(Accepted)
            /\ config.otlp \in Seq(Accepted) /\ config.sls \in Seq(Accepted)
        BY DEF SortedInv, Kind
      <3> QED BY <3>1 DEF SinksOf
    <2>2. a \in Nat /\ a + 1 \in 1..Len(sinks)
      BY <1>2, <1>3
    <2> QED BY <2>1, <2>2
  <1> HIDE DEF sinks
  <1>6. [r EXCEPT !.knobs = Applied(r)] = Piped(sinks[a + 1])
    BY <1>4 DEF Piped
  <1>7. /\ pipelines' \in Seq(Pipelines)
        /\ Len(pipelines') = a + 1
        /\ \A i \in 1..a : pipelines'[i] = pipelines[i]
        /\ pipelines'[a + 1] = Piped(sinks[a + 1])
    <2>1. Piped(sinks[a + 1]) \in Pipelines
      BY <1>5 DEF Pipelines
    <2> QED BY <1>1, <1>6, <2>1, AppendProperties
  <1>8. sinks' = sinks
    BY <1>1 DEF sinks, SinksOf
  <1>9. Len(pipelines') + Len(queue') = Len(sinks')
    BY <1>1, <1>2, <1>3, <1>7, <1>8
  <1>10. \A i \in 1..Len(pipelines') : pipelines'[i] = Piped(sinks'[i])
    <2> SUFFICES ASSUME NEW i \in 1..(a + 1) PROVE pipelines'[i] = Piped(sinks[i])
      BY <1>7, <1>8
    <2>1. i \in 1..a \/ i = a + 1
      OBVIOUS
    <2> QED BY <1>2, <1>7, <2>1
  <1>11. \A i \in 1..Len(queue') : queue'[i] = Resolved(sinks'[Len(pipelines') + i])
    <2> SUFFICES ASSUME NEW i \in 1..Len(Tail(queue))
                 PROVE  Tail(queue)[i] = Resolved(sinks[(a + 1) + i])
      BY <1>1, <1>7, <1>8
    <2>1. i + 1 \in 1..Len(queue) /\ a + (i + 1) = (a + 1) + i
      BY <1>3
    <2> QED BY <1>2, <1>3, <2>1
  <1>12. /\ \A m \in 1..Len(made') : made'[m].kind \in Kind
         /\ Arranged(made', sinks', Kind, Len(made'))
    BY <1>1, <1>8 DEF BuildingInv, sinks
  <1> QED BY <1>1, <1>3, <1>7, <1>9, <1>10, <1>11, <1>12 DEF BuildingInv, sinks

LEMMA ListedStep == SortedInv /\ ListedInv /\ [Next]_vars => ListedInv'
  <1> SUFFICES ASSUME SortedInv, ListedInv, [Next]_vars PROVE ListedInv'
    OBVIOUS
  <1>1. CASE NewSink
    BY <1>1 DEF NewSink, ListedInv
  <1>r. CASE NewConfig /\ stage' = "rejected"
    BY <1>r DEF NewConfig, ListedInv
  <1>2. CASE NewConfig /\ stage' # "rejected"
    <2>1. /\ stage = "making" /\ stage' = "sorting" /\ queue' = made
          /\ UNCHANGED <<made, config, pipelines>>
      BY <1>2 DEF NewConfig
    <2>2. pipelines = <<>> /\ config = Empty
      BY <2>1 DEF ListedInv
    <2>3. made \in Seq(Accepted \cup {Foreign}) /\ Len(made) \in Nat
      BY DEF SortedInv
    <2>4. \A kind \in Kind : Arranged(made, config[kind], {kind}, 0)
      <3> SUFFICES ASSUME NEW kind \in Kind PROVE Arranged(made, <<>>, {kind}, 0)
        BY <2>2 DEF Empty
      <3>1. Len(<<>>) = 0 /\ 1..0 = {}
        OBVIOUS
      <3>2. [i \in 1..Len(<<>>) |-> i] \in [1..Len(<<>>) -> 1..0]
        BY <3>1
      <3>3. Arranges([i \in 1..Len(<<>>) |-> i], made, <<>>, {kind}, 0)
        BY <3>1 DEF Arranges
      <3> QED BY <3>2, <3>3 DEF Arranged
    <2>5. Sorted(0)'
      BY <2>1, <2>3, <2>4 DEF Sorted
    <2>6. SortingInv'
      BY <2>5 DEF SortingInv
    <2> QED BY <2>1, <2>2, <2>6 DEF ListedInv
  <1>3. CASE SortSink
    <2>1. /\ stage = "sorting" /\ stage' \in {"sorting", "rejected"}
          /\ UNCHANGED <<made, pipelines>>
      BY <1>3 DEF SortSink
    <2>2. stage' = "sorting" => SortingInv'
      BY <1>3, <2>1, SortingStep DEF ListedInv
    <2> QED BY <2>1, <2>2 DEF ListedInv
  <1>4. CASE Resolve
    <2>1. /\ stage = "sorting" /\ stage' \in {"building", "unresolved"}
          /\ UNCHANGED <<made, config, pipelines>>
      BY <1>4 DEF Resolve
    <2>2. stage' = "building" => BuildingInv'
      BY <1>4, <2>1, BuildingStarts DEF ListedInv
    <2> QED BY <2>1, <2>2 DEF ListedInv
  <1>5. CASE Build
    <2>1. stage = "building" /\ stage' = "building"
      BY <1>5 DEF Build
    <2>2. BuildingInv' /\ pipelines' \in Seq(Pipelines)
      BY <1>5, <2>1, BuildingStep DEF ListedInv
    <2> QED BY <2>1, <2>2 DEF ListedInv
  <1>6. CASE BuildFails
    BY <1>6 DEF BuildFails, ListedInv
  <1>7. CASE Installed
    <2>1. /\ stage = "building" /\ queue = <<>> /\ stage' = "installed"
          /\ UNCHANGED <<made, config, queue, pipelines>>
      BY <1>7 DEF Installed
    <2>2. BuildingInv'
      BY <2>1 DEF ListedInv, BuildingInv
    <2> QED BY <2>1, <2>2 DEF ListedInv
  <1>8. CASE UNCHANGED vars
    BY <1>8 DEF vars, ListedInv, SortingInv, Sorted, BuildingInv
  <1> QED BY <1>1, <1>r, <1>2, <1>3, <1>4, <1>5, <1>6, <1>7, <1>8 DEF Next

\* An init that succeeds has one pipeline for every sink of the list, per kind in the
\* order of the list, set up as asked: for lists of any length, with no sink dropped,
\* built twice, or moved in front of another of its kind.
THEOREM InstalledListed == Spec => []InstalledAsListed
  <1>1. Init => ListedInv
    BY DEF Init, ListedInv
  <1>2. SortedInv /\ ListedInv => InstalledAsListed
    <2> SUFFICES ASSUME SortedInv, ListedInv, stage = "installed"
                 PROVE  \E f \in Bijection(DOMAIN pipelines, DOMAIN made) :
                            /\ \A i \in DOMAIN pipelines : AsAsked(pipelines[i], made[f[i]])
                            /\ \A i, j \in DOMAIN pipelines :
                                  i < j /\ pipelines[i].kind = pipelines[j].kind
                                     => f[i] < f[j]
      BY DEF InstalledAsListed
    <2> DEFINE sinks == SinksOf(config)
               n == Len(made)
               a == Len(pipelines)
    <2>1. /\ pipelines \in Seq(Pipelines) /\ made \in Seq(Accepted \cup {Foreign})
          /\ a = Len(sinks)
          /\ \A i \in 1..a : pipelines[i] = Piped(sinks[i])
          /\ \A m \in 1..n : made[m].kind \in Kind
          /\ Arranged(made, sinks, Kind, n)
      <3>1. BuildingInv /\ queue = <<>>
        BY DEF ListedInv
      <3>2. pipelines \in Seq(Pipelines) /\ Len(pipelines) \in Nat
        BY DEF ListedInv
      <3> QED BY <3>1, <3>2 DEF BuildingInv, SortedInv
    <2>2. /\ DOMAIN pipelines = 1..a /\ DOMAIN made = 1..n
          /\ a \in Nat /\ n \in Nat
          /\ \A m \in 1..n : made[m] \in Accepted \cup {Foreign}
      BY <2>1
    <2> HIDE DEF sinks, n, a
    <2>3. PICK f \in [1..a -> 1..n] : Arranges(f, made, sinks, Kind, n)
      BY <2>1 DEF Arranged
    <2>4. /\ \A i \in 1..a : sinks[i] = made[f[i]]
          /\ \A i, j \in 1..a : i < j /\ sinks[i].kind = sinks[j].kind => f[i] < f[j]
          /\ \A m \in 1..n : \E i \in 1..a : f[i] = m
      BY <2>1, <2>3 DEF Arranges
    <2>5. \A i \in 1..a : f[i] \in 1..n /\ sinks[i] \in Accepted
      BY <2>1, <2>2, <2>4, ArgKinds
    <2>6. ASSUME NEW i \in 1..a
          PROVE  pipelines[i].kind = sinks[i].kind /\ AsAsked(pipelines[i], made[f[i]])
      <3>1. pipelines[i] = Piped(sinks[i]) /\ sinks[i] = made[f[i]] /\ sinks[i] \in Accepted
        BY <2>1, <2>4, <2>5
      <3>2. AsAsked(pipelines[i], sinks[i])
        BY <3>1, PipedAsAsked
      <3> QED BY <3>1, <3>2 DEF AsAsked
    <2>7. \A i, j \in 1..a : f[i] = f[j] => i = j
      <3> SUFFICES ASSUME NEW i \in 1..a, NEW j \in 1..a, f[i] = f[j], i < j PROVE FALSE
        BY <2>2
      <3>1. sinks[i].kind = sinks[j].kind /\ f[i] \in 1..n
        BY <2>4, <2>5
      <3>2. f[i] < f[j]
        BY <2>4, <3>1
      <3> QED BY <2>2, <3>1, <3>2
    <2>8. f \in Bijection(1..a, 1..n)
      BY <2>3, <2>4, <2>7 DEF Bijection, Injection, Surjection, IsInjective
    <2>9. \A i, j \in 1..a : i < j /\ pipelines[i].kind = pipelines[j].kind => f[i] < f[j]
      BY <2>4, <2>6
    <2> QED BY <2>2, <2>6, <2>8, <2>9
  <1> QED BY <1>1, <1>2, ListedStep, SortedInvariant, PTL DEF Spec

\* What EveryKnobReaches says, of the sinks that are not for log records: those are
\* the only ones whose knobs an init that succeeds may lose.
KnobsReachButOtlp ==
    stage = "installed" =>
        \A i \in DOMAIN made : made[i].kind # "otlp" =>
            \A k \in made[i].knobs :
                \E j \in DOMAIN pipelines :
                    pipelines[j].kind = made[i].kind /\ k \in pipelines[j].knobs

\* Only an OtlpLogSink loses knobs: no other setter is missing in install.
THEOREM OnlyOtlpLosesKnobs == Spec => []KnobsReachButOtlp
  <1>1. InstalledAsListed => KnobsReachButOtlp
    <2> SUFFICES ASSUME InstalledAsListed, stage = "installed",
                        NEW i \in DOMAIN made, made[i].kind # "otlp", NEW k \in made[i].knobs
                 PROVE  \E j \in DOMAIN pipelines :
                            pipelines[j].kind = made[i].kind /\ k \in pipelines[j].knobs
      BY DEF KnobsReachButOtlp
    <2>1. PICK f \in Bijection(DOMAIN pipelines, DOMAIN made) :
              \A j \in DOMAIN pipelines : AsAsked(pipelines[j], made[f[j]])
      BY DEF InstalledAsListed
    <2>2. PICK j \in DOMAIN pipelines : f[j] = i
      BY <2>1 DEF Bijection, Surjection
    <2> QED BY <2>1, <2>2 DEF AsAsked
  <1> QED BY <1>1, InstalledListed, PTL

=============================================================================
