----------------------------- MODULE ServerProofs -----------------------------
(***************************************************************************)
(* Server, for any sources of configuration, calls and addresses: first what *)
(* the configuration of a start is, then its life.                           *)
(***************************************************************************)
EXTENDS Server, RoutingProofs

\* A configuration that was deserialized and validated.
ConfigFits(c) ==
  /\ ValidConfig(c) /\ WellTyped(c)
  /\ c.clients \in Seq([id : STRING, enabled : BOOLEAN])
  /\ \A i \in DOMAIN c.routes : i \in Nat /\ c.routes[i].prefix \in Path

\* How far start-up is says what it has done.
ProcessFits ==
  /\ phase \in Phases
  /\ starts \in 0..MaxStarts
  /\ phase # "down" =>
       /\ sources \in Starts /\ ArgumentsOK(sources.args) /\ config = Effective(sources)
       /\ ConfigFits(config)
  /\ phase \in {"down", "binding"} => seeded = 0
  /\ phase # "down" =>
       /\ seeded \in 0..Len(config.clients)
       /\ \A i \in 1..seeded : config.clients[i].enabled => config.clients[i].id \in store
  /\ phase \notin {"down", "binding"} =>
       /\ addr.address \in Addresses[config.bind_host]
       /\ addr.port # 0 /\ issuer.port = addr.port
  /\ phase \in {"serving", "waiting", "stopping"} => seeded = Len(config.clients)

\* No connection is older than the listener, and none is accepted before the router
\* is there; a request that is handled was routed with the configuration that is there.
RequestsFit ==
  /\ pc \in [Requests -> Open \cup {"idle", "answered", "reset"}]
  /\ call \in [Requests -> Calls \cup {Absent}]
  /\ DOMAIN target = Requests
  /\ \A r \in Requests :
       /\ pc[r] \in Open => phase \notin {"down", "binding"} /\ call[r] \in Calls
       /\ pc[r] \notin Open => call[r] = Absent
       /\ pc[r] \in {"accepted", "received", "handling"} => phase \in {"serving", "waiting", "stopping"}
       /\ pc[r] = "handling" => target[r] = Target(config, call[r])

ServerInv == ProcessFits /\ RequestsFit

-----------------------------------------------------------------------------
\* The configuration of a start

LEMMA Parity ==
  ASSUME NEW n \in Nat
  PROVE  /\ 0 % 2 # 1
         /\ (n + 1) % 2 = 1 <=> n % 2 # 1
OBVIOUS

\* The value of an option is whatever follows it.
LEMMA ValueNext ==
  ASSUME NEW args, NEW i \in Nat \ {0}
  PROVE  /\ ~IsValue(args, 1)
         /\ IsValue(args, i + 1) <=> WantsValue(args[i]) /\ ~IsValue(args, i)
<1> DEFINE others(k) == {j \in 1..k - 1 : ~WantsValue(args[j])}
           last(k) == Max(others(k) \cup {0})
<1>1. \A k \in Nat \ {0} : IsValue(args, k) <=> (k - 1 - last(k)) % 2 = 1
  BY DEF IsValue
<1>2. ASSUME NEW k \in Nat \ {0}
      PROVE  last(k) \in others(k) \cup {0} /\ \A j \in others(k) \cup {0} : last(k) >= j
  <2>1. others(k) \cup {0} \subseteq 0..k - 1 /\ others(k) \cup {0} # {} /\ k - 1 \in Nat
    OBVIOUS
  <2> HIDE DEF others
  <2> QED
    BY <2>1, GreatestNumber
<1>3. last(1) = 0
  <2>1. others(1) = {}
    OBVIOUS
  <2> HIDE DEF last, others
  <2> QED
    BY <1>2, <2>1
<1>4. CASE WantsValue(args[i])
  <2>1. others(i + 1) = others(i)
    BY <1>4
  <2>2. last(i + 1) = last(i) /\ last(i) \in 0..i - 1
    BY <1>2, <2>1
  <2>3. i - 1 - last(i) \in Nat /\ i + 1 - 1 - last(i) = i - 1 - last(i) + 1
    <3> HIDE DEF last
    <3> QED
      BY <2>2
  <2> HIDE DEF last
  <2> QED
    BY <1>1, <1>3, <1>4, <2>2, <2>3, Parity
<1>5. CASE ~WantsValue(args[i])
  <2>1. i \in others(i + 1)
    BY <1>5
  <2>2. last(i + 1) = i
    <3>1. last(i + 1) \in others(i + 1) \cup {0} /\ last(i + 1) >= i
      BY <1>2, <2>1
    <3>2. last(i + 1) \in 0..i
      BY <3>1
    <3> HIDE DEF last
    <3> QED
      BY <3>1, <3>2
  <2> HIDE DEF last
  <2> QED
    BY <1>1, <1>3, <1>5, <2>2, Parity
<1> QED
  BY <1>4, <1>5
\* the arguments among the first k that have given option its value so far
SetBy(args, k, option) ==
  {i \in 1..k : /\ args[i].flag = option /\ ~IsValue(args, i)
                /\ args[i].given # Absent \/ i < k}
ValueAt(args, i) ==
  IF args[i].given # Absent THEN args[i].given ELSE TextOf(args[i + 1])

\* What parse_from knows after k arguments.
ParseFits(args, k, st) ==
  /\ st = [options |-> st.options, awaiting |-> st.awaiting, help |-> st.help,
           failed |-> st.failed]
  /\ st.failed \in BOOLEAN
  /\ ~st.failed =>
       /\ st.awaiting # Absent <=> IsValue(args, k + 1)
       /\ st.awaiting # Absent => k >= 1 /\ st.awaiting = args[k].flag
       /\ \A i \in 1..k : IsValue(args, i) \/ args[i].flag \in Options \cup {"help"}
       /\ DOMAIN st.options = {o \in Options : SetBy(args, k, o) # {}}
       /\ \A o \in DOMAIN st.options : st.options[o] = ValueAt(args, Max(SetBy(args, k, o)))

LEMMA LastOfSet ==
  ASSUME NEW k \in Nat \ {0}, NEW S, S \subseteq 1..k
  PROVE  Max(S \cup {k}) = k
<1> DEFINE T == S \cup {k}
<1>1. T \subseteq 1..k /\ k \in T
  OBVIOUS
<1> HIDE DEF T
<1>2. Max(T) \in T /\ \A i \in T : Max(T) >= i
  <2>1. T \subseteq 0..k /\ T # {}
    BY <1>1
  <2> QED
    BY <2>1, GreatestNumber
<1>3. Max(T) \in 1..k /\ Max(T) >= k
  BY <1>1, <1>2
<1>4. Max(T) = k
  BY <1>3
<1> QED
  BY <1>4 DEF T

\* What one more argument adds to them.
LEMMA SetByNext ==
  ASSUME NEW args, NEW k \in Nat, NEW option \in Options
  PROVE  /\ k >= 1 /\ IsValue(args, k + 1) =>
              SetBy(args, k + 1, option) =
                SetBy(args, k, option) \cup {i \in {k} : args[i].flag = option}
         /\ ~IsValue(args, k + 1) =>
              SetBy(args, k + 1, option) =
                SetBy(args, k, option)
                  \cup {i \in {k + 1} : args[i].flag = option /\ args[i].given # Absent}
         /\ SetBy(args, k, option) \subseteq 1..k
<1> DEFINE before == SetBy(args, k, option)
           after == SetBy(args, k + 1, option)
<1>1. \A i : i \in after <=> i \in 1..k + 1 /\ args[i].flag = option /\ ~IsValue(args, i)
                              /\ (args[i].given # Absent \/ i < k + 1)
  BY DEF SetBy
<1>2. \A i : i \in before <=> i \in 1..k /\ args[i].flag = option /\ ~IsValue(args, i)
                               /\ (args[i].given # Absent \/ i < k)
  BY DEF SetBy
<1> HIDE DEF before, after
<1>3. ASSUME k >= 1, IsValue(args, k + 1)
      PROVE  after = before \cup {i \in {k} : args[i].flag = option}
  <2>1. ~IsValue(args, k) /\ args[k].given = Absent
    BY <1>3, ValueNext DEF WantsValue
  <2>2. \A i : i \in 1..k + 1 <=> i \in 1..k \/ i = k + 1
    OBVIOUS
  <2>3. \A i \in 1..k : (i < k + 1) /\ (i < k <=> i # k) /\ k \in 1..k
    BY <1>3
  <2> QED
    BY <1>1, <1>2, <1>3, <2>1, <2>2, <2>3
<1>4. ASSUME ~IsValue(args, k + 1)
      PROVE  after = before
               \cup {i \in {k + 1} : args[i].flag = option /\ args[i].given # Absent}
  <2>1. k >= 1 => IsValue(args, k) \/ args[k].given # Absent \/ args[k].flag # option
    BY <1>4, ValueNext DEF WantsValue
  <2>2. \A i : i \in 1..k + 1 <=> i \in 1..k \/ i = k + 1
    OBVIOUS
  <2>3. \A i \in 1..k : (i < k + 1) /\ (i < k <=> i # k) /\ k >= 1
    OBVIOUS
  <2> QED
    BY <1>1, <1>2, <1>4, <2>1, <2>2, <2>3
<1>5. before \subseteq 1..k
  <2>1. \A i \in before : i \in 1..k
    BY <1>2
  <2> QED
    BY <2>1
<1> QED
  BY <1>3, <1>4, <1>5 DEF before, after


\* An option gets the value that argument i gives it.
LEMMA TakesFits ==
  ASSUME NEW args, NEW k \in Nat, NEW st, ParseFits(args, k, st), ~st.failed,
         NEW i \in Nat \ {0}, i = k \/ i = k + 1,
         NEW option \in Options, args[i].flag = option,
         \A o \in Options :
           SetBy(args, k + 1, o) = SetBy(args, k, o) \cup {j \in {i} : args[j].flag = o},
         IsValue(args, k + 1) \/ args[k + 1].flag \in Options,
         ~IsValue(args, k + 2)
  PROVE  ParseFits(args, k + 1, Takes(st, option, ValueAt(args, i)))
<1> DEFINE value == ValueAt(args, i)
           next == Takes(st, option, value)
<1>1. CASE option \in TypedKeys /\ value = Text
  <2>1. next = [options |-> st.options, awaiting |-> st.awaiting, help |-> st.help,
                failed |-> TRUE]
    BY <1>1 DEF Takes, ParseFits
  <2> HIDE DEF next
  <2>2. ParseFits(args, k + 1, next)
    BY <2>1 DEF ParseFits
  <2> QED
    BY <2>2 DEF next, value
<1>2. CASE ~(option \in TypedKeys /\ value = Text)
  <2>1. next = [options |-> Over([key \in {option} |-> value], st.options),
                awaiting |-> Absent, help |-> st.help, failed |-> FALSE]
    BY <1>2 DEF Takes, ParseFits
  <2>2. /\ DOMAIN next.options = {option} \cup DOMAIN st.options
        /\ next.options[option] = value
        /\ \A o \in DOMAIN st.options : o # option => next.options[o] = st.options[o]
    BY <2>1 DEF Over
  <2> HIDE DEF next, value
  <2>3. /\ i \in SetBy(args, k + 1, option)
        /\ \A o \in Options : o # option => SetBy(args, k + 1, o) = SetBy(args, k, o)
    OBVIOUS
  <2>4. Max(SetBy(args, k + 1, option)) = i
    <3>1. SetBy(args, k, option) \subseteq 1..i
      <4>1. SetBy(args, k, option) \subseteq 1..k
        BY SetByNext
      <4> QED
        BY <4>1
    <3>2. SetBy(args, k + 1, option) = SetBy(args, k, option) \cup {i}
      OBVIOUS
    <3> QED
      BY <3>1, <3>2, LastOfSet
  <2>5. DOMAIN next.options = {o \in Options : SetBy(args, k + 1, o) # {}}
    BY <2>2, <2>3 DEF ParseFits
  <2>6. \A o \in DOMAIN next.options :
          next.options[o] = ValueAt(args, Max(SetBy(args, k + 1, o)))
    <3>1. \A o \in DOMAIN st.options : o \in Options
      BY DEF ParseFits
    <3> QED
      BY <2>2, <2>3, <2>4, <3>1 DEF ParseFits, value
  <2>7. \A j \in 1..k + 1 : IsValue(args, j) \/ args[j].flag \in Options \cup {"help"}
    <3>1. \A j \in 1..k + 1 : j \in 1..k \/ j = k + 1
      OBVIOUS
    <3> QED
      BY <3>1 DEF ParseFits
  <2>8. next.awaiting = Absent /\ ~IsValue(args, k + 1 + 1)
    BY <2>1
  <2>9. ParseFits(args, k + 1, next)
    BY <2>1, <2>5, <2>6, <2>7, <2>8 DEF ParseFits
  <2> QED
    BY <2>9 DEF next, value
<1> QED
  BY <1>1, <1>2

LEMMA ParseStep ==
  ASSUME NEW args, NEW k \in Nat, NEW st, ParseFits(args, k, st)
  PROVE  ParseFits(args, k + 1, ParseArg(st, args[k + 1]))
<1> DEFINE arg == args[k + 1]
           next == ParseArg(st, arg)
<1>0. st.failed \in BOOLEAN
  BY DEF ParseFits
<1>1. CASE st.failed
  BY <1>1 DEF ParseFits, ParseArg
<1>2. CASE ~st.failed /\ st.awaiting # Absent
  <2>1. /\ k >= 1 /\ st.awaiting = args[k].flag /\ IsValue(args, k + 1)
        /\ ~IsValue(args, k) /\ args[k].given = Absent /\ args[k].flag \in Options
    BY <1>2, ValueNext DEF ParseFits, WantsValue
  <2>2. next = Takes(st, args[k].flag, ValueAt(args, k))
    BY <1>2, <2>1 DEF ParseArg, ValueAt
  <2>3. ~IsValue(args, k + 2)
    <3>1. k + 1 \in Nat \ {0} /\ k + 1 + 1 = k + 2
      OBVIOUS
    <3> QED
      BY <2>1, <3>1, ValueNext
  <2> HIDE DEF next
  <2>4. \A o \in Options : SetBy(args, k + 1, o)
                             = SetBy(args, k, o) \cup {j \in {k} : args[j].flag = o}
    BY <2>1, SetByNext
  <2>5. ParseFits(args, k + 1, Takes(st, args[k].flag, ValueAt(args, k)))
    <3>1. k \in Nat \ {0} /\ ~st.failed
      BY <1>2, <2>1
    <3> QED
      BY <2>1, <2>3, <2>4, <3>1, TakesFits
  <2> QED
    BY <2>2, <2>5 DEF next
<1>3. CASE ~st.failed /\ st.awaiting = Absent
  <2>1. ~IsValue(args, k + 1)
    BY <1>3 DEF ParseFits
  <2>2. \A o \in Options :
          SetBy(args, k + 1, o) = SetBy(args, k, o)
            \cup {i \in {k + 1} : args[i].flag = o /\ args[i].given # Absent}
    BY <2>1, SetByNext
  <2>3. IsValue(args, k + 2) <=> WantsValue(arg)
    <3>1. k + 1 \in Nat \ {0} /\ k + 1 + 1 = k + 2
      OBVIOUS
    <3> QED
      BY <2>1, <3>1, ValueNext
  <2>4. CASE arg.flag \in Options /\ arg.given # Absent
    <3>1. next = Takes(st, arg.flag, ValueAt(args, k + 1))
      BY <1>3, <2>4 DEF ParseArg, ValueAt
    <3>2. ~IsValue(args, k + 2)
      BY <2>3, <2>4 DEF WantsValue
    <3>3. \A o \in Options : SetBy(args, k + 1, o)
                               = SetBy(args, k, o) \cup {j \in {k + 1} : args[j].flag = o}
      BY <2>2, <2>4
    <3> HIDE DEF next
    <3>4. ParseFits(args, k + 1, Takes(st, arg.flag, ValueAt(args, k + 1)))
      <4>1. k + 1 \in Nat \ {0} /\ ~st.failed
        BY <1>3
      <4> QED
        BY <2>4, <3>2, <3>3, <4>1, TakesFits
    <3> QED
      BY <3>1, <3>4 DEF next
  <2>5. CASE ~(arg.flag \in Options /\ arg.given # Absent)
    <3>1. \A o \in Options : SetBy(args, k + 1, o) = SetBy(args, k, o)
      BY <2>2, <2>5
    <3>2. DOMAIN st.options = {o \in Options : SetBy(args, k + 1, o) # {}}
      BY <1>3, <3>1 DEF ParseFits
    <3>3. \A o \in DOMAIN st.options :
            st.options[o] = ValueAt(args, Max(SetBy(args, k + 1, o)))
      <4>1. \A o \in DOMAIN st.options : o \in Options
        BY <3>2
      <4> QED
        BY <1>3, <3>1, <4>1 DEF ParseFits
    <3>4. \A j \in 1..k + 1 : IsValue(args, j) \/ args[j].flag \in Options \cup {"help"}
                                \/ j = k + 1
      <4>1. \A j \in 1..k + 1 : j \in 1..k \/ j = k + 1
        OBVIOUS
      <4> QED
        BY <1>3, <4>1 DEF ParseFits
    <3>5. k + 1 + 1 = k + 2 /\ k + 1 >= 1
      OBVIOUS
    <3>6. CASE arg = [flag |-> "help", given |-> Absent]
      <4>1. next = [options |-> st.options, awaiting |-> Absent, help |-> TRUE,
                    failed |-> FALSE]
        BY <1>0, <1>3, <3>6 DEF ParseFits, ParseArg
      <4>2. ~IsValue(args, k + 2) /\ arg.flag = "help"
        BY <2>3, <3>6 DEF WantsValue, Options
      <4> HIDE DEF next
      <4>3. ParseFits(args, k + 1, next)
        BY <3>2, <3>3, <3>4, <3>5, <4>1, <4>2 DEF ParseFits
      <4> QED
        BY <4>3 DEF next
    <3>7. CASE arg # [flag |-> "help", given |-> Absent] /\ arg.flag \notin Options
      <4>1. next = [options |-> st.options, awaiting |-> st.awaiting, help |-> st.help,
                    failed |-> TRUE]
        BY <1>3, <3>7 DEF ParseFits, ParseArg
      <4> HIDE DEF next
      <4>2. ParseFits(args, k + 1, next)
        BY <4>1 DEF ParseFits
      <4> QED
        BY <4>2 DEF next
    <3>8. CASE arg # [flag |-> "help", given |-> Absent] /\ arg.flag \in Options
      <4>1. arg.given = Absent /\ WantsValue(arg)
        BY <2>5, <3>8 DEF WantsValue
      <4>2. next = [options |-> st.options, awaiting |-> arg.flag, help |-> st.help,
                    failed |-> FALSE]
        BY <1>0, <1>3, <3>8, <4>1 DEF ParseFits, ParseArg
      <4>3. IsValue(args, k + 2) /\ arg.flag # Absent
        BY <2>3, <3>8, <4>1, AbsentAssumption DEF AbsentAssumption
      <4> HIDE DEF next
      <4>4. ParseFits(args, k + 1, next)
        BY <3>2, <3>3, <3>4, <3>5, <3>8, <4>2, <4>3 DEF ParseFits
      <4> QED
        BY <4>4 DEF next
    <3> QED
      BY <3>6, <3>7, <3>8
  <2> QED
    BY <2>4, <2>5
<1> QED
  BY <1>0, <1>1, <1>2, <1>3

\* What parse_from goes through, argument by argument.
LEMMA ParseSteps ==
  ASSUME NEW args, Len(args) \in Nat, DOMAIN args = 1..Len(args)
  PROVE  \E parse :
           /\ parse[{}] = NothingParsed
           /\ \A k \in 0..Len(args) - 1 :
                parse[1..k + 1] = ParseArg(parse[1..k], args[k + 1])
           /\ ParseArgs(args) = parse[1..Len(args)]
<1> DEFINE Step(f, s) ==
             IF s = {} THEN NothingParsed ELSE ParseArg(f[s \ {Max(s)}], args[Max(s)])
           Recurses(f, n) == f = [s \in SUBSET (1..n) |-> Step(f, s)]
           defined == {n \in Nat : \E f : Recurses(f, n)}
<1>1. Len(args) \in Nat /\ DOMAIN args = 1..Len(args)
  OBVIOUS
<1>2. 0 \in defined
  <2> DEFINE f == [s \in SUBSET (1..0) |-> NothingParsed]
  <2>1. \A s \in SUBSET (1..0) : s = {}
    OBVIOUS
  <2>2. Recurses(f, 0)
    BY <2>1
  <2> HIDE DEF Recurses
  <2> QED
    BY <2>2
<1>3. ASSUME NEW n \in Nat, n \in defined PROVE n + 1 \in defined
  <2>1. PICK f : Recurses(f, n)
    BY <1>3
  <2> DEFINE g == [s \in SUBSET (1..n + 1) |->
                     IF n + 1 \in s THEN ParseArg(f[s \ {n + 1}], args[n + 1]) ELSE f[s]]
             h == [s \in SUBSET (1..n + 1) |-> Step(g, s)]
  <2>2. ASSUME NEW s \in SUBSET (1..n + 1) PROVE g[s] = Step(g, s)
    <3>1. ASSUME NEW r \in SUBSET (1..n) PROVE g[r] = f[r] /\ f[r] = Step(f, r)
      <4>1. n + 1 \notin r /\ r \in SUBSET (1..n + 1)
        OBVIOUS
      <4> QED
        BY <2>1, <4>1
    <3> HIDE DEF Step
    <3>2. CASE n + 1 \in s
      <4>1. s \ {n + 1} \in SUBSET (1..n)
        OBVIOUS
      <4>2. Max(s) = n + 1
        <5>1. s = (s \ {n + 1}) \cup {n + 1}
          BY <3>2
        <5>2. n + 1 \in Nat \ {0} /\ s \ {n + 1} \subseteq 1..n + 1
          OBVIOUS
        <5>3. Max((s \ {n + 1}) \cup {n + 1}) = n + 1
          BY <5>2, LastOfSet
        <5> QED
          BY <5>1, <5>3
      <4>3. g[s \ {n + 1}] = f[s \ {n + 1}]
        BY <3>1, <4>1
      <4>4. g[s] = ParseArg(f[s \ {n + 1}], args[n + 1])
        BY <3>2
      <4> HIDE DEF g
      <4> QED
        BY <3>2, <4>2, <4>3, <4>4 DEF Step
    <3>3. CASE n + 1 \notin s
      <4>1. s \in SUBSET (1..n)
        BY <3>3
      <4>2. g[s] = Step(f, s)
        BY <3>1, <4>1
      <4>3. CASE s = {}
        BY <4>2, <4>3 DEF Step
      <4>4. CASE s # {}
        <5>1. s \ {Max(s)} \in SUBSET (1..n)
          BY <4>1
        <5>2. g[s \ {Max(s)}] = f[s \ {Max(s)}]
          BY <3>1, <5>1
        <5> HIDE DEF g
        <5> QED
          BY <4>2, <4>4, <5>2 DEF Step
      <4> QED
        BY <4>3, <4>4
    <3> QED
      BY <3>2, <3>3
  <2>3. g = h
    <3>1. \A s \in SUBSET (1..n + 1) : g[s] = h[s]
      BY <2>2
    <3>2. g = [s \in SUBSET (1..n + 1) |-> g[s]] /\ h = [s \in SUBSET (1..n + 1) |-> h[s]]
      OBVIOUS
    <3> HIDE DEF g, h
    <3> QED
      BY <3>1, <3>2
  <2>4. Recurses(g, n + 1)
    BY <2>3
  <2> HIDE DEF Recurses
  <2> QED
    BY <2>4
<1>4. \E f : Recurses(f, Len(args))
  <2>1. Nat \subseteq defined
    <3> HIDE DEF defined
    <3> QED
      BY <1>2, <1>3, Induction
  <2> HIDE DEF Recurses
  <2> QED
    BY <1>1, <2>1
<1> DEFINE parse == CHOOSE f : Recurses(f, Len(args))
<1>5. Recurses(parse, Len(args))
  <2> HIDE DEF Recurses
  <2> QED
    BY <1>4
<1>6. ParseArgs(args) = parse[1..Len(args)]
  BY <1>1 DEF ParseArgs, FoldLeft, MapThenFoldSet
<1> HIDE DEF parse
<1>7. parse[{}] = NothingParsed
  BY <1>5
<1>8. ASSUME NEW k \in 0..Len(args) - 1
      PROVE  parse[1..k + 1] = ParseArg(parse[1..k], args[k + 1])
  <2>1. 1..k + 1 \subseteq 1..Len(args) /\ k + 1 \in 1..k + 1
    <3>1. k + 1 <= Len(args) /\ k \in Nat
      BY <1>1
    <3> QED
      BY <1>1, <3>1
  <2>2. Max(1..k + 1) = k + 1
    <3>1. 1..k + 1 = (1..k) \cup {k + 1} /\ k + 1 \in Nat \ {0} /\ 1..k \subseteq 1..k + 1
      OBVIOUS
    <3> QED
      BY <3>1, LastOfSet
  <2>3. (1..k + 1) \ {k + 1} = 1..k
    OBVIOUS
  <2> QED
    BY <1>5, <2>1, <2>2, <2>3
<1> QED
  BY <1>6, <1>7, <1>8

\* When parse_from accepts the arguments, it has for each option what the last of the
\* flags that name it says.
LEMMA Parsed ==
  ASSUME NEW s \in Starts, ArgumentsOK(s.args)
  PROVE  LET options == ParseArgs(s.args).options
         IN  /\ DOMAIN options = {o \in Options : FlagsFor(s.args, o) # {}}
             /\ \A o \in DOMAIN options :
                  options[o] = OnCommandLine(s.args, o) /\ options[o] # Absent
             /\ \A key : key \notin Options \cup {"help"} => FlagsFor(s.args, key) = {}
<1> DEFINE args == s.args
           n == Len(args)
<1>1. /\ n \in Nat /\ DOMAIN args = 1..n
      /\ \A i \in 1..n : args[i].flag # Absent \/ args[i].given # Absent
  BY ArgumentsAssumption DEF ArgumentsAssumption
<1>2. PICK parse :
        /\ parse[{}] = NothingParsed
        /\ \A k \in 0..n - 1 : parse[1..k + 1] = ParseArg(parse[1..k], args[k + 1])
        /\ ParseArgs(args) = parse[1..n]
  BY <1>1, ParseSteps
<1> HIDE DEF args
<1> HIDE DEF n
<1> DEFINE fits == {k \in Nat : k <= n => ParseFits(args, k, parse[1..k])}
<1>3. 0 \in fits
  <2>1. 1..0 = {}
    OBVIOUS
  <2>2. ~IsValue(args, 1)
    <3>1. 1 \in Nat \ {0}
      OBVIOUS
    <3> QED
      BY <3>1, ValueNext
  <2>3. \A o : SetBy(args, 0, o) = {}
    BY DEF SetBy
  <2>4. ParseFits(args, 0, NothingParsed)
    BY <2>2, <2>3 DEF ParseFits, NothingParsed, NoValues
  <2> QED
    BY <1>2, <2>1, <2>4
<1>4. ASSUME NEW k \in Nat, k \in fits PROVE k + 1 \in fits
  <2>1. CASE k + 1 <= n
    <3>1. k \in 0..n - 1 /\ ParseFits(args, k, parse[1..k])
      BY <1>1, <1>4, <2>1
    <3> QED
      BY <1>2, <3>1, ParseStep
  <2>2. CASE ~(k + 1 <= n)
    BY <2>2
  <2> QED
    BY <2>1, <2>2
<1>5. ParseFits(args, n, ParseArgs(args))
  <2>1. n \in fits
    <3> HIDE DEF fits
    <3> QED
      BY <1>1, <1>3, <1>4, Induction
  <2> QED
    BY <1>1, <1>2, <2>1
<1>6. ~ParseArgs(args).failed /\ ParseArgs(args).awaiting = Absent
  BY DEF ArgumentsOK, args
<1>7. ~IsValue(args, n + 1)
  BY <1>5, <1>6 DEF ParseFits
<1>8. \A o \in Options : FlagsFor(args, o) = SetBy(args, n, o)
  <2> SUFFICES ASSUME NEW o \in Options PROVE FlagsFor(args, o) = SetBy(args, n, o)
    OBVIOUS
  <2>1. ASSUME NEW i \in 1..n, args[i].flag = o, ~IsValue(args, i)
        PROVE  args[i].given # Absent \/ i < n
    <3> SUFFICES ASSUME args[i].given = Absent, i = n PROVE FALSE
      BY <1>1
    <3>1. n \in Nat \ {0} /\ WantsValue(args[n])
      BY <1>1, <2>1 DEF WantsValue
    <3> QED
      BY <1>7, <2>1, <3>1, ValueNext
  <2> QED
    BY <1>1, <2>1 DEF FlagsFor, SetBy
<1> DEFINE options == ParseArgs(args).options
<1>9. DOMAIN options = {o \in Options : FlagsFor(args, o) # {}}
  BY <1>5, <1>6, <1>8 DEF ParseFits
<1>10. ASSUME NEW o \in DOMAIN options
       PROVE  options[o] = OnCommandLine(args, o) /\ options[o] # Absent
  <2> DEFINE i == Max(SetBy(args, n, o))
  <2>1. o \in Options /\ SetBy(args, n, o) # {}
    BY <1>8, <1>9
  <2>2. options[o] = ValueAt(args, i)
    BY <1>5, <1>6 DEF ParseFits
  <2>3. OnCommandLine(args, o) = ValueAt(args, i)
    BY <1>8, <2>1 DEF OnCommandLine, ValueAt
  <2>4. i \in SetBy(args, n, o)
    <3>1. SetBy(args, n, o) \subseteq 0..n
      BY <1>1 DEF SetBy
    <3> QED
      BY <1>1, <2>1, <3>1, GreatestNumber
  <2> HIDE DEF i
  <2>5. i \in 1..n /\ (args[i].given # Absent \/ i + 1 \in 1..n)
    BY <1>1, <2>4 DEF SetBy
  <2>6. ValueAt(args, i) # Absent
    BY <1>1, <2>5, AbsentAssumption DEF AbsentAssumption, ValueAt, TextOf
  <2> QED
    BY <2>2, <2>3, <2>6
<1>11. ASSUME NEW key, key \notin Options \cup {"help"} PROVE FlagsFor(args, key) = {}
  BY <1>1, <1>5, <1>6, <1>11 DEF ParseFits, FlagsFor
<1> QED
  BY <1>9, <1>10, <1>11 DEF args

LEMMA KeysOfNoFlag == "config" \notin DOMAIN Defaults /\ "help" \notin DOMAIN Defaults
BY DEF Defaults, Over, ServerDefaults, IssuerDefaults, OauthDefaults, GatewayDefaults,
       AdminDefaults

\* The layers of load_config are the sources in their order of rank.
LEMMA LayersAreRanked ==
  ASSUME NEW s \in Starts, ArgumentsOK(s.args), NEW key \in DOMAIN Defaults
  PROVE  Effective(s)[key] = Expected(s, key)
<1> DEFINE options == ParseArgs(s.args).options
<1>1. /\ DOMAIN options = {o \in Options : FlagsFor(s.args, o) # {}}
      /\ \A o \in DOMAIN options :
           options[o] = OnCommandLine(s.args, o) /\ options[o] # Absent
      /\ \A k : k \notin Options \cup {"help"} => FlagsFor(s.args, k) = {}
  BY Parsed
<1>2. key # "config" /\ key # "help"
  BY KeysOfNoFlag
<1>3. key \in DOMAIN options <=> FlagsFor(s.args, key) # {}
  BY <1>1, <1>2
<1>4. FileValues(s) = SelectedFile(s)
  <2>1. "config" \in DOMAIN options <=> FlagsFor(s.args, "config") # {}
    BY <1>1 DEF Options
  <2>2. "config" \in DOMAIN options =>
          options["config"] = OnCommandLine(s.args, "config") /\ options["config"] # Absent
    BY <1>1
  <2>3. FilePath(s) = IF "config" \in DOMAIN options THEN options["config"]
                      ELSE IF s.config_var # Absent THEN s.config_var
                      ELSE IF DefaultPath \in DOMAIN s.files THEN DefaultPath ELSE Absent
    BY DEF FilePath
  <2> HIDE DEF options
  <2> QED
    BY <2>1, <2>2, <2>3, AbsentAssumption DEF FileValues, SelectedFile, AbsentAssumption
<1>5. /\ DOMAIN Overrides(s) = DOMAIN options \ {"config"}
      /\ \A k \in DOMAIN options \ {"config"} : Overrides(s)[k] = options[k]
  BY DEF Overrides
<1> HIDE DEF options
<1>6. Effective(s)[key] =
        IF key \in DOMAIN Overrides(s) THEN Overrides(s)[key]
        ELSE IF key \in DOMAIN s.env THEN s.env[key]
        ELSE IF key \in DOMAIN FileValues(s) THEN FileValues(s)[key] ELSE Defaults[key]
  BY DEF Effective, Over
<1> QED
  BY <1>1, <1>2, <1>3, <1>4, <1>5, <1>6 DEF Expected

-----------------------------------------------------------------------------
LEMMA RunMeansValid ==
  ASSUME NEW s \in Starts
  PROVE  Verdict(s) = "run" => ArgumentsOK(s.args) /\ ConfigFits(Effective(s))
<1>1. Verdict(s) = "run" =>
        ArgumentsOK(s.args) /\ WellTyped(Effective(s)) /\ ValidConfig(Effective(s))
  BY DEF Verdict
<1> QED
  BY <1>1, ListsAssumption DEF Verdict, ListsAssumption, ConfigFits

\* A request reaches an admin handler only if bind_host names this machine.
LEMMA AdminNeedsLoopback ==
  ASSUME NEW c, NEW asked, Target(c, asked).handler \in AdminHandlers
  PROVE  c.bind_host \in LoopbackNames
<1> DEFINE here == {e \in Mounted(c) : Serves(e, asked.path)}
           chosen == CHOOSE e \in here : e.method = asked.method
<1>1. HandlerOf(c, asked.method, asked.path) \in AdminHandlers
  BY DEF Target, AdminHandlers
<1>2. (\E e \in here : e.method = asked.method)
        /\ HandlerOf(c, asked.method, asked.path) = chosen.handler
  BY <1>1 DEF HandlerOf, AdminHandlers
<1>3. chosen \in Mounted(c) /\ chosen.handler \in AdminHandlers
  <2>1. chosen \in here
    <3> HIDE DEF here
    <3> QED
      BY <1>2
  <2> HIDE DEF chosen
  <2> QED
    BY <1>1, <1>2, <2>1
<1> HIDE DEF chosen
<1>4. \A e \in BuiltIns \cup {Health} \cup Registration : e.handler \notin AdminHandlers
  BY DEF BuiltIns, Health, Registration, Endpoint, EndpointWithParam, AdminHandlers
<1>5. chosen \in AdminRoutes(c)
  BY <1>3, <1>4 DEF Mounted
<1> QED
  BY <1>5 DEF AdminRoutes

LEMMA ThirdSlash ==
  ASSUME NEW name, <<Slash, name>> \in ReservedPrefixes,
         NEW p \in Path, 3 \in 1..Len(p), p[1] = Slash, p[2] = name, p[3] = Slash
  PROVE  \E reserved \in ReservedPrefixes : Matches(reserved, p)
<1> DEFINE start == SubSeq(p, 1, 2)
<1>1. Len(p) \in Nat
  BY DEF Path
<1>2. start = <<Slash, name>>
  <2>1. start \in Seq(STRING) /\ Len(start) = 2 /\ start[1] = Slash /\ start[2] = name
    BY <1>1 DEF Path
  <2> DEFINE two == <<Slash, name>>
  <2>2. two \in Seq({Slash, name}) /\ Len(two) = 2 /\ two[1] = Slash /\ two[2] = name
    OBVIOUS
  <2> HIDE DEF start, two
  <2>3. start = two
    BY <2>1, <2>2
  <2> QED
    BY <2>3 DEF two
<1>3. IsPrefix(<<Slash, name>>, p)
  <2>1. SubSeq(<<Slash, name>>, 1, 2) = <<Slash, name>> /\ Len(<<Slash, name>>) = 2
    <3> DEFINE two == <<Slash, name>>
    <3>1. two \in Seq({Slash, name}) /\ Len(two) = 2
      OBVIOUS
    <3> HIDE DEF two
    <3>2. SubSeq(two, 1, 2) = two
      BY <3>1
    <3> QED
      BY <3>1, <3>2 DEF two
  <2> QED
    BY <1>1, <1>2, <2>1 DEF IsPrefix
<1>4. <<Slash, name>> # p
  OBVIOUS
<1>5. Matches(<<Slash, name>>, p)
  BY <1>3, <1>4 DEF Matches, IsStrictPrefix
<1> QED
  BY <1>5

\* Every path of the server lies below a reserved prefix.
LEMMA EndpointsReserved ==
  ASSUME NEW e \in AllEndpoints, NEW p \in Path, Serves(e, p)
  PROVE  \E reserved \in ReservedPrefixes : Matches(reserved, p)
<1> DEFINE names == {"health", "authorize", "token", "introspect", "revoke", "userinfo",
                     "error", "register", ".well-known", "device", "admin"}
           register == Endpoint(<<Slash, "register">>, "POST", "register_client_proxy")
           client == EndpointWithParam(<<Slash, "register", Slash>>, "GET", "get_client_proxy")
<1>1. CASE e # client
  <2>1. /\ e.param = FALSE /\ e.path[2] \in names
        /\ \/ e.path = <<Slash, e.path[2]>>
           \/ e.path = <<Slash, e.path[2], Slash, e.path[4]>>
    <3>1. CASE e \in BuiltIns
      BY <3>1 DEF BuiltIns, Endpoint
    <3>2. CASE e \in {Health, ListClients, ResetState, CurrentConfig}
      BY <3>2 DEF Health, ListClients, ResetState, CurrentConfig, Endpoint
    <3>3. CASE e \in Registration
      <4>1. e = register
        BY <1>1, <3>3 DEF Registration
      <4> QED
        BY <4>1 DEF Endpoint
    <3> QED
      BY <3>1, <3>2, <3>3 DEF AllEndpoints
  <2>2. p = e.path
    BY <2>1 DEF Serves
  <2>3. <<Slash, e.path[2]>> \in ReservedPrefixes
    <3> DEFINE name == e.path[2]
    <3> HIDE DEF name
    <3>1. name \in names => <<Slash, name>> \in ReservedPrefixes
      BY DEF ReservedPrefixes
    <3> QED
      BY <2>1, <3>1 DEF name
  <2>4. CASE e.path = <<Slash, e.path[2]>>
    BY <2>2, <2>3, <2>4 DEF Matches
  <2>5. CASE e.path = <<Slash, e.path[2], Slash, e.path[4]>>
    <3>1. 3 \in 1..Len(p) /\ p[1] = Slash /\ p[2] = e.path[2] /\ p[3] = Slash
      BY <2>2, <2>5
    <3> QED
      BY <2>3, <3>1, ThirdSlash
  <2> QED
    BY <2>1, <2>4, <2>5
<1>2. CASE e = client
  <2>1. e.path = <<Slash, "register", Slash>> /\ e.param = TRUE
    BY <1>2 DEF EndpointWithParam
  <2>2. IsPrefix(<<Slash, "register", Slash>>, p)
    BY <2>1 DEF Serves, IsStrictPrefix
  <2>3. 3 \in 1..Len(p) /\ p[1] = Slash /\ p[2] = "register" /\ p[3] = Slash
    BY <2>2 DEF IsPrefix, Path
  <2>4. <<Slash, "register">> \in ReservedPrefixes
    BY DEF ReservedPrefixes
  <2> QED
    BY <2>3, <2>4, ThirdSlash
<1> QED
  BY <1>1, <1>2

\* A path of the server is never given to the gateway's upstreams.
LEMMA BuiltInsKept ==
  ASSUME NEW c, ConfigFits(c), NEW asked \in Calls, Target(c, asked).route # Nowhere,
         NEW e \in AllEndpoints
  PROVE  ~Serves(e, asked.path)
<1>1. asked.path \in Path
  BY CallsAssumption DEF CallsAssumption
<1>2. FindRoute(c.routes, asked.path) # Nowhere
  BY DEF Target
<1>3. PICK i \in DOMAIN c.routes : Matches(c.routes[i].prefix, asked.path)
  BY <1>1, <1>2, FoundMatches DEF ConfigFits
<1>4. c.routes[i].prefix \in Path /\ ValidPrefix(c.routes[i].prefix)
  BY DEF ConfigFits, ValidConfig, ValidGateway, ValidRoute
<1>5. \A reserved \in ReservedPrefixes : ~Matches(reserved, asked.path)
  BY <1>1, <1>3, <1>4, ReservedNeverMatched
<1> QED
  BY <1>1, <1>5, EndpointsReserved

-----------------------------------------------------------------------------
LEMMA ServerInit ==
  ASSUME Init
  PROVE  ServerInv
<1>1. ProcessFits
  BY StartsAssumption DEF Init, ProcessFits, Phases, StartsAssumption
<1>2. RequestsFit
  BY DEF Init, RequestsFit, Open
<1> QED
  BY <1>1, <1>2 DEF ServerInv

\* The end of a process, for whatever reason, leaves nothing of it.
LEMMA ProcessEnds ==
  ASSUME ServerInv, NEW how, NoProcess(how), starts' \in 0..MaxStarts
  PROVE  ProcessFits'
BY DEF ServerInv, ProcessFits, NoProcess, Phases

\* Closing connections, all of them when the process ends.
LEMMA ClosedFit ==
  ASSUME ServerInv, NEW rs \in SUBSET Requests, Close(rs),
         \/ phase' = "down" /\ rs = {r \in Requests : pc[r] \in Open}
         \/ phase' = "stopping" /\ config' = config
  PROVE  RequestsFit'
<1>1. pc' \in [Requests -> Open \cup {"idle", "answered", "reset"}]
  BY DEF ServerInv, RequestsFit, Close
<1>2. call' \in [Requests -> Calls \cup {Absent}] /\ DOMAIN target' = Requests
  BY DEF ServerInv, RequestsFit, Close
<1>3. ASSUME NEW r \in Requests
      PROVE  /\ pc'[r] \in Open => phase' \notin {"down", "binding"} /\ call'[r] \in Calls
             /\ pc'[r] \notin Open => call'[r] = Absent
             /\ pc'[r] \in {"accepted", "received", "handling"} => phase' \in {"serving", "waiting", "stopping"}
             /\ pc'[r] = "handling" => target'[r] = Target(config', call'[r])
  <2>1. CASE r \in rs
    <3>1. pc'[r] = "reset" /\ call'[r] = Absent
      BY <2>1 DEF Close
    <3> QED
      BY <3>1 DEF Open
  <2>2. CASE r \notin rs
    <3>1. pc'[r] = pc[r] /\ call'[r] = call[r] /\ target'[r] = target[r]
      BY <2>2 DEF Close
    <3>2. pc[r] \in Open => phase' = "stopping" /\ config' = config
      BY <2>2
    <3>3. pc[r] \in {"accepted", "received", "handling"} => pc[r] \in Open
      BY DEF Open
    <3>4. /\ pc[r] \in Open => call[r] \in Calls
          /\ pc[r] \notin Open => call[r] = Absent
          /\ pc[r] = "handling" => target[r] = Target(config, call[r])
      BY DEF ServerInv, RequestsFit
    <3> QED
      BY <3>1, <3>2, <3>3, <3>4
  <2> QED
    BY <2>1, <2>2
<1> QED
  BY <1>1, <1>2, <1>3 DEF RequestsFit

LEMMA LaunchKeeps ==
  ASSUME ServerInv, NEW s \in Starts, Launch(s)
  PROVE  ServerInv'
<1>1. phase = "down" /\ starts' = starts + 1 /\ starts' \in 0..MaxStarts
  BY StartsAssumption DEF ServerInv, ProcessFits, Launch, StartsAssumption
<1>2. ProcessFits'
  <2>1. CASE Verdict(s) = "run"
    <3>1. /\ phase' = "binding" /\ sources' = s /\ config' = Effective(s) /\ exit' = exit
          /\ seeded' = seeded /\ store' = store
      BY <2>1 DEF Launch
    <3>2. ArgumentsOK(s.args) /\ ConfigFits(config')
      BY <2>1, <3>1, RunMeansValid
    <3>3. seeded' = 0
      BY <1>1, <3>1 DEF ServerInv, ProcessFits
    <3>4. Len(config'.clients) \in Nat
      BY <3>2 DEF ConfigFits
    <3> QED
      BY <1>1, <3>1, <3>2, <3>3, <3>4 DEF ProcessFits, Phases
  <2>2. CASE Verdict(s) # "run"
    <3>1. NoProcess(Verdict(s))
      BY <2>2 DEF Launch
    <3> QED
      BY <1>1, <3>1, ProcessEnds
  <2> QED
    BY <2>1, <2>2
<1>3. RequestsFit'
  <2>1. pc' = pc /\ call' = call /\ target' = target
    BY DEF Launch, requests
  <2>2. \A r \in Requests : pc[r] \notin Open
    BY <1>1 DEF ServerInv, RequestsFit
  <2>3. {"accepted", "received", "handling"} \subseteq Open
    BY DEF Open
  <2> QED
    BY <2>1, <2>2, <2>3 DEF ServerInv, RequestsFit
<1> QED
  BY <1>2, <1>3 DEF ServerInv

LEMMA BindKeeps ==
  ASSUME ServerInv, Bind
  PROVE  ServerInv'
<1>1. /\ phase = "binding" /\ phase' = "seeding"
      /\ config' = config /\ sources' = sources
      /\ exit' = exit /\ seeded' = seeded /\ store' = store
      /\ starts' = starts /\ pc' = pc /\ call' = call /\ target' = target
  BY DEF Bind, requests
<1>2. PICK address \in Addresses[config.bind_host],
           port \in IF config.bind_port = 0 THEN FreePorts ELSE {config.bind_port} :
        addr' = [address |-> address, port |-> port] /\ issuer' = Issuer(config, port)
  BY DEF Bind
<1>3. port # 0
  BY PortsAssumption DEF PortsAssumption
<1>4. /\ addr'.address \in Addresses[config.bind_host]
      /\ addr'.port # 0 /\ issuer'.port = addr'.port
  BY <1>2, <1>3 DEF Issuer
<1>5. ProcessFits'
  BY <1>1, <1>4 DEF ServerInv, ProcessFits, Phases
<1>6. RequestsFit'
  <2>1. \A r \in Requests : pc[r] \notin Open
    BY <1>1 DEF ServerInv, RequestsFit
  <2>2. {"accepted", "received", "handling"} \subseteq Open
    BY DEF Open
  <2> QED
    BY <1>1, <2>1, <2>2 DEF ServerInv, RequestsFit
<1> QED
  BY <1>5, <1>6 DEF ServerInv

LEMMA FailBindKeeps ==
  ASSUME ServerInv, FailBind
  PROVE  ServerInv'
<1>1. ProcessFits'
  <2>1. starts' = starts /\ NoProcess("io_error")
    BY DEF FailBind
  <2> QED
    BY <2>1, ProcessEnds DEF ServerInv, ProcessFits
<1>2. RequestsFit'
  <2>1. pc' = pc /\ call' = call /\ target' = target
    BY DEF FailBind, requests
  <2>2. \A r \in Requests : pc[r] \notin Open
    BY DEF ServerInv, RequestsFit, FailBind
  <2>3. {"accepted", "received", "handling"} \subseteq Open
    BY DEF Open
  <2> QED
    BY <2>1, <2>2, <2>3 DEF ServerInv, RequestsFit
<1> QED
  BY <1>1, <1>2 DEF ServerInv

LEMMA SeedClientKeeps ==
  ASSUME ServerInv, SeedClient
  PROVE  ServerInv'
<1>1. /\ phase = "seeding" /\ phase' = phase /\ config' = config /\ sources' = sources
      /\ exit' = exit
      /\ seeded < Len(config.clients) /\ seeded' = seeded + 1
      /\ addr' = addr /\ issuer' = issuer /\ starts' = starts
      /\ pc' = pc /\ call' = call /\ target' = target
  BY DEF SeedClient, requests
<1>2. seeded \in Nat /\ Len(config.clients) \in Nat
  BY <1>1 DEF ServerInv, ProcessFits, ConfigFits
<1>3. \A i \in 1..seeded' : config.clients[i].enabled => config.clients[i].id \in store'
  <2> SUFFICES ASSUME NEW i \in 1..seeded', config.clients[i].enabled
               PROVE  config.clients[i].id \in store'
    OBVIOUS
  <2>1. store \subseteq store'
    BY DEF SeedClient
  <2>2. CASE i \in 1..seeded
    BY <1>1, <2>1, <2>2 DEF ServerInv, ProcessFits
  <2>3. CASE i = seeded + 1
    BY <2>3 DEF SeedClient
  <2>4. i \in 1..seeded \/ i = seeded + 1
    BY <1>1, <1>2
  <2> QED
    BY <2>2, <2>3, <2>4
<1>4. ProcessFits'
  BY <1>1, <1>2, <1>3 DEF ServerInv, ProcessFits
<1>5. RequestsFit'
  BY <1>1 DEF ServerInv, RequestsFit
<1> QED
  BY <1>4, <1>5 DEF ServerInv

LEMMA ServeKeeps ==
  ASSUME ServerInv, Serve
  PROVE  ServerInv'
<1>1. phase = "seeding" /\ seeded = Len(config.clients)
  BY DEF Serve
<1>2. /\ phase' = "serving" /\ config' = config /\ sources' = sources
      /\ exit' = exit
      /\ seeded' = seeded /\ store' = store /\ addr' = addr /\ issuer' = issuer
      /\ starts' = starts /\ pc' = pc /\ call' = call /\ target' = target
  BY DEF Serve, requests
<1>3. ProcessFits'
  BY <1>1, <1>2 DEF ServerInv, ProcessFits, Phases
<1>4. RequestsFit'
  BY <1>1, <1>2 DEF ServerInv, RequestsFit
<1> QED
  BY <1>3, <1>4 DEF ServerInv

LEMMA AwaitSignalKeeps ==
  ASSUME ServerInv, AwaitSignal
  PROVE  ServerInv'
<1>1. /\ phase = "serving" /\ phase' = "waiting" /\ config' = config /\ sources' = sources
      /\ exit' = exit
      /\ seeded' = seeded /\ store' = store /\ addr' = addr /\ issuer' = issuer
      /\ starts' = starts /\ pc' = pc /\ call' = call /\ target' = target
  BY DEF AwaitSignal, requests
<1>2. ProcessFits'
  BY <1>1 DEF ServerInv, ProcessFits, Phases
<1>3. RequestsFit'
  BY <1>1 DEF ServerInv, RequestsFit
<1> QED
  BY <1>2, <1>3 DEF ServerInv

LEMMA StopKeeps ==
  ASSUME ServerInv, Stop
  PROVE  ServerInv'
<1>1. /\ phase = "waiting" /\ phase' = "stopping" /\ config' = config /\ sources' = sources
      /\ exit' = exit
      /\ seeded' = seeded /\ store' = store /\ addr' = addr /\ issuer' = issuer
      /\ starts' = starts /\ Close({r \in Requests : pc[r] = "queued"})
  BY DEF Stop
<1>2. ProcessFits'
  BY <1>1 DEF ServerInv, ProcessFits, Phases
<1>3. RequestsFit'
  BY <1>1, ClosedFit
<1> QED
  BY <1>2, <1>3 DEF ServerInv

\* Finish and Kill, and the failures of a start that is bound
LEMMA EndKeeps ==
  ASSUME ServerInv, NEW how, NoProcess(how), CloseAll, UNCHANGED starts
  PROVE  ServerInv'
<1>1. starts' \in 0..MaxStarts
  BY DEF ServerInv, ProcessFits
<1>2. ProcessFits'
  BY <1>1, ProcessEnds
<1>3. RequestsFit'
  BY ClosedFit DEF NoProcess, CloseAll
<1> QED
  BY <1>2, <1>3 DEF ServerInv

LEMMA RequestKeeps ==
  ASSUME ServerInv, NEW r \in Requests,
         (\E asked \in Calls : Connect(r, asked)) \/ Receive(r) \/ Handle(r)
  PROVE  ServerInv'
<1>1. /\ phase' = phase /\ config' = config /\ sources' = sources
      /\ exit' = exit /\ seeded' = seeded
      /\ store' = store /\ addr' = addr /\ issuer' = issuer /\ starts' = starts
  BY DEF Connect, Receive, Handle, Accept, Dispatch, Answer, process
<1>2. ProcessFits'
  BY <1>1 DEF ServerInv, ProcessFits
<1>3. CASE \E asked \in Calls : Connect(r, asked)
  <2>1. PICK asked \in Calls : Connect(r, asked)
    BY <1>3
  <2>2. /\ phase \notin {"down", "binding"} /\ target' = target
        /\ pc' = [pc EXCEPT ![r] = "queued"] /\ call' = [call EXCEPT ![r] = asked]
    BY <2>1 DEF Connect, Listening
  <2>3. RequestsFit'
    BY <1>1, <2>2 DEF ServerInv, RequestsFit, Open
  <2> QED
    BY <1>2, <2>3 DEF ServerInv
<1>4. CASE Accept(r)
  <2>1. /\ pc[r] = "queued" /\ phase \in {"serving", "waiting"}
        /\ pc' = [pc EXCEPT ![r] = "accepted"] /\ call' = call /\ target' = target
    BY <1>4 DEF Accept
  <2>2. RequestsFit'
    BY <1>1, <2>1 DEF ServerInv, RequestsFit, Open
  <2> QED
    BY <1>2, <2>2 DEF ServerInv
<1>5. CASE Receive(r)
  <2>1. /\ pc[r] = "accepted" /\ pc' = [pc EXCEPT ![r] = "received"]
        /\ call' = call /\ target' = target
    BY <1>5 DEF Receive
  <2>2. RequestsFit'
    BY <1>1, <2>1 DEF ServerInv, RequestsFit, Open
  <2> QED
    BY <1>2, <2>2 DEF ServerInv
<1>6. CASE Dispatch(r)
  <2>1. /\ pc[r] = "received" /\ pc' = [pc EXCEPT ![r] = "handling"] /\ call' = call
        /\ target' = [target EXCEPT ![r] = Target(config, call[r])]
    BY <1>6 DEF Dispatch
  <2>2. RequestsFit'
    BY <1>1, <2>1 DEF ServerInv, RequestsFit, Open
  <2> QED
    BY <1>2, <2>2 DEF ServerInv
<1>7. CASE Answer(r)
  <2>1. PICK how \in {"answered", "reset"} :
          /\ pc' = [pc EXCEPT ![r] = how] /\ call' = [call EXCEPT ![r] = Absent]
          /\ target' = [target EXCEPT ![r] = Absent]
    BY <1>7 DEF Answer
  <2>2. RequestsFit'
    BY <1>1, <2>1 DEF ServerInv, RequestsFit, Open
  <2> QED
    BY <1>2, <2>2 DEF ServerInv
<1> QED
  BY <1>3, <1>4, <1>5, <1>6, <1>7 DEF Handle

LEMMA ServerStutter ==
  ASSUME ServerInv, UNCHANGED vars
  PROVE  ServerInv'
BY DEF vars, process, requests, ServerInv, ProcessFits, RequestsFit

LEMMA ServerInvariant == Spec => []ServerInv
<1>1. ServerInv /\ [Next]_vars => ServerInv'
  <2> SUFFICES ASSUME ServerInv, [Next]_vars
               PROVE  ServerInv'
    OBVIOUS
  <2>1. CASE \E s \in Starts : Launch(s)
    BY <2>1, LaunchKeeps
  <2>2. CASE StartUp
    BY <2>2, BindKeeps, FailBindKeeps, SeedClientKeeps, ServeKeeps, AwaitSignalKeeps,
       EndKeeps DEF StartUp, FailRuntime, PanicOnWildcard, FailSignal
  <2>3. CASE Stop
    BY <2>3, StopKeeps
  <2>4. CASE Finish
    BY <2>4, EndKeeps DEF Finish
  <2>5. CASE Kill
    BY <2>5, EndKeeps DEF Kill
  <2>6. CASE Rest
    BY <2>6, ServerStutter DEF Rest
  <2>7. CASE \E r \in Requests :
              (\E asked \in Calls : Connect(r, asked)) \/ Receive(r) \/ Handle(r)
    BY <2>7, RequestKeeps
  <2>8. CASE UNCHANGED vars
    BY <2>8, ServerStutter
  <2> QED
    BY <2>1, <2>2, <2>3, <2>4, <2>5, <2>6, <2>7, <2>8 DEF Next
<1> QED
  BY ServerInit, <1>1, PTL DEF Spec

-----------------------------------------------------------------------------
\* A process that is up has a validated configuration; once it is bound, its address
\* is one of bind_host and the issuer has its port; no connection outlives a process.
THEOREM TypeInvariant == Spec => []TypeOK
<1>1. ServerInv => TypeOK
  <2> SUFFICES ASSUME ServerInv PROVE TypeOK
    OBVIOUS
  <2>1. \A r \in Requests :
          IF pc[r] \in Open THEN phase # "down" /\ call[r] \in Calls ELSE call[r] = Absent
    BY DEF ServerInv, RequestsFit
  <2> QED
    BY <2>1 DEF ServerInv, ProcessFits, RequestsFit, ConfigFits, TypeOK
<1> QED
  BY ServerInvariant, <1>1, PTL

\* Admin handlers run only in processes bound to an address that no other machine
\* reaches, whatever sources bind_host and the flags come from.
THEOREM AdminStaysLocal == Spec => []AdminOnlyOnLoopback
<1>1. ServerInv => AdminOnlyOnLoopback
  <2> SUFFICES ASSUME ServerInv, NEW r \in Requests, Handling(r),
                      target[r].handler \in AdminHandlers
               PROVE  addr.address \in Loopback
    BY DEF AdminOnlyOnLoopback
  <2>1. target[r] = Target(config, call[r]) /\ phase \notin {"down", "binding"}
    BY DEF ServerInv, RequestsFit, Handling
  <2>2. config.bind_host \in LoopbackNames
    BY <2>1, AdminNeedsLoopback
  <2>3. addr.address \in Addresses[config.bind_host]
    BY <2>1 DEF ServerInv, ProcessFits
  <2> QED
    BY <2>2, <2>3, LoopbackAssumption DEF LoopbackAssumption
<1> QED
  BY ServerInvariant, <1>1, PTL

\* However the gateway is configured, no path that the server answers itself, be its
\* endpoint on or off, reaches an upstream.
THEOREM BuiltInsStayHome == Spec => []BuiltInsNeverProxied
<1>1. ServerInv => BuiltInsNeverProxied
  <2> SUFFICES ASSUME ServerInv, NEW r \in Requests, Handling(r),
                      target[r].route # Nowhere, NEW e \in AllEndpoints
               PROVE  ~Serves(e, call[r].path)
    BY DEF BuiltInsNeverProxied
  <2>1. /\ target[r] = Target(config, call[r]) /\ call[r] \in Calls
        /\ phase \notin {"down", "binding"}
    BY DEF ServerInv, RequestsFit, Handling, Open
  <2>2. ConfigFits(config)
    BY <2>1 DEF ServerInv, ProcessFits
  <2> QED
    BY <2>1, <2>2, BuiltInsKept
<1> QED
  BY ServerInvariant, <1>1, PTL

\* No request is handled before every configured client is in the store and the
\* configuration validated, at whatever moment of the start its connection was taken.
THEOREM ReadyFirst == Spec => []ReadyBeforeHandling
<1>1. ServerInv => ReadyBeforeHandling
  <2> SUFFICES ASSUME ServerInv, NEW r \in Requests, Handling(r)
               PROVE  /\ ValidConfig(config) /\ WellTyped(config)
                      /\ {config.clients[i].id :
                            i \in {i \in DOMAIN config.clients : config.clients[i].enabled}}
                           \subseteq store
    BY DEF ReadyBeforeHandling
  <2>1. phase \in {"serving", "waiting", "stopping"}
    BY DEF ServerInv, RequestsFit, Handling
  <2>2. ConfigFits(config) /\ seeded = Len(config.clients)
    BY <2>1 DEF ServerInv, ProcessFits
  <2>3. \A i \in 1..Len(config.clients) :
          config.clients[i].enabled => config.clients[i].id \in store
    BY <2>1, <2>2 DEF ServerInv, ProcessFits
  <2>4. DOMAIN config.clients = 1..Len(config.clients)
    BY <2>2 DEF ConfigFits
  <2> QED
    BY <2>2, <2>3, <2>4 DEF ConfigFits
<1> QED
  BY ServerInvariant, <1>1, PTL

\* However a section of the configuration is spread over file, environment and command
\* line, and however often a flag is given, the process runs with what the source of
\* highest rank says of each key.
THEOREM SourcesRank == Spec => []HighestSourceWins
<1>1. ServerInv => HighestSourceWins
  BY LayersAreRanked DEF ServerInv, ProcessFits, HighestSourceWins
<1> QED
  BY ServerInvariant, <1>1, PTL
===============================================================================
