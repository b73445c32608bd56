-------------------------- MODULE SeededStoresProofs --------------------------
(***************************************************************************)
(* What TLAPS proves of SeededStores, for any number of callers, tables,   *)
(* calls and crashes.                                                      *)
(***************************************************************************)
EXTENDS SeededStores, TLAPS

\* A call's record stays one when one of its fields is set.
LEMMA CallFields ==
  ASSUME NEW r \in Calls
  PROVE  /\ \A a \in Busy \cup Ended : [r EXCEPT !.at = a] \in Calls
         /\ \A a \in Busy \cup Ended, b \in BOOLEAN :
              [r EXCEPT !.at = a, !.is_new = b] \in Calls
         /\ \A n \in 1..LastTable : [r EXCEPT !.next = n] \in Calls
BY DEF Calls

LEMMA IdleType == Idle \in Calls
BY SchemaAssumption DEF Idle, Calls, Ended, Busy, Stores

LEMMA AnswerType == ASSUME NEW c PROVE Answers(c) \subseteq Ended
BY DEF Answers, Ended

\* Moving one call on keeps all of them well typed.
LEMMA GoesType ==
  ASSUME NEW c \in Callers, call \in [Callers -> Calls], NEW from, NEW to \in Busy \cup Ended,
         Goes(c, from, to)
  PROVE  call' \in [Callers -> Calls]
<1>1. [call[c] EXCEPT !.at = to] \in Calls
  BY CallFields
<1>2. QED
  BY <1>1 DEF Goes

\* Every step leaves the stores and the calls in states they can be in.
THEOREM TypeCorrect == Spec => []TypeOK
<1> USE DEF TypeOK, disk, observed
<1>1. ASSUME Init PROVE TypeOK
  <2>1. call \in [Callers -> Calls]
    BY <1>1, IdleType DEF Init
  <2>2. tables \in 0..LastTable /\ calls \in 0..MaxCalls /\ crashes \in 0..MaxCrashes
    BY <1>1, SchemaAssumption, BoundAssumption DEF Init
  <2>3. QED
    BY <1>1, <2>1, <2>2 DEF Init
<1>2. TypeOK /\ [Next]_vars => TypeOK'
  <2> SUFFICES ASSUME TypeOK, [Next]_vars PROVE TypeOK'
    OBVIOUS
  <2>1. ASSUME NEW c \in Callers, NEW s \in Stores, NEW t \in 1..LastTable, Begin(c, s, t)
        PROVE  TypeOK'
    <3> DEFINE a == IF s \in cached THEN "ready"
                    ELSE IF s = "mock_database" THEN "check" ELSE "count"
    <3>1. [Idle EXCEPT !.store = s, !.table = t, !.at = a] \in Calls
      BY IdleType DEF Calls, Busy
    <3>2. call' \in [Callers -> Calls]
      BY <2>1, <3>1 DEF Begin
    <3>3. QED
      BY <2>1, <3>2, BoundAssumption DEF Begin
  <2>2. ASSUME NEW c \in Callers, CheckFile(c) PROVE TypeOK'
    <3>1. [call[c] EXCEPT !.at = "connect", !.is_new = ~exists] \in Calls
      BY CallFields DEF Busy
    <3>2. QED
      BY <2>2, <3>1 DEF CheckFile
  <2>3. ASSUME NEW c \in Callers, Connect(c) PROVE TypeOK'
    BY <2>3, GoesType DEF Connect, Busy, Stores
  <2>4. ASSUME NEW c \in Callers, CreateTable(c) PROVE TypeOK'
    <3>1. call[c].next \in 1..LastTable
      BY DEF Calls
    <3>2. call' \in [Callers -> Calls]
      <4>1. CASE call[c].next <= tables \/ call[c].next = LastTable
        BY <2>4, <4>1, GoesType DEF CreateTable, Busy, Ended
      <4>2. CASE ~(call[c].next <= tables) /\ call[c].next # LastTable
        <5>1. call[c].next + 1 \in 1..LastTable
          BY <3>1, <4>2, SchemaAssumption
        <5>2. [call[c] EXCEPT !.next = call[c].next + 1] \in Calls
          BY <5>1, CallFields
        <5>3. QED
          BY <2>4, <4>2, <5>2 DEF CreateTable
      <4>3. QED
        BY <4>1, <4>2
    <3>3. tables' \in 0..LastTable
      BY <2>4, <3>1, SchemaAssumption DEF CreateTable
    <3>4. QED
      BY <2>4, <3>2, <3>3 DEF CreateTable
  <2>5. ASSUME NEW c \in Callers, InsertRows(c) PROVE TypeOK'
    BY <2>5, GoesType DEF InsertRows, Busy, Stores
  <2>6. ASSUME NEW c \in Callers, CountDocuments(c) PROVE TypeOK'
    BY <2>6, GoesType DEF CountDocuments, Busy, Ended, Stores
  <2>7. ASSUME NEW c \in Callers, UpsertCorpus(c) PROVE TypeOK'
    BY <2>7, GoesType DEF UpsertCorpus, Busy, Ended, Stores
  <2>8. ASSUME NEW c \in Callers, Query(c) PROVE TypeOK'
    BY <2>8, GoesType, AnswerType DEF Query
  <2>9. CASE Crash
    BY <2>9, IdleType, BoundAssumption DEF Crash
  <2>10. CASE UNCHANGED vars
    BY <2>10 DEF vars
  <2>11. QED
    BY <2>1, <2>2, <2>3, <2>4, <2>5, <2>6, <2>7, <2>8, <2>9, <2>10 DEF Next, Serve
<1>3. QED
  BY <1>1, <1>2, PTL DEF Spec

-----------------------------------------------------------------------------
(***************************************************************************)
(* The seed rows.  Creating the first table claims the seeding: whoever    *)
(* else believes the file to be new fails on that table.  The claim is     *)
(* unique, knows how far the script has come, and precedes the rows.  A    *)
(* caller that has not begun the script will begin with its first table.   *)
(***************************************************************************)
Claims(c) == call[c].at = "insert" \/ (call[c].at = "create" /\ call[c].next > 1)

SeedInv ==
  /\ seeds \in {0, 1}
  /\ seeds = 1 => tables = LastTable
  /\ \A c \in Callers : Claims(c) =>
       /\ seeds = 0 /\ tables > 0
       /\ call[c].at = "create" => call[c].next = tables + 1
       /\ call[c].at = "insert" => tables = LastTable
  /\ \A c, d \in Callers : Claims(c) /\ Claims(d) => c = d
  /\ \A c \in Callers : call[c].at \in {"check", "connect"} => call[c].next = 1

\* A step that gives nobody a claim, and touches neither the rows nor the tables,
\* cannot hurt.
LEMMA NoNewClaim ==
  ASSUME SeedInv, UNCHANGED <<tables, seeds>>,
         \A c \in Callers :
           Claims(c)' => Claims(c) /\ call'[c].at = call[c].at /\ call'[c].next = call[c].next,
         \A c \in Callers : call'[c].at \in {"check", "connect"} => call'[c].next = 1
  PROVE  SeedInv'
BY DEF SeedInv, Claims

LEMMA StepSeed == TypeOK /\ SeedInv /\ [Next]_vars => SeedInv'
<1> SUFFICES ASSUME TypeOK, SeedInv, [Next]_vars PROVE SeedInv'
  OBVIOUS
<1> USE DEF disk, observed
<1>1. ASSUME NEW c \in Callers, NEW s \in Stores, NEW t \in 1..LastTable, Begin(c, s, t)
      PROVE  SeedInv'
  <2>1. call'[c].at \in {"ready", "check", "count"}
    BY <1>1 DEF Begin, TypeOK, Idle
  <2>2. QED
    BY <1>1, <2>1, NoNewClaim DEF SeedInv, Begin, TypeOK, Claims, Idle
<1>2. ASSUME NEW c \in Callers, CheckFile(c) PROVE SeedInv'
  BY <1>2, NoNewClaim DEF SeedInv, CheckFile, TypeOK, Calls, Claims
<1>3. ASSUME NEW c \in Callers, Connect(c) PROVE SeedInv'
  BY <1>3, NoNewClaim DEF SeedInv, Connect, Goes, TypeOK, Calls, Claims
<1>4. ASSUME NEW c \in Callers, CreateTable(c) PROVE SeedInv'
  BY <1>4 DEF CreateTable, Goes, TypeOK, Calls, Claims, SeedInv
<1>5. ASSUME NEW c \in Callers, InsertRows(c) PROVE SeedInv'
  BY <1>5 DEF InsertRows, Goes, TypeOK, Calls, Claims, SeedInv
<1>6. ASSUME NEW c \in Callers, CountDocuments(c) PROVE SeedInv'
  BY <1>6, NoNewClaim DEF SeedInv, CountDocuments, Goes, TypeOK, Calls, Claims
<1>7. ASSUME NEW c \in Callers, UpsertCorpus(c) PROVE SeedInv'
  BY <1>7, NoNewClaim DEF SeedInv, UpsertCorpus, Goes, TypeOK, Calls, Claims
<1>8. ASSUME NEW c \in Callers, Query(c) PROVE SeedInv'
  BY <1>8, NoNewClaim, AnswerType DEF SeedInv, Query, Goes, TypeOK, Calls, Claims, Ended
<1>9. CASE Crash
  BY <1>9, NoNewClaim DEF Crash, Claims, Idle
<1>10. CASE UNCHANGED vars
  BY <1>10, NoNewClaim DEF SeedInv, vars, Claims
<1>11. QED
  BY <1>1, <1>2, <1>3, <1>4, <1>5, <1>6, <1>7, <1>8, <1>9, <1>10 DEF Next, Serve

LEMMA SeedInvariant == Spec => [](TypeOK /\ SeedInv)
<1>1. Init => SeedInv
  BY SchemaAssumption DEF Init, SeedInv, Claims, Idle
<1>2. QED
  BY <1>1, StepSeed, TypeCorrect, PTL DEF Spec

\* Whatever the callers race and the process dies of, the seed rows are inserted
\* once at most (_create_and_seed).
THEOREM NeverSeededTwice == Spec => []SeededAtMostOnce
<1>1. SeedInv => SeededAtMostOnce
  BY DEF SeedInv, SeededAtMostOnce
<1>2. QED
  BY <1>1, SeedInvariant, PTL

-----------------------------------------------------------------------------
(***************************************************************************)
(* Who seeds.  While the file is not there, nothing is in it and everyone  *)
(* who has looked holds it for new; from then on somebody may seed it,     *)
(* until the rows are in or the process has died.                          *)
(***************************************************************************)
InHand ==
  /\ ~exists => /\ tables = 0
                /\ \A c \in Callers : /\ call[c].at \notin {"create", "insert"}
                                      /\ call[c].at = "connect" => call[c].is_new
  /\ exists /\ crashes = 0 /\ seeds = 0 => \E c \in Callers : MaySeed(c)

\* A step that changes neither the database nor who is about to connect to it, or to
\* create in it, leaves the seeding in the same hands.
LEMMA SameHands ==
  ASSUME UNCHANGED tables,
         \A c \in Callers :
           \/ call'[c] = call[c]
           \/ /\ call[c].at \notin {"connect", "create", "insert"}
              /\ call'[c].at \notin {"connect", "create", "insert"}
  PROVE  /\ \A c \in Callers : MaySeed(c)' <=> MaySeed(c)
         /\ InHand /\ UNCHANGED <<exists, seeds, crashes>> => InHand'
<1>1. \A c \in Callers : MaySeed(c)' <=> MaySeed(c)
  BY DEF MaySeed
<1>2. ASSUME InHand, UNCHANGED <<exists, seeds, crashes>> PROVE InHand'
  BY <1>1, <1>2 DEF InHand
<1>3. QED
  BY <1>1, <1>2

\* A step that c's own call takes changes no other call.
LEMMA ServeIsLocal ==
  ASSUME NEW c \in Callers, TypeOK, Serve(c)
  PROVE  \A d \in Callers \ {c} : call'[d] = call[d]
BY DEF Serve, CheckFile, Connect, CreateTable, InsertRows, CountDocuments, UpsertCorpus, Query,
       Goes, TypeOK

\* What the steps of c's call do that concern the seeding.
LEMMA ServeSeeds ==
  ASSUME TypeOK, SeedInv, InHand, NEW c \in Callers, Serve(c)
  PROVE  /\ InHand'
         /\ exists => \A d \in Callers : MaySeed(d)' => MaySeed(d)
         /\ MaySeed(c) => MaySeed(c)' \/ seeds' = 1
         /\ \A d \in Callers \ {c} : MaySeed(d) => MaySeed(d)' \/ MaySeed(c)'
<1> USE DEF disk, observed
<1> DEFINE Goal ==
      /\ InHand'
      /\ exists => \A d \in Callers : MaySeed(d)' => MaySeed(d)
      /\ MaySeed(c) => MaySeed(c)' \/ seeds' = 1
      /\ \A d \in Callers \ {c} : MaySeed(d) => MaySeed(d)' \/ MaySeed(c)'
<1>1. \A d \in Callers \ {c} : call'[d] = call[d]
  BY ServeIsLocal
<1>2. CASE CheckFile(c)
  <2>1. call[c].at = "check" /\ call'[c].at = "connect" /\ call'[c].is_new = ~exists
    BY <1>2 DEF CheckFile, TypeOK, Calls
  <2>2. UNCHANGED <<exists, tables, seeds, crashes>>
    BY <1>2 DEF CheckFile
  <2>3. /\ ~MaySeed(c) /\ (exists => ~MaySeed(c)')
        /\ \A d \in Callers \ {c} : MaySeed(d)' <=> MaySeed(d)
    BY <1>1, <2>1, <2>2 DEF MaySeed
  <2>4. QED
    BY <1>1, <2>1, <2>2, <2>3 DEF InHand
<1>3. CASE Connect(c)
  <2>1. /\ call[c].at = "connect" /\ call[c].next = 1 /\ call'[c].next = 1 /\ exists'
        /\ call'[c].at = IF call[c].is_new THEN "create" ELSE "ready"
        /\ UNCHANGED <<tables, seeds, crashes>>
    BY <1>3 DEF Connect, Goes, TypeOK, Calls, SeedInv
  <2>2. MaySeed(c)' <=> MaySeed(c)
    BY <2>1, SMT DEF MaySeed, TypeOK
  <2>3. \A d \in Callers \ {c} : MaySeed(d)' <=> MaySeed(d)
    BY <1>1, <2>1 DEF MaySeed
  <2>4. ~exists => MaySeed(c)
    BY <2>1 DEF InHand, MaySeed
  <2>5. QED
    BY <2>1, <2>2, <2>3, <2>4 DEF InHand
<1>4. CASE CreateTable(c)
  <2>1. /\ call[c].at = "create" /\ call[c].next \in 1..LastTable
        /\ call[c].next <= tables \/ call[c].next = tables + 1
    BY <1>4 DEF CreateTable, Goes, TypeOK, Calls, SeedInv, Claims
  <2>2. exists /\ UNCHANGED <<exists, seeds, crashes>>
    BY <1>4, <2>1 DEF CreateTable, InHand
  <2>3. CASE call[c].next <= tables
    <3>1. tables' = tables /\ call'[c].at = "error"
      BY <1>4, <2>3 DEF CreateTable, Goes, TypeOK, Calls
    <3>2. ~MaySeed(c) /\ ~MaySeed(c)'
      BY <2>1, <2>3, <3>1, SMT DEF MaySeed, TypeOK
    <3>3. \A d \in Callers \ {c} : MaySeed(d)' <=> MaySeed(d)
      BY <1>1, <3>1 DEF MaySeed
    <3>4. QED
      BY <2>2, <3>2, <3>3 DEF InHand
  <2>4. CASE call[c].next = tables + 1
    <3>1. /\ tables' = tables + 1 /\ tables \in Nat
          /\ \/ call'[c].at = "insert"
             \/ call'[c].at = "create" /\ call'[c].next = call[c].next + 1
      BY <1>4, <2>1, <2>4, SMT DEF CreateTable, Goes, TypeOK, Calls
    <3>2. MaySeed(c) /\ MaySeed(c)'
      BY <2>1, <2>4, <3>1, SMT DEF MaySeed
    <3>3. ASSUME NEW d \in Callers \ {c} PROVE MaySeed(d)' => MaySeed(d)
      <4>1. SUFFICES ASSUME MaySeed(d)' PROVE MaySeed(d)
        OBVIOUS
      <4>2. tables + 1 # 0 /\ tables + 2 > 1 /\ tables' + 1 = tables + 2
        BY <3>1, SMT
      <4>3. call[d].at = "insert" \/ (call[d].at = "create" /\ call[d].next = tables + 2)
        BY <1>1, <3>1, <4>1, <4>2 DEF MaySeed
      <4>4. Claims(d)
        BY <4>2, <4>3 DEF Claims
      <4>5. call[d].at = "create" => call[d].next = tables + 1
        BY <4>4 DEF SeedInv
      <4>6. QED
        BY <3>1, <4>3, <4>5, SMT DEF MaySeed
    <3>4. QED
      BY <2>2, <3>2, <3>3 DEF InHand
  <2>5. QED
    BY <2>1, <2>3, <2>4
<1>5. CASE InsertRows(c)
  <2>1. /\ call[c].at = "insert" /\ call'[c].at = "ready"
        /\ seeds' = seeds + 1 /\ UNCHANGED <<exists, tables, crashes>>
    BY <1>5 DEF InsertRows, Goes, TypeOK, Calls
  <2>2. seeds' = 1
    BY <2>1 DEF SeedInv, Claims
  <2>3. exists
    BY <2>1 DEF InHand
  <2>4. /\ MaySeed(c) /\ ~MaySeed(c)'
        /\ \A d \in Callers \ {c} : MaySeed(d)' <=> MaySeed(d)
    BY <1>1, <2>1 DEF MaySeed
  <2>5. QED
    BY <2>1, <2>2, <2>3, <2>4 DEF InHand
<1>6. CASE CountDocuments(c) \/ UpsertCorpus(c) \/ Query(c)
  <2>1. /\ UNCHANGED <<exists, tables, seeds, crashes>>
        /\ call[c].at \notin {"connect", "create", "insert"}
        /\ call'[c].at \notin {"connect", "create", "insert"}
    BY <1>6, AnswerType DEF CountDocuments, UpsertCorpus, Query, Goes, TypeOK, Calls, Ended
  <2>2. InHand' /\ \A d \in Callers : MaySeed(d)' <=> MaySeed(d)
    BY <1>1, <2>1, SameHands
  <2>3. QED
    BY <2>2
<1>7. QED
  BY <1>2, <1>3, <1>4, <1>5, <1>6 DEF Serve

\* What the steps that are no call's own do.
LEMMA OthersSeed ==
  ASSUME TypeOK, InHand, Crash \/ (\E c \in Callers, s \in Stores, t \in 1..LastTable : Begin(c, s, t))
                         \/ UNCHANGED vars
  PROVE  InHand' /\ \A d \in Callers : MaySeed(d)' => MaySeed(d)
<1> USE DEF disk, observed
<1>1. CASE Crash
  <2>1. /\ UNCHANGED <<exists, tables>> /\ crashes' > 0
        /\ \A d \in Callers : call'[d].at = "idle"
    BY <1>1, SMT DEF Crash, Idle, TypeOK
  <2>2. QED
    BY <2>1 DEF InHand, MaySeed
<1>2. ASSUME NEW c \in Callers, NEW s \in Stores, NEW t \in 1..LastTable, Begin(c, s, t)
      PROVE  InHand' /\ \A d \in Callers : MaySeed(d)' => MaySeed(d)
  <2>1. /\ UNCHANGED <<exists, tables, seeds, crashes>>
        /\ call[c].at \in Ended /\ call'[c].at \in {"ready", "check", "count"}
        /\ \A d \in Callers \ {c} : call'[d] = call[d]
    BY <1>2 DEF Begin, TypeOK, Idle
  <2>2. InHand' /\ \A d \in Callers : MaySeed(d)' <=> MaySeed(d)
    BY <2>1, SameHands DEF Ended
  <2>3. QED
    BY <2>2
<1>3. CASE UNCHANGED vars
  BY <1>3, SameHands DEF vars
<1>4. QED
  BY <1>1, <1>2, <1>3

-----------------------------------------------------------------------------
\* A call has steps left exactly as long as it is under way.
LEMMA StepsBounded ==
  ASSUME TypeOK, NEW c \in Callers
  PROVE  /\ StepsLeft(c) \in 0..LastTable + 4
         /\ call[c].at \in Busy <=> StepsLeft(c) > 0
<1>1. call[c].at \in Busy \cup Ended /\ call[c].next \in 1..LastTable
  BY DEF TypeOK, Calls
<1>2. CASE call[c].at \in Ended
  BY <1>2, SchemaAssumption DEF StepsLeft, Busy, Ended
<1>3. CASE call[c].at \in Busy
  BY <1>1, <1>3, SchemaAssumption DEF StepsLeft, Busy
<1>4. QED
  BY <1>1, <1>2, <1>3

\* Its own steps use them up.
LEMMA ServeDrops ==
  ASSUME TypeOK, TypeOK', NEW c \in Callers, Serve(c)
  PROVE  StepsLeft(c)' < StepsLeft(c)
<1> USE SchemaAssumption DEF TypeOK, Calls
<1>1. LastTable \in Nat /\ call[c].next \in 1..LastTable /\ call'[c].next \in 1..LastTable
  OBVIOUS
<1>2. CASE CheckFile(c)
  BY <1>1, <1>2 DEF CheckFile, StepsLeft
<1>3. CASE Connect(c)
  <2>1. call[c].at = "connect" /\ call'[c].at \in {"create", "ready"}
    BY <1>3 DEF Connect, Goes
  <2>2. QED
    BY <1>1, <2>1 DEF StepsLeft
<1>4. CASE CreateTable(c)
  <2>1. /\ call[c].at = "create"
        /\ \/ call'[c].at \in {"error", "insert"}
           \/ call'[c].at = "create" /\ call'[c].next = call[c].next + 1
    BY <1>4 DEF CreateTable, Goes
  <2>2. QED
    BY <1>1, <2>1 DEF StepsLeft
<1>5. CASE InsertRows(c)
  BY <1>5 DEF InsertRows, Goes, StepsLeft
<1>6. CASE CountDocuments(c)
  BY <1>6 DEF CountDocuments, Goes, StepsLeft
<1>7. CASE UpsertCorpus(c)
  BY <1>7 DEF UpsertCorpus, Goes, StepsLeft
<1>8. CASE Query(c)
  <2>1. call[c].at = "ready" /\ call'[c].at \in Ended
    BY <1>8, AnswerType DEF Query, Goes
  <2>2. QED
    BY <2>1 DEF StepsLeft, Ended
<1>9. QED
  BY <1>2, <1>3, <1>4, <1>5, <1>6, <1>7, <1>8 DEF Serve

\* A call ends: no step but the beginning of a new one gives it anything more to do.
THEOREM CallsEnd == Spec => CallsAreShort
<1> DEFINE Bounded ==
             \A c \in Callers : /\ StepsLeft(c) \in 0..LastTable + 4
                                /\ call[c].at \in Busy <=> StepsLeft(c) > 0
           Drops ==
             \A c \in Callers :
               /\ Serve(c) => StepsLeft(c)' < StepsLeft(c)
               /\ call[c].at \in Busy => StepsLeft(c)' <= StepsLeft(c)
<1>1. TypeOK => Bounded
  BY StepsBounded
<1>2. TypeOK /\ TypeOK' /\ [Next]_vars => [Drops]_vars
  <2> SUFFICES ASSUME TypeOK, TypeOK', [Next]_vars, NEW d \in Callers, call[d].at \in Busy
               PROVE  StepsLeft(d)' <= StepsLeft(d)
    BY ServeDrops
  <2>1. StepsLeft(d) \in Nat /\ StepsLeft(d)' \in Nat
    <3>1. Bounded /\ Bounded'
      BY <1>1, PTL
    <3>2. QED
      BY <3>1, SchemaAssumption
  <2>2. ASSUME call'[d] = call[d] PROVE StepsLeft(d)' <= StepsLeft(d)
    <3>1. StepsLeft(d)' = StepsLeft(d)
      BY <2>2 DEF StepsLeft
    <3>2. QED
      BY <2>1, <3>1
  <2>3. ASSUME NEW c \in Callers, Serve(c) PROVE StepsLeft(d)' <= StepsLeft(d)
    <3>1. CASE c = d
      BY <2>1, <2>3, <3>1, ServeDrops
    <3>2. CASE c # d
      BY <2>2, <2>3, <3>2, ServeIsLocal
    <3>3. QED
      BY <3>1, <3>2
  <2>4. ASSUME NEW c \in Callers, NEW s \in Stores, NEW t \in 1..LastTable, Begin(c, s, t)
        PROVE  call'[d] = call[d]
    <3>1. c # d
      BY <2>4 DEF Begin, Busy, Ended
    <3>2. QED
      BY <2>4, <3>1 DEF Begin, TypeOK
  <2>5. CASE Crash
    <3>1. call'[d].at = "idle"
      BY <2>5 DEF Crash, Idle
    <3>2. StepsLeft(d)' = 0
      BY <3>1 DEF StepsLeft
    <3>3. QED
      BY <2>1, <3>2
  <2>6. CASE UNCHANGED vars
    BY <2>2, <2>6 DEF vars
  <2>7. QED
    BY <2>2, <2>3, <2>4, <2>5, <2>6 DEF Next
<1>3. QED
  BY <1>1, <1>2, TypeCorrect, PTL DEF Spec, CallsAreShort

\* The seeding of the mock database does not get stuck between the callers that race for it
\* (_create_and_seed), until the process dies for the first time: with the fairness of
\* FairSpec, which no prover here can reason about, this and CallsEnd are SeedingHasAWinner.
\* It says nothing of the knowledge base, nor of a database that a crash has left unseeded.
THEOREM SomebodySeeds == Spec => SeedingIsInHand
<1> DEFINE HasCandidate == exists /\ crashes = 0 /\ seeds = 0 => \E c \in Callers : MaySeed(c)
           Passes ==
             /\ exists => \A c \in Callers : MaySeed(c)' => MaySeed(c)
             /\ \A c \in Callers : MaySeed(c) =>
                  /\ Serve(c) => StepsLeft(c)' < StepsLeft(c) /\ (MaySeed(c)' \/ seeds' = 1)
                  /\ \A d \in Callers \ {c} : Serve(d) => MaySeed(c)' \/ MaySeed(d)'
<1>1. Init => InHand
  BY DEF Init, InHand, Idle
<1>2. TypeOK /\ SeedInv /\ InHand /\ [Next]_vars => InHand'
  BY ServeSeeds, OthersSeed DEF Next
<1>3. InHand => HasCandidate
  BY DEF InHand
<1>4. TypeOK /\ TypeOK' /\ SeedInv /\ InHand /\ [Next]_vars => [Passes]_vars
  <2> SUFFICES ASSUME TypeOK, TypeOK', SeedInv, InHand, [Next]_vars PROVE Passes
    OBVIOUS
  <2>1. exists => \A c \in Callers : MaySeed(c)' => MaySeed(c)
    BY ServeSeeds, OthersSeed DEF Next
  <2>2. ASSUME NEW c \in Callers, MaySeed(c)
        PROVE  /\ Serve(c) => StepsLeft(c)' < StepsLeft(c) /\ (MaySeed(c)' \/ seeds' = 1)
               /\ \A d \in Callers \ {c} : Serve(d) => MaySeed(c)' \/ MaySeed(d)'
    BY <2>2, ServeSeeds, ServeDrops
  <2>3. QED
    BY <2>1, <2>2
<1>5. QED
  BY <1>1, <1>2, <1>3, <1>4, SeedInvariant, PTL DEF Spec, SeedingIsInHand

-----------------------------------------------------------------------------
(***************************************************************************)
(* The corpus.  A service is handed out, or cached, only over a collection *)
(* that holds the corpus, and the corpus never leaves it.                  *)
(***************************************************************************)
CorpusInv ==
  /\ "knowledge_base" \in cached => documents > 0
  /\ \A c \in Callers : call[c].store = "knowledge_base" =>
       /\ call[c].at \in {"count", "upsert", "ready", "rows", "error", "raised"}
       /\ call[c].at = "ready" => documents > 0

\* Whoever seeds the knowledge base, and whatever fails or dies during it, no search is
\* answered from an empty one: get_vector_store_service() returns, and lru_cache keeps, a
\* service only when seed_if_empty() has returned.
THEOREM CorpusIsThere == Spec => []SearchFindsTheCorpus
<1>1. Init => CorpusInv
  BY DEF Init, CorpusInv, Idle
<1>2. TypeOK /\ CorpusInv /\ [Next]_vars => CorpusInv'
  <2> SUFFICES ASSUME TypeOK, CorpusInv, [Next]_vars PROVE CorpusInv'
    OBVIOUS
  <2> USE DEF CorpusInv, TypeOK, Calls, disk, observed
  <2>1. ASSUME NEW c \in Callers, NEW s \in Stores, NEW t \in 1..LastTable, Begin(c, s, t)
        PROVE  CorpusInv'
    BY <2>1 DEF Begin, Idle, Stores
  <2>2. ASSUME NEW c \in Callers, CheckFile(c) PROVE CorpusInv'
    BY <2>2 DEF CheckFile
  <2>3. ASSUME NEW c \in Callers, Connect(c) PROVE CorpusInv'
    BY <2>3 DEF Connect, Goes
  <2>4. ASSUME NEW c \in Callers, CreateTable(c) PROVE CorpusInv'
    BY <2>4 DEF CreateTable, Goes
  <2>5. ASSUME NEW c \in Callers, InsertRows(c) PROVE CorpusInv'
    BY <2>5 DEF InsertRows, Goes
  <2>6. ASSUME NEW c \in Callers, CountDocuments(c) PROVE CorpusInv'
    BY <2>6 DEF CountDocuments, Goes
  <2>7. ASSUME NEW c \in Callers, UpsertCorpus(c) PROVE CorpusInv'
    BY <2>7 DEF UpsertCorpus, Goes
  <2>8. ASSUME NEW c \in Callers, Query(c) PROVE CorpusInv'
    BY <2>8 DEF Query, Goes, Answers
  <2>9. CASE Crash
    BY <2>9 DEF Crash, Idle
  <2>10. CASE UNCHANGED vars
    BY <2>10 DEF vars
  <2>11. QED
    BY <2>1, <2>2, <2>3, <2>4, <2>5, <2>6, <2>7, <2>8, <2>9, <2>10 DEF Next, Serve
<1>3. CorpusInv => SearchFindsTheCorpus
  BY DEF CorpusInv, SearchFindsTheCorpus, Ended
<1>4. QED
  BY <1>1, <1>2, <1>3, TypeCorrect, PTL DEF Spec

=============================================================================
