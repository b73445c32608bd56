--------------------------- MODULE MemoryStoreProofs ---------------------------
(***************************************************************************)
(* Proofs about MemoryStore, for any number of runs, sessions, failures and*)
(* crashes, any line length and any cap that holds a line: its types, that *)
(* no conversation line lacks its episode, that what a run recalls is past,*)
(* true and legible, that no usage of a fix is lost, and that what         *)
(* memory_persisted says of a lone incident of a session is true.          *)
(*                                                                         *)
(* The summaries travel: read into seen or memory, extended, trimmed,      *)
(* written, committed or taken back.  The invariant says of every place    *)
(* where a text may be what has to hold of the tables alone.               *)
(***************************************************************************)
EXTENDS MemoryStore, FiniteSetTheorems, SequenceTheorems, TLAPS

-----------------------------------------------------------------------------
(* Texts.                                                                  *)

\* Unit b may stand behind unit a.
Follows(a, b) == IF b.at = 1 THEN a.at = LineLen ELSE a = [b EXCEPT !.at = @ - 1]

LEMMA WholeByFollows ==
  ASSUME NEW text
  PROVE  WholeButTheOldest(text) <=>
           /\ \A k \in DOMAIN text \ {1} : Follows(text[k - 1], text[k])
           /\ text # <<>> => text[Len(text)].at = LineLen
  BY DEF WholeButTheOldest, Follows

LEMMA LineIsText ==
  ASSUME NEW i \in Incidents
  PROVE  /\ Line(i) \in Seq(Units) /\ Len(Line(i)) = LineLen
         /\ \A k \in 1..LineLen : Line(i)[k] = [incident |-> i, at |-> k]
<1>1. Line(i) \in [1..LineLen -> Units]
  BY LengthAssumption DEF Line, Units
<1>2. LineLen \in Nat
  BY LengthAssumption
<1>3. Line(i) \in Seq(Units)
  BY <1>1, <1>2, SeqDef
<1>4. DOMAIN Line(i) = 1..LineLen
  BY <1>1
<1>5. Len(Line(i)) = LineLen
  BY <1>2, <1>3, <1>4, LenProperties
<1> QED
  BY <1>3, <1>5 DEF Line

\* A line begins with a unit that may follow a whole line, and is whole.
LEMMA LineIsWhole ==
  ASSUME NEW i \in Incidents
  PROVE  /\ \A a : a.at = LineLen => Follows(a, Line(i)[1])
         /\ \A k \in 2..LineLen : Follows(Line(i)[k - 1], Line(i)[k])
         /\ Line(i)[LineLen].at = LineLen
<1>1. \A k \in 1..LineLen : Line(i)[k] = [incident |-> i, at |-> k]
  BY LineIsText
<1>2. LineLen \in Nat \ {0}
  BY LengthAssumption
<1>3. Line(i)[1].at = 1 /\ Line(i)[LineLen].at = LineLen
  <2>1. 1 \in 1..LineLen /\ LineLen \in 1..LineLen
    BY <1>2
  <2>2. /\ Line(i)[1] = [incident |-> i, at |-> 1]
        /\ Line(i)[LineLen] = [incident |-> i, at |-> LineLen]
    BY <1>1, <2>1
  <2> QED
    BY <2>2
<1>4. ASSUME NEW k \in 2..LineLen PROVE Follows(Line(i)[k - 1], Line(i)[k])
  <2>1. Line(i)[k] = [incident |-> i, at |-> k]
    BY <1>1, <1>2
  <2>2. Line(i)[k - 1] = [incident |-> i, at |-> k - 1]
    BY <1>1, <1>2
  <2>3. [Line(i)[k] EXCEPT !.at = @ - 1] = [incident |-> i, at |-> k - 1]
    BY <2>1
  <2> QED
    BY <2>1, <2>2, <2>3 DEF Follows
<1> QED
  BY <1>3, <1>4 DEF Follows

LEMMA LongerText ==
  ASSUME NEW i \in Incidents, NEW text \in Seq(Units)
  PROVE  /\ text \o Line(i) \in Seq(Units) /\ Len(text \o Line(i)) = Len(text) + LineLen
         /\ \A k \in 1..(Len(text) + LineLen) :
              (text \o Line(i))[k] = IF k <= Len(text) THEN text[k] ELSE Line(i)[k - Len(text)]
<1> DEFINE line == Line(i)
<1>1. line \in Seq(Units) /\ Len(line) = LineLen
  BY LineIsText
<1> HIDE DEF line
<1>2. /\ text \o line \in Seq(Units) /\ Len(text \o line) = Len(text) + Len(line)
      /\ \A k \in 1..Len(text) + Len(line) :
           (text \o line)[k] = IF k <= Len(text) THEN text[k] ELSE line[k - Len(text)]
  BY <1>1, ConcatProperties
<1> QED
  BY <1>1, <1>2 DEF line

LEMMA ConcatIsWhole ==
  ASSUME NEW i \in Incidents, NEW text \in Seq(Units), WholeButTheOldest(text)
  PROVE  WholeButTheOldest(text \o Line(i))
<1> DEFINE n == Len(text)
           longer == text \o Line(i)
<1>1. n \in Nat /\ DOMAIN text = 1..n /\ LineLen \in Nat \ {0}
  BY LenProperties, LengthAssumption
<1>2. /\ longer \in Seq(Units) /\ Len(longer) = n + LineLen
      /\ \A k \in 1..(n + LineLen) : longer[k] = IF k <= n THEN text[k] ELSE Line(i)[k - n]
  BY LongerText
<1>3. DOMAIN longer = 1..(n + LineLen)
  BY <1>2, LenProperties
<1> HIDE DEF n, longer
<1>4. ASSUME NEW k \in 2..(n + LineLen) PROVE Follows(longer[k - 1], longer[k])
  <2>1. CASE k <= n
    <3>1. longer[k] = text[k] /\ longer[k - 1] = text[k - 1]
      BY <1>1, <1>2, <2>1
    <3>2. k \in DOMAIN text \ {1}
      BY <1>1, <2>1
    <3> QED
      BY <3>1, <3>2, WholeByFollows
  <2>2. CASE k = n + 1
    <3>1. n \in 1..(n + LineLen) /\ k \in 1..(n + LineLen) /\ ~(k <= n) /\ k - n = 1 /\ k - 1 = n
      BY <1>1, <2>2
    <3>2. longer[k] = Line(i)[1] /\ longer[k - 1] = text[n]
      BY <1>1, <1>2, <3>1
    <3>3. text # <<>>
      BY <3>1, EmptySeq DEF n
    <3>4. text[n].at = LineLen
      BY <3>3, WholeByFollows DEF n
    <3> QED
      BY <3>2, <3>4, LineIsWhole
  <2>3. CASE k > n + 1
    <3>1. /\ k \in 1..(n + LineLen) /\ k - 1 \in 1..(n + LineLen) /\ ~(k <= n) /\ ~(k - 1 <= n)
          /\ k - n \in 2..LineLen /\ (k - 1) - n = (k - n) - 1
      BY <1>1, <2>3
    <3>2. longer[k] = Line(i)[k - n] /\ longer[k - 1] = Line(i)[(k - n) - 1]
      BY <1>2, <3>1
    <3> QED
      BY <3>1, <3>2, LineIsWhole
  <2> QED
    BY <1>1, <2>1, <2>2, <2>3
<1>5. longer[Len(longer)].at = LineLen
  <2>1. /\ n + LineLen \in 1..(n + LineLen) /\ ~(n + LineLen <= n)
        /\ (n + LineLen) - n = LineLen
    BY <1>1
  <2> QED
    BY <1>2, <2>1, LineIsWhole
<1>6. \A k \in DOMAIN longer \ {1} : Follows(longer[k - 1], longer[k])
  BY <1>1, <1>3, <1>4
<1> QED
  BY <1>5, <1>6, WholeByFollows DEF longer

LEMMA ConcatIsMentioned ==
  ASSUME NEW i \in Incidents, NEW text \in Seq(Units)
  PROVE  Mentioned(text \o Line(i)) \subseteq Mentioned(text) \cup {i}
<1> DEFINE longer == text \o Line(i)
<1>1. /\ longer \in Seq(Units) /\ Len(longer) = Len(text) + LineLen
      /\ \A k \in 1..(Len(text) + LineLen) :
           longer[k] = IF k <= Len(text) THEN text[k] ELSE Line(i)[k - Len(text)]
  BY LongerText
<1>2. Len(text) \in Nat /\ DOMAIN text = 1..Len(text) /\ LineLen \in Nat
  BY LenProperties, LengthAssumption
<1>3. DOMAIN longer = 1..(Len(text) + LineLen)
  BY <1>1, LenProperties
<1> HIDE DEF longer
<1>4. ASSUME NEW k \in DOMAIN longer
      PROVE  longer[k].incident \in Mentioned(text) \cup {i}
  <2>1. CASE k <= Len(text)
    BY <1>1, <1>2, <1>3, <2>1 DEF Mentioned
  <2>2. CASE ~(k <= Len(text))
    <3>1. k - Len(text) \in 1..LineLen
      BY <1>2, <1>3, <2>2
    <3>2. longer[k] = Line(i)[k - Len(text)]
      BY <1>1, <1>3, <2>2
    <3>3. longer[k] = [incident |-> i, at |-> k - Len(text)]
      BY <3>1, <3>2, LineIsText
    <3> QED
      BY <3>3
  <2> QED
    BY <2>1, <2>2
<1> QED
  BY <1>4 DEF Mentioned, longer

\* Trimming drops units of the oldest lines and nothing else.
LEMMA TrimmedIsWhole ==
  ASSUME NEW text \in Seq(Units)
  PROVE  /\ Trimmed(text) \in Seq(Units)
         /\ Mentioned(Trimmed(text)) \subseteq Mentioned(text)
         /\ WholeButTheOldest(text) => WholeButTheOldest(Trimmed(text))
<1> DEFINE n == Len(text)
           d == n - Cap
           short == SubSeq(text, d + 1, n)
<1>1. n \in Nat /\ DOMAIN text = 1..n /\ Cap \in Nat \ {0}
  BY LenProperties, LengthAssumption
<1>2. CASE ~(n > Cap)
  BY <1>2 DEF Trimmed
<1>3. CASE n > Cap
  <2>1. d \in Nat /\ d + 1 \in Int /\ n \in Int /\ n - (d + 1) + 1 = Cap
    BY <1>1, <1>3
  <2>2. \A k \in (d + 1)..n : text[k] \in Units
    BY <1>1, <2>1, ElementOfSeq
  <2>3. /\ short \in Seq(Units)
        /\ Len(short) = IF d + 1 <= n THEN n - (d + 1) + 1 ELSE 0
        /\ \A k \in 1..(n - (d + 1) + 1) : short[k] = text[(d + 1) + k - 1]
    <3> HIDE DEF d, n
    <3> QED
      BY <2>1, <2>2, SubSeqProperties
  <2>4. Len(short) = Cap /\ DOMAIN short = 1..Cap
    BY <1>1, <2>1, <2>3, LenProperties
  <2>5. \A k \in 1..Cap : short[k] = text[d + k] /\ d + k \in 1..n
    BY <1>1, <2>1, <2>3
  <2>6. Trimmed(text) = short
    BY <1>3 DEF Trimmed
  <2> HIDE DEF n, d, short
  <2>7. Mentioned(short) \subseteq Mentioned(text)
    BY <1>1, <2>4, <2>5 DEF Mentioned
  <2>8. ASSUME WholeButTheOldest(text) PROVE WholeButTheOldest(short)
    <3>1. ASSUME NEW k \in 2..Cap PROVE Follows(short[k - 1], short[k])
      <4>1. /\ k \in 1..Cap /\ k - 1 \in 1..Cap /\ d + (k - 1) = (d + k) - 1
            /\ d + k \in 1..n /\ d + k # 1
        BY <1>1, <2>1, <2>5
      <4> QED
        BY <1>1, <2>5, <2>8, <4>1, WholeByFollows
    <3>2. short[Cap] = text[n]
      <4>1. Cap \in 1..Cap /\ d + Cap = n
        BY <1>1 DEF d
      <4> QED
        BY <2>5, <4>1
    <3>3. text[n].at = LineLen
      <4>1. text # <<>>
        BY <1>1, <1>3, EmptySeq DEF n
      <4> QED
        BY <2>8, <4>1, WholeByFollows DEF n
    <3> QED
      BY <1>1, <2>4, <3>1, <3>2, <3>3, WholeByFollows
  <2> QED
    BY <2>3, <2>6, <2>7, <2>8
<1> QED
  BY <1>2, <1>3

-----------------------------------------------------------------------------
(* The invariant.                                                          *)

\* A text whose lines have their episodes, and of which only the oldest is cut.
Sound(text, known) ==
  text \in Seq(Units) /\ Mentioned(text) \subseteq known /\ WholeButTheOldest(text)

Tables == [summary : [Sessions -> Seq(Units)], fixes : Nat, threads : SUBSET Incidents]
Recollections == [similar : SUBSET Incidents, summary : Seq(Units)]

Types ==
  /\ episodes \subseteq Incidents
  /\ view \in Tables /\ durable \in Tables
  /\ pc \in [Incidents -> Steps]
  /\ memory \in [Incidents -> Recollections]
  /\ seen \in [Incidents -> Seq(Units)]
  /\ applied \in [Incidents -> BOOLEAN]
  /\ attempts \in Nat /\ failures \in 0..MaxFailures /\ crashes \in 0..MaxCrashes

\* Every text anywhere is sound: in the tables, committed or not, and in the runs.
SoundTables(tbl, known) == \A s \in Sessions : Sound(tbl.summary[s], known)
SoundSeen == \A i \in Incidents : Sound(seen[i], episodes)
SoundMemory ==
  \A i \in Incidents :
    memory[i].similar \subseteq episodes /\ Sound(memory[i].summary, episodes)

\* Who may still write its line has its episode; who may still recall has none.
Persisted == \A i \in Incidents : pc[i] \in {"read", "write"} => i \in episodes
NotYet    == \A i \in Incidents : pc[i] \in Recalling => i \notin episodes

NotItself ==
  \A i \in Incidents : i \notin memory[i].similar \cup Mentioned(memory[i].summary)

MemInv ==
  /\ Types
  /\ SoundTables(view, episodes) /\ SoundTables(durable, episodes)
  /\ SoundSeen /\ SoundMemory /\ Persisted /\ NotYet /\ NotItself

LEMMA EmptyIsSound ==
  ASSUME NEW known
  PROVE  Sound(<<>>, known) /\ Mentioned(<<>>) = {}
<1>1. <<>> \in Seq(Units) /\ DOMAIN <<>> = {}
  BY EmptySeq
<1> QED
  BY <1>1 DEF Sound, Mentioned, WholeButTheOldest

LEMMA EmptyTablesAreSound ==
  ASSUME NEW known
  PROVE  EmptyTables \in Tables /\ SoundTables(EmptyTables, known)
<1>1. <<>> \in Seq(Units) /\ 0 \in Nat
  BY EmptySeq
<1>2. EmptyTables \in Tables
  BY <1>1 DEF EmptyTables, Tables
<1>3. \A s \in Sessions : EmptyTables.summary[s] = <<>>
  BY DEF EmptyTables
<1> QED
  BY <1>2, <1>3, EmptyIsSound DEF SoundTables

LEMMA SoundGrows ==
  ASSUME NEW text, NEW known, NEW more, known \subseteq more, Sound(text, known)
  PROVE  Sound(text, more)
  BY DEF Sound

LEMMA MemInit == Init => MemInv
<1> SUFFICES ASSUME Init PROVE MemInv
  OBVIOUS
<1>1. /\ episodes = {} /\ view = EmptyTables /\ durable = EmptyTables
      /\ pc = [i \in Incidents |-> "register"]
      /\ memory = [i \in Incidents |-> NoMemory]
      /\ seen = [i \in Incidents |-> <<>>]
      /\ attempts = 0 /\ failures = 0 /\ crashes = 0
  BY DEF Init
<1>2. applied \in [Incidents -> BOOLEAN]
  BY DEF Init
<1>3. "register" \in Steps /\ <<>> \in Seq(Units) /\ NoMemory \in Recollections
  BY EmptySeq DEF Steps, Recalling, NoMemory, Recollections
<1>4. Types
  BY <1>1, <1>2, <1>3, EmptyTablesAreSound, BoundAssumption DEF Types
<1>5. SoundTables(view, episodes) /\ SoundTables(durable, episodes)
  BY <1>1, EmptyTablesAreSound
<1>6. SoundSeen
  BY <1>1, EmptyIsSound DEF SoundSeen
<1>7. \A i \in Incidents : memory[i].similar = {} /\ memory[i].summary = <<>>
  BY <1>1 DEF NoMemory
<1>8. SoundMemory /\ NotItself
  BY <1>7, EmptyIsSound DEF SoundMemory, NotItself
<1>9. Persisted /\ NotYet
  BY <1>1 DEF Persisted, NotYet
<1> QED
  BY <1>4, <1>5, <1>6, <1>8, <1>9 DEF MemInv

-----------------------------------------------------------------------------
(* The steps.                                                              *)

\* A run that moves on without ever coming back to recall, nor to the writes unsaved.
LEMMA Moves ==
  ASSUME MemInv, NEW i \in Incidents, NEW to \in Steps,
         pc' = [pc EXCEPT ![i] = to],
         to \in Recalling => pc[i] \in Recalling,
         to \in {"read", "write"} => i \in episodes',
         pc[i] \in Recalling => episodes' = episodes,
         episodes' \in {episodes, episodes \cup {i}}
  PROVE  pc' \in [Incidents -> Steps] /\ Persisted' /\ NotYet'
<1>1. pc \in [Incidents -> Steps] /\ Persisted /\ NotYet
  BY DEF MemInv, Types
<1>2. pc'[i] = to /\ \A j \in Incidents : j # i => pc'[j] = pc[j]
  BY <1>1
<1>3. pc' \in [Incidents -> Steps]
  BY <1>1
<1>4. ASSUME NEW j \in Incidents, pc'[j] \in {"read", "write"} PROVE j \in episodes'
  BY <1>1, <1>2, <1>4 DEF Persisted
<1>5. ASSUME NEW j \in Incidents, pc'[j] \in Recalling PROVE j \notin episodes'
  <2>1. CASE j = i
    BY <1>1, <1>2, <1>5, <2>1 DEF NotYet
  <2>2. CASE j # i
    <3>1. j \notin episodes
      BY <1>1, <1>2, <1>5, <2>2 DEF NotYet
    <3> QED
      BY <2>2, <3>1
  <2> QED
    BY <2>1, <2>2
<1> QED
  BY <1>3, <1>4, <1>5 DEF Persisted, NotYet

\* New contents of one session's summary.
LEMMA TablesWithSummary ==
  ASSUME NEW tbl \in Tables, NEW known, SoundTables(tbl, known),
         NEW s \in Sessions, NEW text, Sound(text, known)
  PROVE  LET new == [tbl EXCEPT !.summary[s] = text]
         IN  new \in Tables /\ SoundTables(new, known)
<1> DEFINE new == [tbl EXCEPT !.summary[s] = text]
           summaries == [tbl.summary EXCEPT ![s] = text]
<1>1. text \in Seq(Units) /\ tbl.summary \in [Sessions -> Seq(Units)]
  BY DEF Sound, Tables
<1>2. summaries \in [Sessions -> Seq(Units)]
  BY <1>1
<1>3. \A t \in Sessions : summaries[t] = IF t = s THEN text ELSE tbl.summary[t]
  BY <1>1
<1>4. new = [tbl EXCEPT !.summary = summaries]
  BY DEF Tables
<1> HIDE DEF new, summaries
<1>5. new \in Tables /\ new.summary = summaries
  BY <1>2, <1>4 DEF Tables
<1>6. SoundTables(new, known)
  BY <1>3, <1>5 DEF SoundTables
<1> QED
  BY <1>5, <1>6 DEF new

\* The rest of the invariant, for a step that leaves the episodes and the memories.
LEMMA RestKept ==
  ASSUME MemInv, UNCHANGED <<episodes, memory>>
  PROVE  /\ episodes' \subseteq Incidents /\ memory' \in [Incidents -> Recollections]
         /\ SoundMemory' /\ NotItself'
  BY DEF MemInv, Types, SoundMemory, NotItself

LEMMA TablesKept ==
  ASSUME MemInv, UNCHANGED <<episodes, tables>>
  PROVE  /\ view' \in Tables /\ durable' \in Tables
         /\ SoundTables(view', episodes') /\ SoundTables(durable', episodes')
  BY DEF MemInv, Types, tables

LEMMA SeenKept ==
  ASSUME MemInv, UNCHANGED <<episodes, seen>>
  PROVE  seen' \in [Incidents -> Seq(Units)] /\ SoundSeen'
  BY DEF MemInv, Types, SoundSeen

LEMMA MemReassembled ==
  ASSUME /\ episodes' \subseteq Incidents /\ view' \in Tables /\ durable' \in Tables
         /\ pc' \in [Incidents -> Steps] /\ memory' \in [Incidents -> Recollections]
         /\ seen' \in [Incidents -> Seq(Units)] /\ applied' \in [Incidents -> BOOLEAN]
         /\ attempts' \in Nat /\ failures' \in 0..MaxFailures /\ crashes' \in 0..MaxCrashes,
         SoundTables(view', episodes'), SoundTables(durable', episodes'),
         SoundSeen', SoundMemory', Persisted', NotYet', NotItself'
  PROVE  MemInv'
  BY DEF MemInv, Types, SoundTables

LEMMA CountersKept ==
  ASSUME MemInv, UNCHANGED <<applied, attempts, failures, crashes>>
  PROVE  /\ applied' \in [Incidents -> BOOLEAN] /\ attempts' \in Nat
         /\ failures' \in 0..MaxFailures /\ crashes' \in 0..MaxCrashes
  BY DEF MemInv, Types

LEMMA RegisterKeeps ==
  ASSUME MemInv, NEW i \in Incidents, Register(i)
  PROVE  MemInv'
<1> DEFINE more == view.threads \cup {i}
<1>1. /\ pc[i] = "register" /\ pc' = [pc EXCEPT ![i] = "register_commit"]
      /\ view' = [view EXCEPT !.threads = more]
      /\ UNCHANGED <<episodes, durable, memory, seen, applied, attempts, failures, crashes>>
  BY DEF Register, Goes
<1>2. view \in Tables /\ SoundTables(view, episodes) /\ durable \in Tables
      /\ SoundTables(durable, episodes)
  BY DEF MemInv, Types
<1>3. more \subseteq Incidents
  BY <1>2 DEF Tables
<1> HIDE DEF more
<1>4. view' \in Tables /\ view'.summary = view.summary
  BY <1>1, <1>2, <1>3 DEF Tables
<1>5. SoundTables(view', episodes') /\ SoundTables(durable', episodes') /\ durable' \in Tables
  BY <1>1, <1>2, <1>4 DEF SoundTables
<1>6. "register_commit" \in Steps /\ "register" \in Recalling
  BY DEF Steps, Recalling
<1>7. pc' \in [Incidents -> Steps] /\ Persisted' /\ NotYet'
  BY <1>1, <1>6, Moves
<1> QED
  BY <1>1, <1>4, <1>5, <1>7, RestKept, SeenKept, CountersKept, MemReassembled

\* A run of whose memory one part is replaced by something sound and not of itself.
LEMMA Recalls ==
  ASSUME MemInv, NEW i \in Incidents, NEW m \in Recollections,
         m.similar \subseteq episodes, Sound(m.summary, episodes),
         i \notin m.similar \cup Mentioned(m.summary),
         memory' = [memory EXCEPT ![i] = m], episodes' = episodes
  PROVE  memory' \in [Incidents -> Recollections] /\ SoundMemory' /\ NotItself'
<1>1. memory \in [Incidents -> Recollections] /\ SoundMemory /\ NotItself
  BY DEF MemInv, Types
<1>2. \A j \in Incidents : memory'[j] = IF j = i THEN m ELSE memory[j]
  BY <1>1
<1>3. memory' \in [Incidents -> Recollections]
  BY <1>1
<1>4. SoundMemory'
  BY <1>1, <1>2 DEF SoundMemory
<1>5. NotItself'
  BY <1>1, <1>2 DEF NotItself
<1> QED
  BY <1>3, <1>4, <1>5

LEMMA FindSimilarKeeps ==
  ASSUME MemInv, NEW i \in Incidents, FindSimilar(i)
  PROVE  MemInv'
<1>1. /\ pc[i] = "find_similar" /\ pc' = [pc EXCEPT ![i] = "get_summary"]
      /\ UNCHANGED <<episodes, tables, seen, applied, attempts, failures, crashes>>
  BY DEF FindSimilar, Goes
<1>2. PICK found \in SUBSET episodes : memory' = [memory EXCEPT ![i].similar = found]
  BY DEF FindSimilar
<1> DEFINE m == [memory[i] EXCEPT !.similar = found]
<1>3. /\ memory[i] \in Recollections /\ episodes \subseteq Incidents
      /\ memory[i].similar \subseteq episodes /\ Sound(memory[i].summary, episodes)
      /\ i \notin Mentioned(memory[i].summary)
  BY DEF MemInv, Types, SoundMemory, NotItself
<1>4. m \in Recollections /\ m.similar = found /\ m.summary = memory[i].summary
  BY <1>2, <1>3 DEF Recollections
<1>5. memory' = [memory EXCEPT ![i] = m]
  BY <1>2
<1>6. "get_summary" \in Steps /\ "find_similar" \in Recalling
  BY DEF Steps, Recalling
<1>7. i \notin found
  BY <1>1, <1>2, <1>6 DEF MemInv, NotYet
<1> HIDE DEF m
<1>8. memory' \in [Incidents -> Recollections] /\ SoundMemory' /\ NotItself'
  BY <1>1, <1>2, <1>3, <1>4, <1>5, <1>7, Recalls
<1>9. pc' \in [Incidents -> Steps] /\ Persisted' /\ NotYet'
  BY <1>1, <1>6, Moves
<1>10. episodes' \subseteq Incidents
  BY <1>1, <1>3
<1> QED
  BY <1>1, <1>8, <1>9, <1>10, TablesKept, SeenKept, CountersKept, MemReassembled

LEMMA GetConversationKeeps ==
  ASSUME MemInv, NEW i \in Incidents, GetConversation(i)
  PROVE  MemInv'
<1> DEFINE text == view.summary[SessionOf[i]]
           m == [memory[i] EXCEPT !.summary = text]
<1>1. /\ pc[i] = "get_summary" /\ pc' = [pc EXCEPT ![i] = "investigate"]
      /\ memory' = [memory EXCEPT ![i].summary = text]
      /\ UNCHANGED <<episodes, tables, seen, applied, attempts, failures, crashes>>
  BY DEF GetConversation, Goes
<1>2. SessionOf[i] \in Sessions
  BY SessionAssumption
<1>3. Sound(text, episodes)
  BY <1>2 DEF MemInv, SoundTables
<1>4. /\ memory[i] \in Recollections /\ episodes \subseteq Incidents
      /\ memory[i].similar \subseteq episodes /\ i \notin memory[i].similar
  BY DEF MemInv, Types, SoundMemory, NotItself
<1>5. "investigate" \in Steps /\ "get_summary" \in Recalling
      /\ "investigate" \notin Recalling
  BY DEF Steps, Recalling
<1>6. i \notin episodes
  BY <1>1, <1>5 DEF MemInv, NotYet
<1>7. memory' = [memory EXCEPT ![i] = m]
  BY <1>1
<1> HIDE DEF text
<1>8. m \in Recollections /\ m.similar = memory[i].similar /\ m.summary = text
  BY <1>3, <1>4 DEF Recollections, Sound
<1>9. i \notin Mentioned(text)
  BY <1>3, <1>6 DEF Sound
<1> HIDE DEF m
<1>10. memory' \in [Incidents -> Recollections] /\ SoundMemory' /\ NotItself'
  BY <1>1, <1>3, <1>4, <1>7, <1>8, <1>9, Recalls
<1>11. pc' \in [Incidents -> Steps] /\ Persisted' /\ NotYet'
  BY <1>1, <1>5, Moves
<1>12. episodes' \subseteq Incidents
  BY <1>1, <1>4
<1> QED
  BY <1>1, <1>10, <1>11, <1>12, TablesKept, SeenKept, CountersKept, MemReassembled

\* A step that does nothing but move the run on.
LEMMA JustMoves ==
  ASSUME MemInv, NEW i \in Incidents, NEW to \in Steps,
         pc' = [pc EXCEPT ![i] = to], to \notin Recalling, to \notin {"read", "write"},
         UNCHANGED <<episodes, tables, memory, seen, applied, failures, crashes>>,
         attempts' \in Nat
  PROVE  MemInv'
<1>1. pc' \in [Incidents -> Steps] /\ Persisted' /\ NotYet'
  BY Moves
<1>2. /\ applied' \in [Incidents -> BOOLEAN]
      /\ failures' \in 0..MaxFailures /\ crashes' \in 0..MaxCrashes
  BY DEF MemInv, Types
<1> QED
  BY <1>1, <1>2, RestKept, TablesKept, SeenKept, MemReassembled

LEMMA PersistIncidentKeeps ==
  ASSUME MemInv, NEW i \in Incidents, PersistIncident(i)
  PROVE  MemInv'
<1>1. /\ pc[i] = "episode" /\ pc' = [pc EXCEPT ![i] = "read"]
      /\ episodes' = episodes \cup {i}
      /\ UNCHANGED <<tables, memory, seen, applied, attempts, failures, crashes>>
  BY DEF PersistIncident, Goes
<1>2. "read" \in Steps /\ "read" \notin Recalling /\ "episode" \notin Recalling
  BY DEF Steps, Recalling
<1>3. pc' \in [Incidents -> Steps] /\ Persisted' /\ NotYet'
  BY <1>1, <1>2, Moves
<1>4. episodes \subseteq episodes'
  BY <1>1
<1>5. /\ view' = view /\ durable' = durable /\ view \in Tables /\ durable \in Tables
      /\ SoundTables(view, episodes) /\ SoundTables(durable, episodes)
      /\ seen \in [Incidents -> Seq(Units)] /\ SoundSeen
      /\ memory \in [Incidents -> Recollections] /\ SoundMemory /\ NotItself
      /\ episodes \subseteq Incidents
  BY <1>1 DEF MemInv, Types, tables
<1>6. SoundTables(view', episodes') /\ SoundTables(durable', episodes')
  BY <1>4, <1>5, SoundGrows DEF SoundTables
<1>7. SoundSeen'
  BY <1>1, <1>4, <1>5, SoundGrows DEF SoundSeen
<1>8. SoundMemory'
  BY <1>1, <1>4, <1>5, SoundGrows DEF SoundMemory
<1>9. NotItself'
  BY <1>1, <1>5 DEF NotItself
<1>10. episodes' \subseteq Incidents
  BY <1>1, <1>5
<1> QED
  BY <1>1, <1>3, <1>5, <1>6, <1>7, <1>8, <1>9, <1>10, CountersKept, MemReassembled

LEMMA GetSummaryKeeps ==
  ASSUME MemInv, NEW i \in Incidents, GetSummary(i)
  PROVE  MemInv'
<1> DEFINE text == view.summary[SessionOf[i]]
<1>1. /\ pc[i] = "read" /\ pc' = [pc EXCEPT ![i] = "write"]
      /\ seen' = [seen EXCEPT ![i] = text]
      /\ UNCHANGED <<episodes, tables, memory, applied, attempts, failures, crashes>>
  BY DEF GetSummary, Goes
<1>2. SessionOf[i] \in Sessions
  BY SessionAssumption
<1>3. Sound(text, episodes)
  BY <1>2 DEF MemInv, SoundTables
<1>4. i \in episodes
  BY <1>1 DEF MemInv, Persisted
<1>5. "write" \in Steps /\ "write" \notin Recalling /\ "read" \notin Recalling
  BY DEF Steps, Recalling
<1> HIDE DEF text
<1>6. pc' \in [Incidents -> Steps] /\ Persisted' /\ NotYet'
  BY <1>1, <1>4, <1>5, Moves
<1>7. seen \in [Incidents -> Seq(Units)] /\ SoundSeen
  BY DEF MemInv, Types
<1>8. \A j \in Incidents : seen'[j] = IF j = i THEN text ELSE seen[j]
  BY <1>1, <1>7
<1>9. seen' \in [Incidents -> Seq(Units)]
  BY <1>1, <1>3, <1>7 DEF Sound
<1>10. SoundSeen'
  BY <1>1, <1>3, <1>7, <1>8 DEF SoundSeen
<1> QED
  BY <1>1, <1>6, <1>9, <1>10, RestKept, TablesKept, CountersKept, MemReassembled

LEMMA UpsertSummaryKeeps ==
  ASSUME MemInv, NEW i \in Incidents, UpsertSummary(i)
  PROVE  MemInv'
<1> DEFINE text == Trimmed(seen[i] \o Line(i))
<1>1. /\ pc[i] = "write" /\ pc' = [pc EXCEPT ![i] = "write_commit"]
      /\ view' = [view EXCEPT !.summary[SessionOf[i]] = text]
      /\ UNCHANGED <<episodes, durable, memory, seen, applied, attempts, failures, crashes>>
  BY DEF UpsertSummary, Goes
<1>2. i \in episodes
  BY <1>1 DEF MemInv, Persisted
<1>3. /\ seen[i] \in Seq(Units) /\ Mentioned(seen[i]) \subseteq episodes
      /\ WholeButTheOldest(seen[i])
  BY DEF MemInv, SoundSeen, Sound
<1>4. Sound(text, episodes)
  <2> DEFINE longer == seen[i] \o Line(i)
  <2>1. longer \in Seq(Units) /\ WholeButTheOldest(longer)
    BY <1>3, LongerText, ConcatIsWhole
  <2>2. Mentioned(longer) \subseteq episodes
    BY <1>2, <1>3, ConcatIsMentioned
  <2> HIDE DEF longer
  <2>3. Sound(Trimmed(longer), episodes)
    BY <2>1, <2>2, TrimmedIsWhole DEF Sound
  <2> QED
    BY <2>3 DEF longer
<1>5. view \in Tables /\ SoundTables(view, episodes) /\ durable \in Tables
      /\ SoundTables(durable, episodes) /\ SessionOf[i] \in Sessions
  BY SessionAssumption DEF MemInv, Types
<1> HIDE DEF text
<1>6. view' \in Tables /\ SoundTables(view', episodes)
  BY <1>1, <1>4, <1>5, TablesWithSummary
<1>7. "write_commit" \in Steps /\ "write_commit" \notin Recalling /\ "write" \notin Recalling
  BY DEF Steps, Recalling
<1>8. pc' \in [Incidents -> Steps] /\ Persisted' /\ NotYet'
  BY <1>1, <1>7, Moves
<1>9. /\ SoundTables(view', episodes') /\ SoundTables(durable', episodes')
      /\ durable' \in Tables
  BY <1>1, <1>5, <1>6
<1> QED
  BY <1>1, <1>6, <1>8, <1>9, RestKept, SeenKept, CountersKept, MemReassembled

LEMMA RecordFixUsageKeeps ==
  ASSUME MemInv, NEW i \in Incidents, RecordFixUsage(i)
  PROVE  MemInv'
<1> DEFINE n == view.fixes + 1
<1>1. /\ pc[i] = "count" /\ pc' = [pc EXCEPT ![i] = "count_commit"]
      /\ view' = [view EXCEPT !.fixes = n]
      /\ UNCHANGED <<episodes, durable, memory, seen, applied, attempts, failures, crashes>>
  BY DEF RecordFixUsage, Goes
<1>2. view \in Tables /\ SoundTables(view, episodes) /\ durable \in Tables
      /\ SoundTables(durable, episodes)
  BY DEF MemInv, Types
<1>3. n \in Nat
  BY <1>2 DEF Tables
<1> HIDE DEF n
<1>4. view' \in Tables /\ view'.summary = view.summary
  BY <1>1, <1>2, <1>3 DEF Tables
<1>5. SoundTables(view', episodes') /\ SoundTables(durable', episodes') /\ durable' \in Tables
  BY <1>1, <1>2, <1>4 DEF SoundTables
<1>6. "count_commit" \in Steps /\ "count_commit" \notin Recalling /\ "count" \notin Recalling
  BY DEF Steps, Recalling
<1>7. pc' \in [Incidents -> Steps] /\ Persisted' /\ NotYet'
  BY <1>1, <1>6, Moves
<1> QED
  BY <1>1, <1>4, <1>5, <1>7, RestKept, SeenKept, CountersKept, MemReassembled

LEMMA CommitKeeps ==
  ASSUME MemInv, NEW i \in Incidents, Commit(i)
  PROVE  MemInv'
<1> DEFINE to == AfterCommit(i)
<1>1. /\ Committing(i) /\ pc' = [pc EXCEPT ![i] = to]
      /\ durable' = view
      /\ UNCHANGED <<episodes, view, memory, seen, applied, attempts, failures, crashes>>
  BY DEF Commit
<1>2. to \in Steps /\ to \notin {"read", "write"}
  BY <1>1 DEF Committing, AfterCommit, Steps, Recalling
<1>3. to \in Recalling => pc[i] \in Recalling
  BY <1>1 DEF Committing, AfterCommit, Recalling
<1> HIDE DEF to
<1>4. pc' \in [Incidents -> Steps] /\ Persisted' /\ NotYet'
  BY <1>1, <1>2, <1>3, Moves
<1>5. view \in Tables /\ SoundTables(view, episodes)
  BY DEF MemInv, Types
<1>6. /\ view' \in Tables /\ durable' \in Tables
      /\ SoundTables(view', episodes') /\ SoundTables(durable', episodes')
  BY <1>1, <1>5
<1> QED
  BY <1>1, <1>4, <1>6, RestKept, SeenKept, CountersKept, MemReassembled

LEMMA RaiseKeeps ==
  ASSUME MemInv, NEW i \in Incidents, Raise(i)
  PROVE  MemInv'
<1>1. /\ failures < MaxFailures /\ failures' = failures + 1
      /\ UNCHANGED <<episodes, tables, seen, applied, attempts, crashes>>
  BY DEF Raise
<1>2. failures \in 0..MaxFailures /\ MaxFailures \in Nat
  BY BoundAssumption DEF MemInv, Types
<1>3. failures' \in 0..MaxFailures
  BY <1>1, <1>2
<1>4. /\ applied' \in [Incidents -> BOOLEAN] /\ attempts' \in Nat
      /\ crashes' \in 0..MaxCrashes /\ episodes' \subseteq Incidents
  BY <1>1 DEF MemInv, Types
<1>5. CASE pc[i] \in Recalling /\ pc' = [pc EXCEPT ![i] = "investigate"]
           /\ memory' = [memory EXCEPT ![i] = NoMemory]
  <2>1. "investigate" \in Steps /\ "investigate" \notin Recalling
    BY DEF Steps, Recalling
  <2>2. pc' \in [Incidents -> Steps] /\ Persisted' /\ NotYet'
    BY <1>1, <1>5, <2>1, Moves
  <2>3. NoMemory \in Recollections /\ NoMemory.similar = {} /\ NoMemory.summary = <<>>
    BY EmptySeq DEF NoMemory, Recollections
  <2>4. memory' \in [Incidents -> Recollections] /\ SoundMemory' /\ NotItself'
    BY <1>1, <1>5, <2>3, EmptyIsSound, Recalls
  <2> QED
    BY <1>1, <1>3, <1>4, <2>2, <2>4, TablesKept, SeenKept, MemReassembled
<1>6. CASE pc' = [pc EXCEPT ![i] = "failed"] /\ UNCHANGED memory
  <2>1. "failed" \in Steps /\ "failed" \notin Recalling
    BY DEF Steps, Recalling
  <2>2. pc' \in [Incidents -> Steps] /\ Persisted' /\ NotYet'
    BY <1>1, <1>6, <2>1, Moves
  <2> QED
    BY <1>1, <1>3, <1>4, <1>6, <2>2, RestKept, TablesKept, SeenKept, MemReassembled
<1> QED
  BY <1>5, <1>6 DEF Raise

\* A crash sends nobody back to recall who was not there, and to no write.
LEMMA CrashKeeps ==
  ASSUME MemInv, Crash
  PROVE  MemInv'
<1>1. /\ crashes < MaxCrashes /\ crashes' = crashes + 1
      /\ view' = durable
      /\ pc' = [i \in Incidents |-> Replayed(i)]
      /\ memory' = [i \in Incidents |-> IF pc[i] \in Recalling THEN NoMemory ELSE memory[i]]
      /\ seen' = [i \in Incidents |-> <<>>]
      /\ UNCHANGED <<episodes, durable, applied, attempts, failures>>
  BY DEF Crash
<1>2. /\ Types /\ SoundTables(durable, episodes) /\ SoundMemory /\ NotYet /\ NotItself
  BY DEF MemInv
<1>3. \A i \in Incidents : Replayed(i) \in {"register", "rejected", "saved", "unsaved", "investigate"}
  BY DEF Replayed
<1>4. \A i \in Incidents : Replayed(i) \in Recalling => pc[i] \in Recalling
  BY DEF Replayed, Recalling
<1>5. pc' \in [Incidents -> Steps] /\ Persisted'
  BY <1>1, <1>3 DEF Steps, Recalling, Persisted
<1>6. NotYet'
  BY <1>1, <1>2, <1>4 DEF NotYet
<1>7. seen' \in [Incidents -> Seq(Units)] /\ SoundSeen'
  BY <1>1, EmptySeq, EmptyIsSound DEF SoundSeen
<1>8. NoMemory \in Recollections /\ NoMemory.similar = {} /\ NoMemory.summary = <<>>
  BY EmptySeq DEF NoMemory, Recollections
<1>9. memory \in [Incidents -> Recollections]
  BY <1>2 DEF Types
<1>10. memory' \in [Incidents -> Recollections]
  BY <1>1, <1>8, <1>9
<1>11. \A i \in Incidents : memory'[i] = NoMemory \/ memory'[i] = memory[i]
  BY <1>1
<1>12. SoundMemory' /\ NotItself'
  BY <1>1, <1>2, <1>8, <1>11, EmptyIsSound DEF SoundMemory, NotItself
<1>13. /\ view' \in Tables /\ durable' \in Tables
       /\ SoundTables(view', episodes') /\ SoundTables(durable', episodes')
  BY <1>1, <1>2 DEF Types
<1>14. crashes' \in 0..MaxCrashes
  BY <1>1, <1>2, BoundAssumption DEF Types
<1>15. /\ episodes' \subseteq Incidents /\ applied' \in [Incidents -> BOOLEAN]
       /\ attempts' \in Nat /\ failures' \in 0..MaxFailures
  BY <1>1, <1>2 DEF Types
<1> QED
  BY <1>5, <1>6, <1>7, <1>10, <1>12, <1>13, <1>14, <1>15, MemReassembled

LEMMA MemStep == MemInv /\ [Next]_vars => MemInv'
<1> SUFFICES ASSUME MemInv, [Next]_vars PROVE MemInv'
  OBVIOUS
<1>1. ASSUME NEW i \in Incidents, Run(i) PROVE MemInv'
  <2>1. CASE Reject(i)
    <3>1. "rejected" \in Steps /\ "rejected" \notin Recalling
      BY DEF Steps, Recalling
    <3>2. attempts \in Nat
      BY DEF MemInv, Types
    <3> QED
      BY <2>1, <3>1, <3>2, JustMoves DEF Reject, Goes
  <2>2. CASE BeginSave(i)
    <3>1. "episode" \in Steps /\ "episode" \notin Recalling
      BY DEF Steps, Recalling
    <3>2. attempts' \in Nat
      BY <2>2 DEF BeginSave, MemInv, Types
    <3> QED
      BY <2>2, <3>1, <3>2, JustMoves DEF BeginSave, Goes
  <2>3. CASE Checkpoint(i)
    <3>1. {"saved", "unsaved"} \subseteq Steps /\ {"saved", "unsaved"} \cap Recalling = {}
      BY DEF Steps, Recalling
    <3>2. attempts \in Nat
      BY DEF MemInv, Types
    <3>3. /\ pc' = [pc EXCEPT ![i] = "saved"] \/ pc' = [pc EXCEPT ![i] = "unsaved"]
          /\ UNCHANGED <<episodes, tables, memory, seen, applied, attempts, failures, crashes>>
      BY <2>3 DEF Checkpoint, Goes
    <3> QED
      BY <3>1, <3>2, <3>3, JustMoves
  <2> QED
    BY <1>1, <2>1, <2>2, <2>3, RegisterKeeps, FindSimilarKeeps, GetConversationKeeps,
       PersistIncidentKeeps, GetSummaryKeeps, UpsertSummaryKeeps, RecordFixUsageKeeps,
       CommitKeeps DEF Run
<1>2. CASE UNCHANGED vars
  BY <1>2 DEF vars, tables, MemInv, Types, SoundTables, SoundSeen, SoundMemory, Persisted,
     NotYet, NotItself
<1> QED
  BY <1>1, <1>2, RaiseKeeps, CrashKeeps DEF Next

LEMMA MemInvAlways == Spec => []MemInv
  BY MemInit, MemStep, PTL DEF Spec

-----------------------------------------------------------------------------
(* The usage count.                                                        *)

Returned == {"returned", "saved"}
Executed == {"count_commit"} \cup Returned
Pending  == {"episode", "read", "write", "write_commit", "count"}

\* The runs with a draft to count that are at one of the given steps.
At(steps) == {i \in Incidents : applied[i] /\ pc[i] \in steps}

\* An increment is in the tables from its execution on and durable once its run has
\* returned; who has begun to save and not yet counted still owes one.
FixInv ==
  /\ \A i \in Incidents : pc[i] \in {"count", "count_commit"} => applied[i]
  /\ durable.fixes <= view.fixes
  /\ Cardinality(At(Executed)) <= view.fixes
  /\ Cardinality(At(Returned)) <= durable.fixes
  /\ view.fixes + Cardinality(At(Pending)) <= attempts

LEMMA AtIsFinite ==
  ASSUME NEW steps
  PROVE  IsFiniteSet(At(steps)) /\ Cardinality(At(steps)) \in Nat
<1>1. At(steps) \subseteq Incidents
  BY DEF At
<1> QED
  BY <1>1, IncidentsAssumption, FS_Subset, FS_CardinalityType

\* How many runs are at some steps once i has moved.
LEMMA CountAfter ==
  ASSUME Types, NEW i \in Incidents, NEW to,
         pc' = [pc EXCEPT ![i] = to], applied' = applied, NEW steps
  PROVE  /\ Cardinality(At(steps)') \in Nat
         /\ Cardinality(At(steps)') <= Cardinality(At(steps)) + 1
         /\ (to \in steps => pc[i] \in steps \/ ~applied[i]) =>
              Cardinality(At(steps)') <= Cardinality(At(steps))
         /\ to \notin steps /\ pc[i] \in steps /\ applied[i] =>
              Cardinality(At(steps)') <= Cardinality(At(steps)) - 1
<1> DEFINE X == At(steps)
           Y == At(steps)'
<1>1. \A j \in Incidents : pc'[j] = IF j = i THEN to ELSE pc[j]
  BY DEF Types
<1>2. IsFiniteSet(X) /\ Cardinality(X) \in Nat
  BY AtIsFinite
<1>3. Y \subseteq X \cup {i}
  BY <1>1 DEF At
<1>4. (to \in steps => pc[i] \in steps \/ ~applied[i]) => Y \subseteq X
  BY <1>1 DEF At
<1>5. to \notin steps /\ pc[i] \in steps /\ applied[i] => Y \subseteq X \ {i} /\ i \in X
  BY <1>1 DEF At
<1> HIDE DEF X, Y
<1>6. /\ IsFiniteSet(X \cup {i}) /\ IsFiniteSet(X \ {i})
      /\ Cardinality(X \cup {i}) = Cardinality(X) \/ Cardinality(X \cup {i}) = Cardinality(X) + 1
      /\ i \in X => Cardinality(X \ {i}) = Cardinality(X) - 1
  BY <1>2, FS_AddElement, FS_RemoveElement
<1>7. IsFiniteSet(Y) /\ Cardinality(Y) \in Nat /\ Cardinality(Y) <= Cardinality(X \cup {i})
  BY <1>3, <1>6, FS_Subset, FS_CardinalityType
<1>8. Cardinality(Y) <= Cardinality(X) + 1
  BY <1>2, <1>6, <1>7
<1>9. Y \subseteq X => Cardinality(Y) <= Cardinality(X)
  BY <1>2, FS_Subset
<1>10. Y \subseteq X \ {i} => Cardinality(Y) <= Cardinality(X \ {i})
  BY <1>6, FS_Subset
<1>11. Cardinality(Y) \in Nat
  BY <1>7
<1>12. to \notin steps /\ pc[i] \in steps /\ applied[i] => Cardinality(Y) <= Cardinality(X) - 1
  BY <1>5, <1>6, <1>10
<1> QED
  BY <1>4, <1>8, <1>9, <1>11, <1>12 DEF X, Y

\* A step that neither begins to save nor counts.
LEMMA CountsStay ==
  ASSUME Types, FixInv, NEW i \in Incidents, NEW to,
         pc' = [pc EXCEPT ![i] = to], applied' = applied, attempts' = attempts,
         to \in {"count", "count_commit"} => applied[i],
         to \in Pending => pc[i] \in Pending,
         to \in Executed => pc[i] \in Executed \/ ~applied[i],
         view'.fixes = view.fixes,
         \/ durable'.fixes = durable.fixes
              /\ (to \in Returned => pc[i] \in Returned \/ ~applied[i])
         \/ durable'.fixes = view.fixes
  PROVE  FixInv'
<1>1. view.fixes \in Nat /\ durable.fixes \in Nat /\ attempts \in Nat
  BY DEF Types, Tables
<1>2. /\ Cardinality(At(Executed)) \in Nat /\ Cardinality(At(Returned)) \in Nat
      /\ Cardinality(At(Pending)) \in Nat
  BY AtIsFinite
<1>3. /\ Cardinality(At(Executed)') \in Nat
      /\ Cardinality(At(Executed)') <= Cardinality(At(Executed))
  BY CountAfter
<1>4. /\ Cardinality(At(Pending)') \in Nat
      /\ Cardinality(At(Pending)') <= Cardinality(At(Pending))
  BY CountAfter
<1>5. Cardinality(At(Returned)') \in Nat
  BY CountAfter
<1>6. Cardinality(At(Returned)') <= durable'.fixes
  <2>1. CASE durable'.fixes = durable.fixes
               /\ (to \in Returned => pc[i] \in Returned \/ ~applied[i])
    <3>1. Cardinality(At(Returned)') <= Cardinality(At(Returned))
      BY <2>1, CountAfter
    <3> QED
      BY <1>1, <1>2, <1>5, <2>1, <3>1 DEF FixInv
  <2>2. CASE durable'.fixes = view.fixes
    <3>1. At(Returned)' \subseteq At(Executed)'
      BY DEF At, Returned, Executed
    <3>2. IsFiniteSet(At(Executed)')
      <4>1. At(Executed)' \subseteq Incidents
        BY DEF At
      <4> QED
        BY <4>1, IncidentsAssumption, FS_Subset
    <3>3. Cardinality(At(Returned)') <= Cardinality(At(Executed)')
      BY <3>1, <3>2, FS_Subset
    <3> QED
      BY <1>1, <1>2, <1>3, <1>5, <2>2, <3>3 DEF FixInv
  <2> QED
    BY <2>1, <2>2
<1>7. \A j \in Incidents : pc'[j] \in {"count", "count_commit"} => applied'[j]
  <2>1. \A j \in Incidents : pc'[j] = IF j = i THEN to ELSE pc[j]
    BY DEF Types
  <2> QED
    BY <2>1 DEF FixInv
<1>8. durable'.fixes <= view'.fixes
  BY <1>1 DEF FixInv
<1>9. /\ Cardinality(At(Executed)') <= view'.fixes
      /\ view'.fixes + Cardinality(At(Pending)') <= attempts'
  BY <1>1, <1>2, <1>3, <1>4 DEF FixInv
<1> QED
  BY <1>6, <1>7, <1>8, <1>9 DEF FixInv

LEMMA BeginSaveCounts ==
  ASSUME Types, FixInv, NEW i \in Incidents, BeginSave(i)
  PROVE  FixInv'
<1>1. /\ pc[i] = "investigate" /\ pc' = [pc EXCEPT ![i] = "episode"] /\ applied' = applied
      /\ attempts' = attempts + IF applied[i] THEN 1 ELSE 0
      /\ view' = view /\ durable' = durable
  BY DEF BeginSave, Goes, tables
<1>2. view.fixes \in Nat /\ durable.fixes \in Nat /\ attempts \in Nat
  BY DEF Types, Tables
<1>3. /\ Cardinality(At(Executed)) \in Nat /\ Cardinality(At(Returned)) \in Nat
      /\ Cardinality(At(Pending)) \in Nat
  BY AtIsFinite
<1>4. "episode" \notin Executed /\ "episode" \notin Returned
  BY DEF Executed, Returned
<1>5. /\ Cardinality(At(Executed)') <= Cardinality(At(Executed))
      /\ Cardinality(At(Returned)') <= Cardinality(At(Returned))
      /\ Cardinality(At(Executed)') \in Nat /\ Cardinality(At(Returned)') \in Nat
  BY <1>1, <1>4, CountAfter
<1>6. /\ Cardinality(At(Pending)') \in Nat
      /\ Cardinality(At(Pending)') <= Cardinality(At(Pending)) + 1
      /\ ~applied[i] => Cardinality(At(Pending)') <= Cardinality(At(Pending))
  BY <1>1, CountAfter
<1>7. view.fixes + Cardinality(At(Pending)') <= attempts'
  BY <1>1, <1>2, <1>3, <1>6 DEF FixInv
<1>8. /\ Cardinality(At(Executed)') <= view.fixes
      /\ Cardinality(At(Returned)') <= durable.fixes
  BY <1>2, <1>3, <1>5 DEF FixInv
<1>9. \A j \in Incidents : pc'[j] \in {"count", "count_commit"} => applied'[j]
  <2>1. \A j \in Incidents : pc'[j] = IF j = i THEN "episode" ELSE pc[j]
    BY <1>1 DEF Types
  <2> QED
    BY <1>1, <2>1 DEF FixInv
<1> QED
  BY <1>1, <1>7, <1>8, <1>9 DEF FixInv

LEMMA RecordFixCounts ==
  ASSUME Types, FixInv, NEW i \in Incidents, RecordFixUsage(i)
  PROVE  FixInv'
<1>1. /\ pc[i] = "count" /\ pc' = [pc EXCEPT ![i] = "count_commit"] /\ applied' = applied
      /\ attempts' = attempts /\ durable' = durable /\ view' = [view EXCEPT !.fixes = @ + 1]
  BY DEF RecordFixUsage, Goes
<1>2. /\ view.fixes \in Nat /\ durable.fixes \in Nat /\ attempts \in Nat
      /\ view'.fixes = view.fixes + 1
  BY <1>1 DEF Types, Tables
<1>3. applied[i]
  BY <1>1 DEF FixInv
<1>4. /\ Cardinality(At(Executed)) \in Nat /\ Cardinality(At(Returned)) \in Nat
      /\ Cardinality(At(Pending)) \in Nat
  BY AtIsFinite
<1>5. /\ Cardinality(At(Executed)') <= Cardinality(At(Executed)) + 1
      /\ Cardinality(At(Executed)') \in Nat
  BY <1>1, CountAfter
<1>6. "count_commit" \notin Returned /\ "count_commit" \notin Pending /\ "count" \in Pending
  BY DEF Returned, Pending
<1>7. /\ Cardinality(At(Returned)') <= Cardinality(At(Returned))
      /\ Cardinality(At(Returned)') \in Nat
  BY <1>1, <1>6, CountAfter
<1>8. /\ Cardinality(At(Pending)') <= Cardinality(At(Pending)) - 1
      /\ Cardinality(At(Pending)') \in Nat
  BY <1>1, <1>3, <1>6, CountAfter
<1>9. /\ Cardinality(At(Executed)') <= view'.fixes
      /\ Cardinality(At(Returned)') <= durable'.fixes
      /\ view'.fixes + Cardinality(At(Pending)') <= attempts'
      /\ durable'.fixes <= view'.fixes
  BY <1>1, <1>2, <1>4, <1>5, <1>7, <1>8 DEF FixInv
<1>10. \A j \in Incidents : pc'[j] \in {"count", "count_commit"} => applied'[j]
  <2>1. \A j \in Incidents : pc'[j] = IF j = i THEN "count_commit" ELSE pc[j]
    BY <1>1 DEF Types
  <2> QED
    BY <1>1, <1>3, <2>1 DEF FixInv
<1> QED
  BY <1>9, <1>10 DEF FixInv

LEMMA CommitCounts ==
  ASSUME Types, FixInv, NEW i \in Incidents, Commit(i)
  PROVE  FixInv'
<1> DEFINE to == AfterCommit(i)
<1>1. /\ Committing(i) /\ pc' = [pc EXCEPT ![i] = to] /\ applied' = applied
      /\ attempts' = attempts /\ durable' = view /\ view' = view
  BY DEF Commit
<1>2. /\ to \in {"count", "count_commit"} => applied[i]
      /\ to \in Pending => pc[i] \in Pending
      /\ to \in Executed => pc[i] \in Executed \/ ~applied[i]
  BY <1>1 DEF Committing, AfterCommit, Pending, Executed, Returned
<1> HIDE DEF to
<1> QED
  BY <1>1, <1>2, CountsStay

\* A crash takes back what is not committed, and with it all that is not checkpointed.
LEMMA CrashCounts ==
  ASSUME Types, FixInv, Crash
  PROVE  FixInv'
<1>1. /\ view' = durable /\ durable' = durable /\ applied' = applied /\ attempts' = attempts
      /\ pc' = [i \in Incidents |-> Replayed(i)]
  BY DEF Crash
<1>2. \A i \in Incidents : /\ pc'[i] \notin {"count", "count_commit"} /\ pc'[i] \notin Pending
                           /\ pc'[i] \in Executed => pc'[i] = "saved" /\ pc[i] = "saved"
                           /\ pc'[i] \in Returned => pc'[i] = "saved" /\ pc[i] = "saved"
  BY <1>1 DEF Replayed, Pending, Executed, Returned
<1>3. At(Executed)' \subseteq At(Returned) /\ At(Returned)' \subseteq At(Returned)
  BY <1>1, <1>2 DEF At, Returned
<1>4. At(Pending)' = {}
  BY <1>2 DEF At
<1>5. /\ view.fixes \in Nat /\ durable.fixes \in Nat /\ attempts \in Nat
      /\ IsFiniteSet(At(Returned)) /\ Cardinality(At(Returned)) \in Nat
      /\ Cardinality(At(Pending)) \in Nat
  BY AtIsFinite DEF Types, Tables
<1>6. /\ Cardinality(At(Executed)') <= Cardinality(At(Returned))
      /\ Cardinality(At(Returned)') <= Cardinality(At(Returned))
      /\ IsFiniteSet(At(Executed)') /\ IsFiniteSet(At(Returned)')
  BY <1>3, <1>5, FS_Subset
<1>7. Cardinality(At(Executed)') \in Nat /\ Cardinality(At(Returned)') \in Nat
  BY <1>6, FS_CardinalityType
<1>8. Cardinality(At(Pending)') = 0
  BY <1>4, FS_EmptySet
<1>9. /\ Cardinality(At(Executed)') <= view'.fixes
      /\ Cardinality(At(Returned)') <= durable'.fixes
      /\ view'.fixes + Cardinality(At(Pending)') <= attempts'
      /\ durable'.fixes <= view'.fixes
  BY <1>1, <1>5, <1>6, <1>7, <1>8 DEF FixInv
<1> QED
  BY <1>2, <1>9 DEF FixInv

LEMMA FixInit == Init => FixInv
<1> SUFFICES ASSUME Init PROVE FixInv
  OBVIOUS
<1>1. /\ \A i \in Incidents : pc[i] = "register"
      /\ view.fixes = 0 /\ durable.fixes = 0 /\ attempts = 0
  BY DEF Init, EmptyTables
<1>2. At(Executed) = {} /\ At(Returned) = {} /\ At(Pending) = {}
  BY <1>1 DEF At, Executed, Returned, Pending
<1>3. Cardinality({}) = 0
  BY FS_EmptySet
<1> QED
  BY <1>1, <1>2, <1>3 DEF FixInv

LEMMA FixStep == Types /\ FixInv /\ [Next]_vars => FixInv'
<1> SUFFICES ASSUME Types, FixInv, [Next]_vars PROVE FixInv'
  OBVIOUS
<1>1. ASSUME NEW i \in Incidents,
             Register(i) \/ FindSimilar(i) \/ GetConversation(i) \/ Reject(i)
      PROVE  FixInv'
  <2> DEFINE to == CASE pc[i] = "register"     -> "register_commit"
                     [] pc[i] = "find_similar" -> "get_summary"
                     [] pc[i] = "get_summary"  -> "investigate"
                     [] pc[i] = "investigate"  -> "rejected"
  <2>1. /\ pc' = [pc EXCEPT ![i] = to] /\ applied' = applied /\ attempts' = attempts
        /\ durable' = durable /\ view'.fixes = view.fixes
        /\ to \in {"register_commit", "get_summary", "investigate", "rejected"}
    BY <1>1 DEF Register, FindSimilar, GetConversation, Reject, Goes, tables, Types, Tables
  <2>2. to \notin {"count", "count_commit"} \cup Pending \cup Executed \cup Returned
    BY <2>1 DEF Pending, Executed, Returned
  <2> HIDE DEF to
  <2> QED
    BY <2>1, <2>2, CountsStay
<1>2. ASSUME NEW i \in Incidents, PersistIncident(i) \/ GetSummary(i) \/ UpsertSummary(i)
      PROVE  FixInv'
  <2> DEFINE to == CASE pc[i] = "episode" -> "read"
                     [] pc[i] = "read"    -> "write"
                     [] pc[i] = "write"   -> "write_commit"
  <2>1. /\ pc' = [pc EXCEPT ![i] = to] /\ applied' = applied /\ attempts' = attempts
        /\ durable' = durable /\ view'.fixes = view.fixes
        /\ to \in {"read", "write", "write_commit"} /\ pc[i] \in {"episode", "read", "write"}
    BY <1>2 DEF PersistIncident, GetSummary, UpsertSummary, Goes, tables, Types, Tables
  <2>2. to \notin {"count", "count_commit"} \cup Executed \cup Returned /\ pc[i] \in Pending
    BY <2>1 DEF Pending, Executed, Returned
  <2> HIDE DEF to
  <2> QED
    BY <2>1, <2>2, CountsStay
<1>3. ASSUME NEW i \in Incidents, Checkpoint(i) PROVE FixInv'
  <2> DEFINE to == IF pc[i] = "returned" THEN "saved" ELSE "unsaved"
  <2>1. /\ pc' = [pc EXCEPT ![i] = to] /\ applied' = applied /\ attempts' = attempts
        /\ durable' = durable /\ view' = view
    BY <1>3 DEF Checkpoint, Goes, tables
  <2>2. /\ to \notin {"count", "count_commit"} \cup Pending
        /\ to \in Executed => pc[i] \in Executed
        /\ to \in Returned => pc[i] \in Returned
    BY DEF Pending, Executed, Returned
  <2> HIDE DEF to
  <2> QED
    BY <2>1, <2>2, CountsStay
<1>4. ASSUME NEW i \in Incidents, Raise(i) PROVE FixInv'
  <2> DEFINE to == IF pc[i] \in Recalling THEN "investigate" ELSE "failed"
  <2>1. /\ pc' = [pc EXCEPT ![i] = to] /\ applied' = applied /\ attempts' = attempts
        /\ durable' = durable /\ view' = view
    BY <1>4 DEF Raise, tables, Recalling
  <2>2. to \notin {"count", "count_commit"} \cup Pending \cup Executed \cup Returned
    BY DEF Pending, Executed, Returned
  <2> HIDE DEF to
  <2> QED
    BY <2>1, <2>2, CountsStay
<1>5. CASE UNCHANGED vars
  BY <1>5 DEF vars, tables, FixInv, At
<1> QED
  BY <1>1, <1>2, <1>3, <1>4, <1>5, BeginSaveCounts, RecordFixCounts, CommitCounts, CrashCounts
  DEF Next, Run

LEMMA FixInvAlways == Spec => [](MemInv /\ FixInv)
<1>1. MemInv /\ FixInv /\ [Next]_vars => FixInv'
  BY FixStep DEF MemInv
<1> QED
  BY <1>1, FixInit, MemInvAlways, PTL DEF Spec

-----------------------------------------------------------------------------
(* The line of a lone incident.                                            *)

\* Overlapping saves of a session lose lines, and a later save cuts an earlier one's:
\* what is said here holds where each session saves one incident.
OneSavePerSession ==
  \A i, j \in Incidents \ Rejected : SessionOf[i] = SessionOf[j] => i = j

Committed == {"count", "count_commit", "returned", "saved"}
Written   == {"write_commit"} \cup Committed
Saving    == {"episode", "read", "write"} \cup Written

InView(i)    == Contains(view.summary[SessionOf[i]], Line(i))
InDurable(i) == Contains(durable.summary[SessionOf[i]], Line(i))

KeptInv ==
  \A i \in Incidents :
    /\ pc[i] \in Saving => i \notin Rejected
    /\ pc[i] \in Written => InView(i)
    /\ pc[i] \in Committed => InDurable(i)

\* A line is whole behind whatever text it is appended to, trimmed or not.
LEMMA AppendedLineIsKept ==
  ASSUME NEW i \in Incidents, NEW text \in Seq(Units)
  PROVE  Contains(Trimmed(text \o Line(i)), Line(i))
<1> DEFINE line   == Line(i)
           longer == text \o Line(i)
           n      == Len(text)
           m      == n + LineLen
           kept   == Trimmed(longer)
<1>1. /\ n \in Nat /\ LineLen \in Nat \ {0} /\ Cap \in Nat /\ LineLen <= Cap /\ m \in Nat
      /\ line \in Seq(Units) /\ Len(line) = LineLen
  BY LenProperties, LengthAssumption, LineIsText
<1>2. /\ longer \in Seq(Units) /\ Len(longer) = m
      /\ \A k \in 1..m : longer[k] = IF k <= n THEN text[k] ELSE line[k - n]
  BY LongerText
<1> HIDE DEF line, longer, n
<1>3. \E d \in 0..n : /\ kept \in Seq(Units) /\ Len(kept) = m - d
                      /\ \A k \in 1..(m - d) : kept[k] = longer[d + k]
  <2>1. CASE ~(m > Cap)
    <3>1. kept = longer
      BY <1>2, <2>1 DEF Trimmed
    <3>2. 0 \in 0..n /\ m - 0 = m /\ \A k \in 1..m : 0 + k = k
      BY <1>1
    <3> QED
      BY <1>2, <3>1, <3>2
  <2>2. CASE m > Cap
    <3> DEFINE d == m - Cap
    <3>1. d \in 0..n /\ d + 1 \in Int /\ m \in Int /\ m - (d + 1) + 1 = Cap /\ m - d = Cap
          /\ d + 1 <= m
      BY <1>1, <2>2
    <3>2. kept = SubSeq(longer, d + 1, m)
      BY <1>2, <2>2 DEF Trimmed
    <3>3. \A k \in (d + 1)..m : longer[k] \in Units
      BY <1>1, <1>2, <3>1, ElementOfSeq
    <3> HIDE DEF d, m, kept
    <3>4. /\ kept \in Seq(Units) /\ Len(kept) = m - (d + 1) + 1
          /\ \A k \in 1..(m - (d + 1) + 1) : kept[k] = longer[(d + 1) + k - 1]
      BY <3>1, <3>2, <3>3, SubSeqProperties
    <3>5. \A k \in 1..Cap : (d + 1) + k - 1 = d + k
      BY <3>1
    <3> QED
      BY <3>1, <3>4, <3>5
  <2> QED
    BY <2>1, <2>2
<1>4. PICK d \in 0..n : /\ kept \in Seq(Units) /\ Len(kept) = m - d
                        /\ \A k \in 1..(m - d) : kept[k] = longer[d + k]
  BY <1>3
<1> HIDE DEF kept
<1> DEFINE o == n - d
<1>5. /\ o \in 0..(Len(kept) - Len(line)) /\ o + 1 \in Int /\ o + LineLen \in Int
      /\ o + 1 <= o + LineLen /\ (o + LineLen) - (o + 1) + 1 = LineLen
  BY <1>1, <1>4
<1>6. \A k \in 1..LineLen : kept[o + k] = line[k] /\ o + k \in 1..Len(kept)
  <2> SUFFICES ASSUME NEW k \in 1..LineLen
               PROVE  kept[o + k] = line[k] /\ o + k \in 1..Len(kept)
    OBVIOUS
  <2>1. /\ o + k \in 1..(m - d) /\ d + (o + k) = n + k /\ n + k \in 1..m
        /\ ~(n + k <= n) /\ (n + k) - n = k
    BY <1>1, <1>4
  <2> QED
    BY <1>2, <1>4, <2>1
<1> DEFINE piece == SubSeq(kept, o + 1, o + LineLen)
<1>7. \A k \in (o + 1)..(o + LineLen) : kept[k] \in Units
  <2>1. \A k \in (o + 1)..(o + LineLen) : k \in 1..Len(kept)
    BY <1>1, <1>4, <1>5
  <2> QED
    BY <1>4, <2>1, ElementOfSeq
<1>8. /\ piece \in Seq(Units) /\ Len(piece) = LineLen
      /\ \A k \in 1..LineLen : piece[k] = kept[(o + 1) + k - 1]
  <2> HIDE DEF o
  <2> QED
    BY <1>5, <1>7, SubSeqProperties
<1>9. \A k \in 1..LineLen : (o + 1) + k - 1 = o + k
  BY <1>5
<1>10. piece = line
  <2> HIDE DEF piece, o
  <2> QED
    BY <1>1, <1>6, <1>8, <1>9, SeqEqual
<1>11. Contains(kept, line)
  BY <1>1, <1>5, <1>10 DEF Contains
<1> QED
  BY <1>11 DEF kept, longer, line

\* A step of i that leaves the summaries as they are, or commits them.
LEMMA LinesStay ==
  ASSUME Types, KeptInv, NEW i \in Incidents, NEW to, pc' = [pc EXCEPT ![i] = to],
         view'.summary = view.summary,
         to \in Saving => i \notin Rejected,
         to \in Written => pc[i] \in Written,
         \/ durable' = durable /\ (to \in Committed => pc[i] \in Committed)
         \/ durable' = view
  PROVE  KeptInv'
<1>1. \A j \in Incidents : pc'[j] = IF j = i THEN to ELSE pc[j]
  BY DEF Types
<1>2. Committed \subseteq Written
  BY DEF Written
<1>3. ASSUME NEW j \in Incidents, pc'[j] \in Written PROVE InView(j)'
  BY <1>1, <1>3 DEF KeptInv, InView
<1>4. ASSUME NEW j \in Incidents, pc'[j] \in Committed PROVE InDurable(j)'
  <2>1. CASE durable' = durable /\ (to \in Committed => pc[i] \in Committed)
    BY <1>1, <1>4, <2>1 DEF KeptInv, InDurable
  <2>2. CASE durable' = view
    <3>1. InView(j)
      BY <1>1, <1>2, <1>4 DEF KeptInv
    <3> QED
      BY <2>2, <3>1 DEF InView, InDurable
  <2> QED
    BY <2>1, <2>2
<1> QED
  BY <1>1, <1>3, <1>4 DEF KeptInv

LEMMA UpsertKeepsLines ==
  ASSUME OneSavePerSession, Types, KeptInv, NEW i \in Incidents, UpsertSummary(i)
  PROVE  KeptInv'
<1> DEFINE s    == SessionOf[i]
           text == Trimmed(seen[i] \o Line(i))
<1>1. /\ pc[i] = "write" /\ pc' = [pc EXCEPT ![i] = "write_commit"] /\ durable' = durable
      /\ view' = [view EXCEPT !.summary[s] = text]
  BY DEF UpsertSummary, Goes
<1>2. \A j \in Incidents : pc'[j] = IF j = i THEN "write_commit" ELSE pc[j]
  BY <1>1 DEF Types
<1>3. seen[i] \in Seq(Units) /\ s \in Sessions /\ \A j \in Incidents : SessionOf[j] \in Sessions
  BY SessionAssumption DEF Types
<1>4. Contains(text, Line(i))
  BY <1>3, AppendedLineIsKept
<1>5. i \notin Rejected /\ "write_commit" \notin Committed
  BY <1>1 DEF KeptInv, Saving, Committed
<1> HIDE DEF s, text
<1>6. /\ view'.summary[s] = text
      /\ \A q \in Sessions \ {s} : view'.summary[q] = view.summary[q]
  BY <1>1, <1>3 DEF Types, Tables
<1>7. ASSUME NEW j \in Incidents, pc'[j] \in Written PROVE InView(j)'
  <2>1. CASE j = i
    BY <1>4, <1>6, <2>1 DEF InView, s
  <2>2. CASE j # i
    <3>1. pc[j] \in Written /\ j \notin Rejected
      BY <1>2, <1>7, <2>2 DEF KeptInv, Saving
    <3>2. SessionOf[j] # s
      BY <1>5, <2>2, <3>1 DEF OneSavePerSession, s
    <3> QED
      BY <1>3, <1>6, <3>1, <3>2 DEF KeptInv, InView
  <2> QED
    BY <2>1, <2>2
<1>8. ASSUME NEW j \in Incidents, pc'[j] \in Committed PROVE InDurable(j)'
  BY <1>1, <1>2, <1>5, <1>8 DEF KeptInv, InDurable
<1>9. ASSUME NEW j \in Incidents, pc'[j] \in Saving PROVE j \notin Rejected
  BY <1>2, <1>5, <1>9 DEF KeptInv
<1> QED
  BY <1>7, <1>8, <1>9 DEF KeptInv

LEMMA KeptStep == OneSavePerSession /\ Types /\ KeptInv /\ [Next]_vars => KeptInv'
<1> SUFFICES ASSUME OneSavePerSession, Types, KeptInv, [Next]_vars PROVE KeptInv'
  OBVIOUS
<1>1. ASSUME NEW i \in Incidents,
             \/ Register(i) \/ FindSimilar(i) \/ GetConversation(i) \/ Reject(i) \/ BeginSave(i)
             \/ PersistIncident(i) \/ GetSummary(i)
      PROVE  KeptInv'
  <2> DEFINE to == pc'[i]
  <2>1. /\ pc' = [pc EXCEPT ![i] = to] /\ durable' = durable /\ view'.summary = view.summary
        /\ to \in {"register_commit", "get_summary", "investigate", "rejected", "episode",
                   "read", "write"}
        /\ to \in {"episode", "read", "write"} => i \notin Rejected
    <3>1. CASE Register(i)
      BY <3>1 DEF Register, Goes, Types, Tables
    <3>2. CASE FindSimilar(i) \/ GetConversation(i) \/ Reject(i)
      BY <3>2 DEF FindSimilar, GetConversation, Reject, Goes, tables, Types
    <3>3. CASE BeginSave(i)
      BY <3>3 DEF BeginSave, Goes, tables, Types
    <3>4. CASE PersistIncident(i) \/ GetSummary(i)
      <4>1. pc[i] \in Saving
        BY <3>4 DEF PersistIncident, GetSummary, Goes, Saving
      <4> QED
        BY <3>4, <4>1 DEF PersistIncident, GetSummary, Goes, tables, Types, KeptInv
    <3> QED
      BY <1>1, <3>1, <3>2, <3>3, <3>4
  <2>2. to \notin Written /\ to \notin Committed
        /\ (to \in Saving => to \in {"episode", "read", "write"})
    BY <2>1 DEF Saving, Written, Committed
  <2> HIDE DEF to
  <2> QED
    BY <2>1, <2>2, LinesStay
<1>2. ASSUME NEW i \in Incidents, RecordFixUsage(i) PROVE KeptInv'
  <2>1. /\ pc[i] = "count" /\ pc' = [pc EXCEPT ![i] = "count_commit"] /\ durable' = durable
        /\ view'.summary = view.summary
    BY <1>2 DEF RecordFixUsage, Goes, Types, Tables
  <2>2. pc[i] \in Committed /\ pc[i] \in Written /\ i \notin Rejected
    BY <2>1 DEF KeptInv, Saving, Written, Committed
  <2> QED
    BY <2>1, <2>2, LinesStay
<1>3. ASSUME NEW i \in Incidents, Commit(i) PROVE KeptInv'
  <2> DEFINE to == AfterCommit(i)
  <2>1. /\ pc' = [pc EXCEPT ![i] = to] /\ durable' = view /\ view' = view /\ Committing(i)
    BY <1>3 DEF Commit
  <2>2. /\ to \in Written => pc[i] \in Written
        /\ to \in Saving => pc[i] \in Saving
    BY <2>1 DEF AfterCommit, Committing, Saving, Written, Committed
  <2> HIDE DEF to
  <2>3. to \in Saving => i \notin Rejected
    BY <2>2 DEF KeptInv
  <2> QED
    BY <2>1, <2>2, <2>3, LinesStay
<1>4. ASSUME NEW i \in Incidents, Checkpoint(i) \/ Raise(i) PROVE KeptInv'
  <2> DEFINE to == pc'[i]
  <2>1. /\ pc' = [pc EXCEPT ![i] = to] /\ durable' = durable /\ view' = view
        /\ \/ to \in {"unsaved", "investigate", "failed"}
           \/ to = "saved" /\ pc[i] = "returned"
    BY <1>4 DEF Checkpoint, Raise, Goes, tables, Types
  <2>2. /\ to \in Written \cup Committed \cup Saving => pc[i] = "returned"
        /\ "returned" \in Written /\ "returned" \in Committed /\ "returned" \in Saving
    BY <2>1 DEF Saving, Written, Committed
  <2> HIDE DEF to
  <2>3. to \in Saving => i \notin Rejected
    BY <2>2 DEF KeptInv
  <2> QED
    BY <2>1, <2>2, <2>3, LinesStay
<1>5. CASE Crash
  <2>1. /\ view' = durable /\ durable' = durable /\ pc' = [i \in Incidents |-> Replayed(i)]
    BY <1>5 DEF Crash
  <2>2. \A i \in Incidents : pc'[i] \in Saving => pc[i] = "saved"
    BY <2>1 DEF Replayed, Saving, Written, Committed
  <2>3. Committed \subseteq Written /\ Written \subseteq Saving /\ "saved" \in Committed
    BY DEF Saving, Written, Committed
  <2> QED
    BY <2>1, <2>2, <2>3 DEF KeptInv, InView, InDurable
<1>6. CASE UNCHANGED vars
  BY <1>6 DEF vars, tables, KeptInv, InView, InDurable
<1> QED
  BY <1>1, <1>2, <1>3, <1>4, <1>5, <1>6, UpsertKeepsLines DEF Next, Run

LEMMA KeptInit == Init => KeptInv
  BY DEF Init, KeptInv, Saving, Written, Committed

-----------------------------------------------------------------------------
(* What follows of it.                                                     *)

\* Stores and runs keep their types, for any number of runs, failures and crashes.
THEOREM TypeCorrect == Spec => []TypeOK
<1>1. MemInv => TypeOK
  BY DEF MemInv, Types, TypeOK, Tables, Recollections
<1> QED
  BY <1>1, MemInvAlways, PTL

\* What the conversation mentions has its episode, committed or not, however
\* append_incident() calls interleave, raise and are replayed.
THEOREM EpisodesComeFirst == Spec => []LinesHaveEpisodes
<1>1. MemInv => LinesHaveEpisodes
  BY DEF MemInv, SoundTables, Sound, Mentioned, LinesHaveEpisodes
<1> QED
  BY <1>1, MemInvAlways, PTL

\* What recall() returns names past incidents only, each with its episode, and of the
\* summary that append_incident() trims no line but the oldest is cut.
THEOREM RecallSound == Spec => []RecallIsSound
<1>1. MemInv => RecallIsSound
  BY DEF MemInv, SoundMemory, Sound, NotItself, RecallIsSound
<1> QED
  BY <1>1, MemInvAlways, PTL

\* The count of a fix lies between the runs that have saved and the saves begun, however
\* record_fix_usage() calls interleave, raise, are taken back and replayed.
THEOREM FixesAreCounted == Spec => []FixCountIsBounded
<1>1. MemInv /\ FixInv => FixCountIsBounded
  <2> SUFFICES ASSUME MemInv, FixInv PROVE FixCountIsBounded
    OBVIOUS
  <2>1. {i \in Saved : applied[i]} = At(Returned)
    BY DEF Saved, At, Returned
  <2>2. view.fixes \in Nat /\ attempts \in Nat /\ Cardinality(At(Pending)) \in Nat
    BY AtIsFinite DEF MemInv, Types, Tables
  <2>3. view.fixes <= attempts
    <3> DEFINE owed == Cardinality(At(Pending))
    <3>1. owed \in Nat /\ view.fixes + owed <= attempts
      BY <2>2 DEF FixInv
    <3> HIDE DEF owed
    <3> QED
      BY <2>2, <3>1
  <2>4. Cardinality({i \in Saved : applied[i]}) <= durable.fixes
    <3>1. Cardinality(At(Returned)) <= durable.fixes
      BY DEF FixInv
    <3> QED
      BY <2>1, <3>1
  <2> QED
    BY <2>3, <2>4 DEF FixCountIsBounded
<1> QED
  BY <1>1, FixInvAlways, MemInvAlways, PTL

\* Where a session saves one incident, memory_persisted is true of it for good: its whole
\* line is committed, whatever other sessions, failures and crashes do (append_incident()).
THEOREM LinesAreKept ==
  ASSUME OneSavePerSession PROVE Spec => []EveryLineIsKept
<1>1. MemInv /\ KeptInv => EveryLineIsKept
  BY DEF KeptInv, EveryLineIsKept, Saved, InDurable, Committed
<1>2. MemInv /\ KeptInv /\ [Next]_vars => KeptInv'
  BY KeptStep DEF MemInv
<1> QED
  BY <1>1, <1>2, KeptInit, MemInvAlways, PTL DEF Spec

=============================================================================
