-------------------------- MODULE Dreaming_proofs --------------------------
(***************************************************************************)
(* Dreaming, for every set of agents and sizes and every bound: no memory  *)
(* and no plan is lost, whatever dies when, and a pass that nobody         *)
(* disturbs reaches every agent.                                           *)
(***************************************************************************)
EXTENDS Dreaming, FiniteSetTheorems, TLAPS

(***************************************************************************)
(* The inductive invariant, in parts.                                      *)
(***************************************************************************)
Memory == [version : Nat, size : Sizes \cup {0}]
Dream == [at : {"idle", "turn", "archived", "over"}, read : Memory, size : Sizes \cup {0}]

\* The agents that a pass over the registry counts before it begins.
Headcounts == {0} \cup {Cardinality(S) : S \in SUBSET Agents}
Pass == [at : {"idle", "next", "turn", "ended"}, seen : SUBSET Agents, size : Headcounts,
         agent : SUBSET Agents, shown : SUBSET (0..MaxNotes), quiet : BOOLEAN]

Types ==
  /\ day \in 1..MaxDays /\ done \in [{"night", "week"} -> 0..MaxDays]
  /\ memory \in Memory /\ met \in BOOLEAN
  /\ dream \in [Dreamers -> Dream]
  /\ registry \in SUBSET Agents /\ count \in 0..MaxNotes /\ changes \in 0..MaxChanges
  /\ notes \in [Agents -> [Passes -> SUBSET (0..MaxNotes)]]
  /\ pass \in [Passes -> Pass]
  /\ plan \in Nat

\* Versions are numbered as they come, and the one in place is one of them.
Numbered ==
  /\ IsFiniteSet(versions) /\ versions \subseteq 1..Cardinality(versions)
  /\ archive \subseteq versions \cup {0} /\ memory.version \in versions \cup {0}

\* Until two dreams overlap there is one at a time, and it has archived the
\* memory that it is about to replace.
Kept ==
  met \/ /\ versions \subseteq archive \cup {memory.version}
         /\ \A d, e \in Dreamers : Dreams(d) /\ Dreams(e) => d = e
         /\ \A d \in Dreamers : dream[d].at = "archived" => memory.version \in archive

\* A pass shows the file of one agent at a time.
Showing ==
  \A p \in Passes :
    /\ pass[p].agent \subseteq pass[p].seen
    /\ IF pass[p].at = "turn" THEN \E a \in Agents : pass[p].agent = {a}
       ELSE pass[p].agent = {}

\* The weekly job of a day is a dream and then a pass, and when it has stored
\* a plan it is over.
Weekly ==
  /\ done["week"] <= day
  /\ DOMAIN plans \subseteq 1..day
  /\ Dreams("weekly") => pass["assess"].at = "idle"
  /\ done["week"] < day \/ day \in DOMAIN plans
       => ~Dreams("weekly") /\ pass["assess"].at = "idle"
  /\ day \in DOMAIN plans => done["week"] = day

\* The plans are numbered from 1, and one that is not in place is stored.
Plan ==
  /\ IsFiniteSet(written) /\ 0 \notin written
  /\ PlansKept

IInv == Types /\ Numbered /\ Kept /\ Showing /\ PassReachesAll /\ Weekly /\ Plan

-----------------------------------------------------------------------------
\* Initially every part holds.
LEMMA InitIInv == Init => IInv
<1>. SUFFICES ASSUME Init PROVE IInv
  OBVIOUS
<1>. USE DreamingAssumption DEF Init
<1>1. None \in Memory
  BY DEF None, Memory
<1>2. Idle \in Dream
  BY <1>1 DEF Idle, Dream
<1>3. Resting \in Pass
  BY DEF Resting, Pass, Headcounts
<1>4. Types
  <2>1. /\ day \in 1..MaxDays /\ count \in 0..MaxNotes /\ changes \in 0..MaxChanges
        /\ plan \in Nat
    OBVIOUS
  <2>3. done \in [{"night", "week"} -> 0..MaxDays]
    <3>1. done = [j \in {"night", "week"} |-> 0] /\ MaxDays \in Nat \ {0}
      OBVIOUS
    <3>. QED BY <3>1
  <2>4. registry \in SUBSET Agents /\ met \in BOOLEAN
    BY Zenon
  <2>2. notes \in [Agents -> [Passes -> SUBSET (0..MaxNotes)]]
    OBVIOUS
  <2>. QED BY <1>1, <1>2, <1>3, <2>1, <2>2, <2>3, <2>4 DEF Types
<1>5. Numbered
  BY FS_EmptySet DEF Numbered, None
<1>6. Kept
  BY DEF Kept, Dreams, Idle
<1>7. Showing /\ PassReachesAll
  BY DEF Showing, PassReachesAll, Resting
<1>8. Weekly
  BY DEF Weekly, Dreams, Idle, Dreamers, Passes, Resting
<1>9. Plan
  BY FS_EmptySet DEF Plan, PlansKept
<1>. QED BY <1>4, <1>5, <1>6, <1>7, <1>8, <1>9 DEF IInv

(***************************************************************************)
(* The steps by what they leave alone.                                     *)
(***************************************************************************)
DreamStep == \/ CommandLineDreams \/ Week \/ CommandLineDies
             \/ \E d \in Dreamers : RemFails(d) \/ RemArchives(d) \/ RemWrites(d)

PassStep == \/ Night \/ JobEnds
            \/ \E p \in Passes : \/ RewriteFails(p) \/ PassEnds(p)
                               \/ \E a \in Agents : Shows(p, a) \/ PassesOver(p, a)
                                                \/ Rewrites(p, a)

OtherStep == \/ \E p \in Passes, a \in Agents : TakesNote(a, p)
             \/ UNCHANGED vars

\* A step is one of these, the end of a dream, the storing of a plan, a new
\* day, a crash, or a change of the registry.
LEMMA Steps ==
  ASSUME [Next]_vars
  PROVE  \/ DreamStep /\ UNCHANGED <<day, team, planning>>
         \/ PassStep /\ UNCHANGED <<day, global, registry, count, changes, planning>>
         \/ OtherStep /\ UNCHANGED <<day, done, global, registry, pass, changes, planning>>
         \/ \E d \in Dreamers : RemEnds(d)
         \/ Plans \/ Day \/ Crash
         \/ \E a \in Agents : Create(a) \/ Delete(a)
<1>1. ASSUME DreamStep
      PROVE  UNCHANGED <<day, team, planning>>
  BY <1>1 DEF DreamStep, CommandLineDreams, Week, CommandLineDies, RemFails, RemArchives,
              RemWrites
<1>2. ASSUME PassStep
      PROVE  UNCHANGED <<day, global, registry, count, changes, planning>>
  BY <1>2 DEF PassStep, Night, JobEnds, RewriteFails, PassEnds, Shows, PassesOver, Rewrites
<1>3. ASSUME OtherStep
      PROVE  UNCHANGED <<day, done, global, registry, pass, changes, planning>>
  BY <1>3 DEF OtherStep, TakesNote, vars, global, planning
<1>. QED BY <1>1, <1>2, <1>3 DEF Next, DreamStep, PassStep, OtherStep

-----------------------------------------------------------------------------
(***************************************************************************)
(* Types.                                                                  *)
(***************************************************************************)
\* The records of the dreams.
LEMMA DreamTypes ==
  ASSUME Types, [Next]_vars
  PROVE  dream' \in [Dreamers -> Dream]
<1>. USE DreamingAssumption
<1>t. dream \in [Dreamers -> Dream] /\ memory \in Memory
  BY DEF Types
<1>1. Idle \in Dream /\ [Idle EXCEPT !.at = "turn", !.read = memory] \in Dream
  BY <1>t DEF Idle, Dream, None, Memory
<1>2. ASSUME NEW d \in Dreamers, NEW s \in Sizes
      PROVE  [dream[d] EXCEPT !.at = "archived", !.size = s] \in Dream
  <2>1. dream[d] \in Dream
    BY <1>t
  <2>. QED BY <2>1 DEF Dream
<1>3. ASSUME NEW d \in Dreamers, NEW x \in Dream
      PROVE  [dream EXCEPT ![d] = x] \in [Dreamers -> Dream]
  BY <1>t
<1>4. {"cli", "weekly"} \subseteq Dreamers
  BY DEF Dreamers
<1>5. CASE DreamStep
  <2>1. CASE CommandLineDreams \/ Week
    BY <1>1, <1>3, <1>4, <2>1 DEF CommandLineDreams, Week, RemReads
  <2>2. CASE CommandLineDies
    BY <1>1, <1>3, <1>4, <2>2 DEF CommandLineDies
  <2>3. ASSUME NEW d \in Dreamers, RemFails(d) \/ RemWrites(d)
        PROVE  dream' \in [Dreamers -> Dream]
    <3>1. dream' = [dream EXCEPT ![d] = [dream[d] EXCEPT !.at = "over"]]
      BY <1>t, <2>3 DEF RemFails, RemWrites
    <3>2. [dream[d] EXCEPT !.at = "over"] \in Dream
      <4>1. dream[d] \in Dream
        BY <1>t
      <4>. QED BY <4>1 DEF Dream
    <3>. QED BY <1>3, <3>1, <3>2
  <2>4. ASSUME NEW d \in Dreamers, RemArchives(d)
        PROVE  dream' \in [Dreamers -> Dream]
    <3>1. PICK s \in Sizes :
            dream' = [dream EXCEPT ![d].at = "archived", ![d].size = s]
      BY <2>4 DEF RemArchives
    <3>2. dream' = [dream EXCEPT ![d] = [dream[d] EXCEPT !.at = "archived", !.size = s]]
      BY <1>t, <3>1
    <3>. QED BY <1>2, <1>3, <3>2
  <2>. QED BY <1>5, <2>1, <2>2, <2>3, <2>4 DEF DreamStep
<1>6. CASE \E d \in Dreamers : RemEnds(d)
  BY <1>1, <1>3, <1>6 DEF RemEnds
<1>7. CASE Crash
  BY <1>1, <1>3, <1>4, <1>7 DEF Crash
<1>8. CASE Plans \/ Day \/ \E a \in Agents : Create(a) \/ Delete(a)
  BY <1>t, <1>8 DEF Plans, Day, Create, Delete, Changed, global
<1>. QED BY <1>5, <1>6, <1>7, <1>8, <1>t, Steps DEF global

\* The memory in place.
LEMMA MemoryTypes ==
  ASSUME Types, IsFiniteSet(versions), [Next]_vars
  PROVE  memory' \in Memory
<1>. USE DreamingAssumption
<1>t. dream \in [Dreamers -> Dream] /\ memory \in Memory
  BY DEF Types
<1>1. None \in Memory
  BY DEF None, Memory
<1>2. ASSUME NEW d \in Dreamers, RemWrites(d)
      PROVE  memory' \in Memory
  <2>1. Cardinality(versions) \in Nat /\ dream[d].size \in Sizes \cup {0}
    BY <1>t, FS_CardinalityType DEF Dream
  <2>2. [version |-> Cardinality(versions) + 1, size |-> dream[d].size] \in Memory
    BY <2>1 DEF Memory
  <2>. QED BY <1>2, <1>t, <2>2 DEF RemWrites
<1>3. Torn("weekly") \subseteq Memory /\ Torn("cli") \subseteq Memory
  BY <1>1, <1>t DEF Torn
<1>. QED
  BY <1>2, <1>3, <1>t, Steps
  DEF DreamStep, CommandLineDreams, Week, RemReads, CommandLineDies, RemFails, RemArchives,
      RemEnds, Crash, Plans, Day, Create, Delete, Changed, global

\* The records of the passes.
LEMMA PassTypes ==
  ASSUME Types, [Next]_vars
  PROVE  pass' \in [Passes -> Pass]
<1>. USE DreamingAssumption
<1>t. pass \in [Passes -> Pass] /\ registry \in SUBSET Agents
      /\ notes \in [Agents -> [Passes -> SUBSET (0..MaxNotes)]]
  BY DEF Types
<1>1. Resting \in Pass /\ Started \in Pass
  <2>1. Cardinality(registry) \in Headcounts
    BY <1>t DEF Headcounts
  <2>. QED BY <2>1 DEF Resting, Started, Pass, Headcounts
<1>2. ASSUME NEW p \in Passes, NEW a \in Agents
      PROVE  /\ [pass[p] EXCEPT !.at = "turn", !.seen = pass[p].seen \cup {a}, !.agent = {a},
                                !.shown = notes[a][p]] \in Pass
             /\ [pass[p] EXCEPT !.seen = pass[p].seen \cup {a}] \in Pass
  <2>1. pass[p] \in Pass /\ notes[a][p] \in SUBSET (0..MaxNotes)
    BY <1>t
  <2>. QED BY <2>1 DEF Pass
<1>3. ASSUME NEW p \in Passes
      PROVE  [pass[p] EXCEPT !.quiet = FALSE] \in Pass
  <2>1. pass[p] \in Pass
    BY <1>t
  <2>. QED BY <2>1 DEF Pass
<1>4. ASSUME NEW p \in Passes, NEW x \in Pass
      PROVE  [pass EXCEPT ![p] = x] \in [Passes -> Pass]
  BY <1>t
<1>5. {"night", "assess"} \subseteq Passes
  BY DEF Passes
<1>6. CASE PassStep
  <2>1. CASE Night \/ JobEnds
    BY <1>1, <1>4, <1>5, <2>1 DEF Night, JobEnds
  <2>2. ASSUME NEW p \in Passes, RewriteFails(p) \/ \E a \in Agents : Rewrites(p, a)
        PROVE  pass' \in [Passes -> Pass]
    <3>1. pass' = [pass EXCEPT ![p] = [pass[p] EXCEPT !.at = "next", !.agent = {}, !.shown = {}]]
      BY <1>t, <2>2 DEF RewriteFails, Rewrites
    <3>2. [pass[p] EXCEPT !.at = "next", !.agent = {}, !.shown = {}] \in Pass
      <4>1. pass[p] \in Pass
        BY <1>t
      <4>. QED BY <4>1 DEF Pass
    <3>. QED BY <1>4, <3>1, <3>2
  <2>3. ASSUME NEW p \in Passes, PassEnds(p)
        PROVE  pass' \in [Passes -> Pass]
    <3>1. [pass[p] EXCEPT !.at = "ended"] \in Pass
      <4>1. pass[p] \in Pass
        BY <1>t
      <4>. QED BY <4>1 DEF Pass
    <3>. QED BY <1>4, <2>3, <3>1 DEF PassEnds
  <2>4. ASSUME NEW p \in Passes, NEW a \in Agents, Shows(p, a) \/ PassesOver(p, a)
        PROVE  pass' \in [Passes -> Pass]
    <3>1. CASE Shows(p, a)
      <4>1. pass' = [pass EXCEPT ![p] =
                 [pass[p] EXCEPT !.at = "turn", !.seen = pass[p].seen \cup {a}, !.agent = {a},
                                 !.shown = notes[a][p]]]
        BY <1>t, <3>1 DEF Shows
      <4>. QED BY <1>2, <1>4, <4>1
    <3>2. CASE PassesOver(p, a)
      BY <1>2, <1>4, <3>2 DEF PassesOver
    <3>. QED BY <2>4, <3>1, <3>2
  <2>. QED BY <1>6, <2>1, <2>2, <2>3, <2>4 DEF PassStep
<1>7. CASE \E d \in Dreamers : RemEnds(d)
  BY <1>1, <1>4, <1>5, <1>7, <1>t DEF RemEnds
<1>8. CASE Crash \/ Plans
  BY <1>1, <1>4, <1>5, <1>8 DEF Crash, Plans
<1>9. CASE \E a \in Agents : Create(a) \/ Delete(a)
  BY <1>3, <1>9 DEF Create, Delete, Changed
<1>. QED BY <1>6, <1>7, <1>8, <1>9, <1>t, Steps DEF Day, team

\* Every step keeps the types.
LEMMA TypesNext ==
  ASSUME Types, IsFiniteSet(versions), IsFiniteSet(written), [Next]_vars
  PROVE  Types'
<1>. USE DreamingAssumption
<1>1. day' \in 1..MaxDays /\ done' \in [{"night", "week"} -> 0..MaxDays]
  <2>1. day \in 1..MaxDays /\ done \in [{"night", "week"} -> 0..MaxDays]
    BY DEF Types
  <2>2. \A j \in {"night", "week"} :
          [done EXCEPT ![j] = day] \in [{"night", "week"} -> 0..MaxDays]
    BY <2>1
  <2>3. DreamStep \/ PassStep => done' = done \/ Night \/ Week
    BY DEF DreamStep, CommandLineDreams, CommandLineDies, RemFails, RemArchives, RemWrites,
           PassStep, JobEnds, RewriteFails, PassEnds, Shows, PassesOver, Rewrites
  <2>4. Night \/ Week => done' \in [{"night", "week"} -> 0..MaxDays]
    BY <2>2 DEF Night, Week
  <2>. QED
    BY <2>1, <2>3, <2>4, Steps DEF RemEnds, Plans, Day, Crash, Create, Delete, Changed
<1>2. met' \in BOOLEAN
  BY Steps
  DEF Types, DreamStep, CommandLineDreams, Week, RemReads, CommandLineDies, RemFails,
      RemArchives, RemWrites, RemEnds, Plans, Day, Crash, Create, Delete, Changed, global
<1>3. /\ registry' \in SUBSET Agents /\ changes' \in 0..MaxChanges
      /\ count' \in 0..MaxNotes
  BY Steps
  DEF Types, RemEnds, Plans, Day, Crash, Create, Delete, Changed, team, OtherStep, TakesNote,
      vars
<1>4. notes' \in [Agents -> [Passes -> SUBSET (0..MaxNotes)]]
  <2>1. ASSUME NEW a \in Agents, NEW p \in Passes, NEW s \in SUBSET (0..MaxNotes)
        PROVE  [notes EXCEPT ![a][p] = s] \in [Agents -> [Passes -> SUBSET (0..MaxNotes)]]
    BY DEF Types
  <2>2. ASSUME NEW a \in Agents, NEW p \in Passes, Rewrites(p, a)
        PROVE  notes' \in [Agents -> [Passes -> SUBSET (0..MaxNotes)]]
    <3>1. pass[p] \in Pass
      BY DEF Types
    <3>2. pass[p].shown \in SUBSET (0..MaxNotes)
      BY <3>1 DEF Pass
    <3>3. PICK kept \in SUBSET pass[p].shown : notes' = [notes EXCEPT ![a][p] = kept]
      BY <2>2 DEF Rewrites
    <3>. QED BY <2>1, <3>2, <3>3
  <2>3. ASSUME NEW a \in Agents, NEW p \in Passes, TakesNote(a, p)
        PROVE  notes' \in [Agents -> [Passes -> SUBSET (0..MaxNotes)]]
    <3>1. notes[a][p] \cup {count} \in SUBSET (0..MaxNotes)
      BY DEF Types
    <3>. QED BY <2>1, <2>3, <3>1 DEF TakesNote
  <2>. QED
    BY <2>2, <2>3, Steps
    DEF Types, team, PassStep, Night, JobEnds, RewriteFails, PassEnds, Shows, PassesOver,
        OtherStep, RemEnds, Plans, Day, Crash, Create, Delete, Changed, vars
<1>5. plan' \in Nat
  BY Steps, FS_CardinalityType
  DEF Types, planning, RemEnds, Plans, Day, Crash, Create, Delete, Changed
<1>. QED BY <1>1, <1>2, <1>3, <1>4, <1>5, DreamTypes, MemoryTypes, PassTypes DEF Types

-----------------------------------------------------------------------------
(***************************************************************************)
(* The memory.                                                             *)
(***************************************************************************)
\* A step of the memory is a read, an archiving, a write or a death; every
\* other step leaves it alone.
LEMMA MemorySteps ==
  ASSUME [Next]_vars
  PROVE  \/ CommandLineDreams \/ Week \/ CommandLineDies \/ Crash
         \/ \E d \in Dreamers : RemFails(d) \/ RemArchives(d) \/ RemWrites(d) \/ RemEnds(d)
         \/ UNCHANGED global
<1>. QED BY Steps DEF DreamStep, Plans, Day, Create, Delete, Changed

\* A version that is written has the next number.
LEMMA NextVersion ==
  ASSUME Numbered
  PROVE  /\ Cardinality(versions) \in Nat
         /\ Cardinality(versions) + 1 \notin versions
         /\ IsFiniteSet(versions \cup {Cardinality(versions) + 1})
         /\ Cardinality(versions \cup {Cardinality(versions) + 1}) = Cardinality(versions) + 1
<1>1. Cardinality(versions) \in Nat
  BY FS_CardinalityType DEF Numbered
<1>2. Cardinality(versions) + 1 \notin versions
  BY <1>1 DEF Numbered
<1>. QED BY <1>1, <1>2, FS_AddElement DEF Numbered

\* Every step keeps the numbering.
LEMMA NumberedNext ==
  ASSUME Types, Numbered, [Next]_vars
  PROVE  Numbered'
<1>1. ASSUME NEW d \in Dreamers, RemArchives(d)
      PROVE  Numbered'
  BY <1>1 DEF RemArchives, Archived, Numbered
<1>2. ASSUME NEW d \in Dreamers, RemWrites(d)
      PROVE  Numbered'
  <2>1. CASE Loss(d)
    BY <1>2, <2>1 DEF RemWrites, Numbered
  <2>2. CASE ~Loss(d)
    <3>. DEFINE n == Cardinality(versions)
    <3>1. versions' = versions \cup {n + 1} /\ memory'.version = n + 1 /\ archive' = archive
      BY <1>2, <2>2 DEF RemWrites
    <3>2. versions \subseteq 1..n
      BY DEF Numbered
    <3>3. versions' \subseteq 1..(n + 1)
      BY <3>1, <3>2, NextVersion
    <3>. QED BY <3>1, <3>3, NextVersion DEF Numbered
  <2>. QED BY <2>1, <2>2
<1>3. ASSUME CommandLineDies \/ Crash
      PROVE  Numbered'
  <2>1. memory' \in {memory, None} /\ archive' = archive /\ versions' = versions
    BY <1>3 DEF CommandLineDies, Crash, Torn
  <2>. QED BY <2>1 DEF Numbered, None
<1>4. ASSUME UNCHANGED <<memory, archive, versions>>
      PROVE  Numbered'
  BY <1>4 DEF Numbered
<1>. QED
  BY <1>1, <1>2, <1>3, <1>4, MemorySteps
  DEF CommandLineDreams, Week, RemReads, RemFails, RemEnds, global

\* A dream archives the memory that it replaces, unless another dream replaced
\* it in between.
LEMMA KeptNext ==
  ASSUME Types, Kept, [Next]_vars
  PROVE  Kept'
<1>t. dream \in [Dreamers -> Dream] /\ {"cli", "weekly"} \subseteq Dreamers
  BY DEF Types, Dreamers
<1>d. DOMAIN dream = Dreamers /\ \A d \in Dreamers : DOMAIN dream[d] = {"at", "read", "size"}
  BY <1>t DEF Dream
<1>m. met => Kept'
  <2>1. met => met'
    BY MemorySteps
    DEF CommandLineDreams, Week, RemReads, CommandLineDies, Crash, RemFails, RemArchives,
        RemWrites, RemEnds, global
  <2>. QED BY <2>1 DEF Kept
<1>. SUFFICES ASSUME ~met PROVE Kept'
  BY <1>m
<1>k. /\ versions \subseteq archive \cup {memory.version}
      /\ \A d, e \in Dreamers : Dreams(d) /\ Dreams(e) => d = e
      /\ \A d \in Dreamers : dream[d].at = "archived" => memory.version \in archive
  BY DEF Kept
<1>1. ASSUME CommandLineDreams \/ Week
      PROVE  Kept'
  <2>1. PICK d \in Dreamers : RemReads(d)
    BY <1>1, <1>t DEF CommandLineDreams, Week
  <2>2. \A e \in Dreamers : dream'[e].at = IF e = d THEN "turn" ELSE dream[e].at
    BY <1>t, <2>1 DEF RemReads, Idle
  <2>3. met' \/ \A e \in Dreamers \ {d} : ~Dreams(e)
    BY <2>1 DEF RemReads
  <2>4. UNCHANGED <<memory, archive, versions>>
    BY <2>1 DEF RemReads
  <2>. QED BY <1>k, <2>2, <2>3, <2>4 DEF Kept, Dreams
<1>2. ASSUME NEW d \in Dreamers, RemArchives(d)
      PROVE  Kept'
  <2>1. \A e \in Dreamers : dream'[e].at = IF e = d THEN "archived" ELSE dream[e].at
    BY <1>d, <1>2 DEF RemArchives
  <2>2. /\ dream[d].at = "turn" /\ UNCHANGED <<memory, versions, met>>
        /\ archive' = archive \cup {memory.version}
    BY <1>2 DEF RemArchives, Archived
  <2>. QED BY <1>k, <2>1, <2>2 DEF Kept, Dreams
<1>3. ASSUME NEW d \in Dreamers, RemWrites(d)
      PROVE  Kept'
  <2>1. \A e \in Dreamers : dream'[e].at = IF e = d THEN "over" ELSE dream[e].at
    BY <1>d, <1>3 DEF RemWrites
  <2>2. \A e \in Dreamers : dream'[e].at # "archived"
    BY <1>3, <1>k, <2>1 DEF RemWrites, Dreams
  <2>3. versions' \subseteq archive' \cup {memory'.version}
    BY <1>3, <1>k DEF RemWrites
  <2>4. dream[d].at = "archived" /\ met' = met
    BY <1>3 DEF RemWrites
  <2>. QED BY <1>k, <2>1, <2>2, <2>3, <2>4 DEF Kept, Dreams
<1>4. ASSUME NEW d \in Dreamers, RemFails(d)
      PROVE  Kept'
  <2>1. \A e \in Dreamers : dream'[e].at = IF e = d THEN "over" ELSE dream[e].at
    BY <1>d, <1>4 DEF RemFails
  <2>2. dream[d].at = "turn" /\ UNCHANGED <<memory, archive, versions, met>>
    BY <1>4 DEF RemFails
  <2>. QED BY <1>k, <2>1, <2>2 DEF Kept, Dreams
<1>5. ASSUME NEW d \in Dreamers, RemEnds(d)
      PROVE  Kept'
  <2>1. \A e \in Dreamers : dream'[e].at = IF e = d THEN "idle" ELSE dream[e].at
    BY <1>d, <1>5 DEF RemEnds, Idle
  <2>2. UNCHANGED <<memory, archive, versions, met>>
    BY <1>5 DEF RemEnds
  <2>. QED BY <1>k, <2>1, <2>2 DEF Kept, Dreams
<1>6. ASSUME CommandLineDies \/ Crash
      PROVE  Kept'
  <2>1. PICK d \in Dreamers : dream' = [dream EXCEPT ![d] = Idle] /\ memory' \in Torn(d)
    BY <1>6, <1>t DEF CommandLineDies, Crash
  <2>2. \A e \in Dreamers : dream'[e].at = IF e = d THEN "idle" ELSE dream[e].at
    BY <1>d, <2>1 DEF Idle
  <2>3. UNCHANGED <<archive, versions, met>>
    BY <1>6 DEF CommandLineDies, Crash
  <2>4. memory' = memory \/ dream[d].at = "archived"
    BY <2>1 DEF Torn
  <2>. QED BY <1>k, <2>2, <2>3, <2>4 DEF Kept, Dreams
<1>7. ASSUME UNCHANGED global
      PROVE  Kept'
  BY <1>k, <1>7 DEF Kept, Dreams, global
<1>. QED BY <1>1, <1>2, <1>3, <1>4, <1>5, <1>6, <1>7, MemorySteps

-----------------------------------------------------------------------------
(***************************************************************************)
(* The passes.                                                             *)
(***************************************************************************)
\* What a pass shows is the file of the agent it has just come to.
LEMMA ShowingNext ==
  ASSUME Types, Showing, PassReachesAll, [Next]_vars
  PROVE  Showing' /\ PassReachesAll'
<1>. USE DEF Showing, PassReachesAll
<1>t. pass \in [Passes -> Pass]
  BY DEF Types
<1>d. DOMAIN pass = Passes /\ \A p \in Passes :
        DOMAIN pass[p] = {"at", "seen", "size", "agent", "shown", "quiet"}
  BY <1>t DEF Pass
<1>p. {"night", "assess"} \subseteq Passes
  BY DEF Passes
<1>1. ASSUME NEW p \in Passes, NEW x \in {Resting, Started}, pass' = [pass EXCEPT ![p] = x],
             registry' = registry
      PROVE  Showing' /\ PassReachesAll'
  <2>1. x.at \in {"idle", "next"} /\ x.agent = {} /\ x.seen = {}
    <3>1. /\ Resting.at = "idle" /\ Resting.agent = {} /\ Resting.seen = {}
          /\ DOMAIN Resting = {"at", "seen", "size", "agent", "shown", "quiet"}
      BY DEF Resting
    <3>. QED BY <1>1, <3>1 DEF Started
  <2>2. pass'[p] = x /\ \A q \in Passes : q # p => pass'[q] = pass[q]
    BY <1>d, <1>1
  <2>. QED BY <1>1, <2>1, <2>2
<1>2. ASSUME NEW p \in Passes, RewriteFails(p) \/ \E a \in Agents : Rewrites(p, a)
      PROVE  Showing' /\ PassReachesAll'
  BY <1>d, <1>2 DEF RewriteFails, Rewrites
<1>3. ASSUME NEW p \in Passes, PassEnds(p)
      PROVE  Showing' /\ PassReachesAll'
  BY <1>d, <1>3 DEF PassEnds
<1>4. ASSUME NEW p \in Passes, NEW a \in Agents, Shows(p, a)
      PROVE  Showing' /\ PassReachesAll'
  BY <1>d, <1>4 DEF Shows, Continues
<1>5. ASSUME NEW p \in Passes, NEW a \in Agents, PassesOver(p, a)
      PROVE  Showing' /\ PassReachesAll'
  BY <1>d, <1>5 DEF PassesOver, Continues
<1>6. ASSUME NEW a \in Agents, Create(a) \/ Delete(a)
      PROVE  Showing' /\ PassReachesAll'
  <2>1. ASSUME NEW p \in Passes
        PROVE  /\ ~pass'[p].quiet /\ pass'[p].at = pass[p].at
               /\ pass'[p].agent = pass[p].agent /\ pass'[p].seen = pass[p].seen
    BY <1>d, <1>6 DEF Create, Delete, Changed
  <2>. QED BY <2>1
<1>7. ASSUME Crash
      PROVE  Showing' /\ PassReachesAll'
  BY <1>7 DEF Crash, Resting
<1>8. ASSUME NEW d \in Dreamers, RemEnds(d)
      PROVE  Showing' /\ PassReachesAll'
  <2>1. registry' = registry
    BY <1>8 DEF RemEnds
  <2>2. CASE d = "cli"
    BY <1>8, <2>1, <2>2 DEF RemEnds
  <2>3. CASE d # "cli"
    BY <1>1, <1>8, <1>p, <2>1, <2>3 DEF RemEnds
  <2>. QED BY <2>2, <2>3
<1>9. ASSUME UNCHANGED <<registry, pass>>
      PROVE  Showing' /\ PassReachesAll'
  BY <1>9
<1>10. CASE PassStep
  BY <1>1, <1>2, <1>3, <1>4, <1>5, <1>10, <1>p DEF PassStep, Night, JobEnds
<1>11. CASE Plans
  BY <1>1, <1>11, <1>p DEF Plans
<1>. QED BY <1>6, <1>7, <1>8, <1>9, <1>10, <1>11, Steps DEF team, Day

-----------------------------------------------------------------------------
(***************************************************************************)
(* The weekly job and its plan.                                            *)
(***************************************************************************)
\* A day has one weekly job at most, and it is over before the next.
LEMMA WeeklyNext ==
  ASSUME Types, Weekly, Types', [Next]_vars
  PROVE  Weekly'
<1>t. /\ day \in Nat \ {0} /\ done["week"] \in Nat /\ DOMAIN done = {"night", "week"}
      /\ dream \in [Dreamers -> Dream] /\ pass \in [Passes -> Pass]
      /\ Dreamers = {"weekly", "cli"} /\ Passes = {"night", "assess"}
  BY DreamingAssumption DEF Types, Dreamers, Passes
<1>d. /\ DOMAIN dream = Dreamers
      /\ \A d \in Dreamers : DOMAIN dream[d] = {"at", "read", "size"}
      /\ DOMAIN pass = Passes
      /\ \A p \in Passes : DOMAIN pass[p] = {"at", "seen", "size", "agent", "shown", "quiet"}
  BY <1>t DEF Dream, Pass
<1>. USE DEF Weekly, Dreams
<1>1. ASSUME Week
      PROVE  Weekly'
  BY <1>d, <1>t, <1>1 DEF Week, RemReads, Idle, team, planning
<1>2. ASSUME CommandLineDreams \/ CommandLineDies
      PROVE  Weekly'
  <2>1. dream'["weekly"] = dream["weekly"] /\ UNCHANGED <<day, done, pass, plans>>
    BY <1>d, <1>t, <1>2 DEF CommandLineDreams, CommandLineDies, RemReads, team, planning
  <2>. QED BY <2>1
<1>3. ASSUME NEW d \in Dreamers, RemFails(d) \/ RemArchives(d) \/ RemWrites(d)
      PROVE  Weekly'
  <2>1. dream[d].at # "idle" /\ dream'[d].at # "idle"
        /\ \A e \in Dreamers : e # d => dream'[e] = dream[e]
    BY <1>d, <1>3 DEF RemFails, RemArchives, RemWrites
  <2>2. UNCHANGED <<day, done, pass, plans>>
    BY <1>3 DEF RemFails, RemArchives, RemWrites, team, planning
  <2>. QED BY <1>t, <2>1, <2>2
<1>4. ASSUME NEW d \in Dreamers, RemEnds(d)
      PROVE  Weekly'
  <2>1. UNCHANGED <<day, done, plans>> /\ dream[d].at # "idle"
        /\ \A e \in Dreamers : dream'[e].at = IF e = d THEN "idle" ELSE dream[e].at
    BY <1>d, <1>4 DEF RemEnds, planning, Idle
  <2>2. d = "cli" => pass' = pass
    BY <1>4 DEF RemEnds
  <2>. QED BY <1>t, <2>1, <2>2
<1>5. ASSUME PassStep, UNCHANGED <<day, global, planning>>
      PROVE  Weekly'
  <2>1. done'["week"] = done["week"]
    BY <1>t, <1>5
    DEF PassStep, Night, JobEnds, RewriteFails, PassEnds, Shows, PassesOver, Rewrites
  <2>2. pass["assess"].at = "idle" => pass'["assess"].at = "idle"
    <3>1. ASSUME Night \/ JobEnds
          PROVE  pass'["assess"] = pass["assess"]
      BY <1>d, <1>t, <3>1 DEF Night, JobEnds
    <3>2. ASSUME NEW p \in Passes,
                 RewriteFails(p) \/ PassEnds(p)
                 \/ \E a \in Agents : Shows(p, a) \/ PassesOver(p, a) \/ Rewrites(p, a)
          PROVE  pass[p].at # "idle" /\ \A q \in Passes : q # p => pass'[q] = pass[q]
      BY <1>d, <3>2 DEF RewriteFails, PassEnds, Shows, PassesOver, Rewrites, Continues
    <3>. QED BY <1>5, <1>t, <3>1, <3>2 DEF PassStep
  <2>. QED BY <1>5, <2>1, <2>2 DEF global, planning
<1>6. ASSUME Plans
      PROVE  Weekly'
  <2>1. pass["assess"].at = "ended" /\ pass'["assess"].at = "idle"
        /\ UNCHANGED <<day, done, dream>>
    BY <1>d, <1>t, <1>6 DEF Plans, Resting, global
  <2>2. DOMAIN plans' \subseteq DOMAIN plans \cup {day}
    BY <1>6 DEF Plans, Stored, planning
  <2>3. done["week"] = day /\ ~Dreams("weekly")
    BY <1>t, <2>1
  <2>. QED BY <1>t, <2>1, <2>2, <2>3
<1>7. ASSUME Day
      PROVE  Weekly'
  BY <1>t, <1>7 DEF Day, global, team, planning
<1>8. ASSUME Crash
      PROVE  Weekly'
  <2>1. UNCHANGED <<day, done, plans>> /\ dream'["weekly"].at = "idle"
        /\ pass'["assess"].at = "idle"
    BY <1>d, <1>t, <1>8 DEF Crash, planning, Idle, Resting
  <2>. QED BY <2>1
<1>9. ASSUME NEW a \in Agents, Create(a) \/ Delete(a)
      PROVE  Weekly'
  <2>1. \A p \in Passes : pass'[p].at = pass[p].at
    BY <1>d, <1>9 DEF Create, Delete, Changed
  <2>. QED BY <1>9, <1>t, <2>1 DEF Create, Delete, Changed, global, planning
<1>10. ASSUME UNCHANGED <<day, done, global, pass, planning>>
       PROVE  Weekly'
  BY <1>10 DEF global, planning
<1>. QED
  BY <1>1, <1>2, <1>3, <1>4, <1>5, <1>6, <1>7, <1>8, <1>9, <1>10, Steps DEF DreamStep

\* The archive has no plan of the day yet when the plan in place goes there.
LEMMA PlanNext ==
  ASSUME Types, Weekly, Plan, [Next]_vars
  PROVE  Plan'
<1>1. ASSUME Plans, ~UNCHANGED planning
      PROVE  Plan'
  <2>1. /\ pass["assess"].at = "ended" /\ plans' = Stored(plan)
        /\ plan' = Cardinality(written) + 1 /\ written' = written \cup {plan'}
    BY <1>1 DEF Plans
  <2>2. Cardinality(written) \in Nat /\ IsFiniteSet(written')
    BY <2>1, FS_CardinalityType, FS_AddElement DEF Plan
  <2>3. day \notin DOMAIN plans
    BY <2>1 DEF Weekly
  <2>4. \A d \in DOMAIN plans : d \in DOMAIN plans' /\ plans'[d] = plans[d]
    BY <2>1, <2>3 DEF Stored
  <2>5. plan # 0 => day \in DOMAIN plans' /\ plans'[day] = plan
    BY <2>1 DEF Stored
  <2>6. ASSUME NEW w \in written'
        PROVE  w \in {plan'} \cup {plans'[d] : d \in DOMAIN plans'}
    <3>1. CASE w = plan'
      BY <3>1
    <3>2. CASE w \in written
      <4>1. w # 0 /\ (w = plan \/ \E d \in DOMAIN plans : w = plans[d])
        BY <3>2 DEF Plan, PlansKept
      <4>. QED BY <2>4, <2>5, <4>1
    <3>. QED BY <2>1, <3>1, <3>2
  <2>. QED BY <2>1, <2>2, <2>6 DEF Plan, PlansKept
<1>2. ASSUME UNCHANGED planning
      PROVE  Plan'
  BY <1>2 DEF Plan, PlansKept, planning
<1>. QED BY <1>1, <1>2, Steps DEF RemEnds, Plans, Day, Crash, Create, Delete, Changed

\* The invariant is inductive.
LEMMA IInvNext ==
  ASSUME IInv, [Next]_vars
  PROVE  IInv'
<1>1. Types'
  BY TypesNext DEF IInv, Numbered, Plan
<1>. QED
  BY <1>1, NumberedNext, KeptNext, ShowingNext, WeeklyNext, PlanNext DEF IInv

\* It holds in every reachable state.
LEMMA Invariance == Spec => []IInv
<1>. QED BY InitIInv, IInvNext, PTL DEF Spec

-----------------------------------------------------------------------------
(***************************************************************************)
(* The results.                                                            *)
(***************************************************************************)
\* Every variable has its type.
THEOREM TypeCorrect == Spec => []TypeOK
<1>1. IInv => TypeOK
  <2>. SUFFICES ASSUME IInv PROVE TypeOK
    OBVIOUS
  <2>1. \A p \in Passes :
          /\ pass[p].at \in {"idle", "next", "turn", "ended"}
          /\ (pass[p].at = "turn") <=> (Cardinality(pass[p].agent) = 1)
          /\ pass[p].agent \subseteq pass[p].seen /\ pass[p].seen \subseteq Agents
    <3>. TAKE p \in Passes
    <3>1. pass[p] \in Pass
      BY DEF IInv, Types
    <3>2. (pass[p].at = "turn") <=> (Cardinality(pass[p].agent) = 1)
      BY FS_EmptySet, FS_Singleton DEF IInv, Showing
    <3>. QED BY <3>1, <3>2 DEF IInv, Showing, Pass
  <2>2. dream \in [Dreamers -> [at : {"idle", "turn", "archived", "over"},
                                read : [version : Nat, size : Sizes \cup {0}],
                                size : Sizes \cup {0}]]
    BY DEF IInv, Types, Dream, Memory
  <2>3. versions \subseteq Nat /\ archive \subseteq versions \cup {0}
    BY FS_CardinalityType DEF IInv, Numbered
  <2>4. DOMAIN plans \subseteq 1..MaxDays
    BY DreamingAssumption DEF IInv, Types, Weekly
  <2>. QED BY <2>1, <2>2, <2>3, <2>4 DEF TypeOK, IInv, Types, Memory
<1>. QED BY <1>1, Invariance, PTL

\* A rewrite never leaves less than 30 % of the memory it replaces: the size is
\* compared under the lock with the file as it is then (update_memory).
THEOREM RewritesKeepSize == Spec => MemoryNeverCollapses
<1>1. ASSUME IInv, [Next]_vars
      PROVE  [memory' \in {memory, None} \/ 10 * memory'.size >= 3 * memory.size]_vars
  <2>1. ASSUME NEW d \in Dreamers, RemWrites(d), ~Loss(d)
        PROVE  10 * memory'.size >= 3 * memory.size
    <3>1. dream[d] \in Dream /\ memory \in Memory
      BY <1>1 DEF IInv, Types
    <3>2. dream[d].size \in Sizes \cup {0} /\ memory.size \in Sizes \cup {0}
      BY <3>1 DEF Dream, Memory
    <3>4. Sizes \cup {0} \subseteq Nat
      BY DreamingAssumption
    <3>3. memory'.size = dream[d].size
      BY <2>1 DEF RemWrites
    <3>. QED BY <2>1, <3>2, <3>3, <3>4 DEF Loss
  <2>2. ASSUME CommandLineDies \/ Crash
        PROVE  memory' \in {memory, None}
    BY <2>2 DEF CommandLineDies, Crash, Torn
  <2>. QED
    BY <1>1, <2>1, <2>2, MemorySteps
    DEF CommandLineDreams, Week, RemReads, RemFails, RemArchives, RemWrites, RemEnds, global
<1>. QED BY <1>1, Invariance, PTL DEF Spec, MemoryNeverCollapses

\* Unless two dreams have overlapped, every version of MEMORY.md there has been
\* is in the archive or in place, whatever died in between.
THEOREM NoMemoryIsLost == Spec => []MemoryRecoverable
<1>1. IInv => MemoryRecoverable
  BY DEF IInv, Kept, MemoryRecoverable
<1>. QED BY <1>1, Invariance, PTL

\* A pass that ends has gone through every agent, when none was created or
\* deleted meanwhile.
THEOREM PassesReachAll == Spec => []PassReachesAll
<1>1. IInv => PassReachesAll
  BY DEF IInv
<1>. QED BY <1>1, Invariance, PTL

\* No improvement plan is lost, though the archive keeps one a day
\* (run_weekly_improvement_cycle).
THEOREM NoPlanIsLost == Spec => []PlansKept
<1>1. IInv => PlansKept
  BY DEF IInv, Plan
<1>. QED BY <1>1, Invariance, PTL
=============================================================================
