------------------------------ MODULE Dreaming ------------------------------
(***************************************************************************)
(* Dreaming (memory/compactor.py, memory/durable.py, agents/improvement.py,*)
(* scheduler/engine.py): the nightly and the weekly job and the `memory    *)
(* dream` of the command line, a process of its own, which have Claude     *)
(* rewrite MEMORY.md, the MEMORY.md and REFLECTIONS.md of every agent and  *)
(* the improvement plan, while agents go on taking notes.                  *)
(*                                                                         *)
(* Each rewrite is a read, a turn of Claude, and a write.  The global      *)
(* memory is a version and its size, an agent's file a set of notes.  The  *)
(* summaries in the database are only added to and are left out.           *)
(***************************************************************************)
EXTENDS Integers, FiniteSets

CONSTANTS
    Agents,      \* agents there can be
    First,       \* agents there are at first
    Sizes,       \* sizes of a memory, in units of the shortest acceptable one
    MaxVersions, \* bound: rewrites of MEMORY.md
    MaxNotes,    \* bound: notes
    MaxDays,     \* bound: days
    MaxChanges,  \* bound: agents created and deleted
    Env          \* "cli" (dream on the command line), "crash"

ASSUME DreamingAssumption ==
    /\ First \subseteq Agents /\ Sizes \subseteq Nat \ {0}
    /\ MaxVersions \in Nat /\ MaxNotes \in Nat /\ MaxDays \in Nat \ {0} /\ MaxChanges \in Nat

Dreamers == {"weekly", "cli"}
Passes == {"night", "assess"}
None == [version |-> 0, size |-> 0]

VARIABLES
    day,        \* today
    done,       \* the last day each job has begun on
    memory,     \* MEMORY.md: [version, size]; None while it is empty
    archive,    \* the versions in memory/archive
    versions,   \* history: every version MEMORY.md has had
    dream,      \* each dreamer's REM sleep
    met,        \* history: two dreams have overlapped
    registry,   \* _agents
    notes,      \* an agent's MEMORY.md and REFLECTIONS.md, for the pass that rewrites it
    count,      \* notes taken so far
    pass,       \* each pass over the agents
    plan,       \* improvement-plan.md
    plans,      \* playbooks/archive, by day
    written,    \* history: every plan there has been
    changes

vars == <<day, done, memory, archive, versions, dream, met, registry, notes, count, pass,
          plan, plans, written, changes>>
global == <<memory, archive, versions, dream, met>>
team == <<registry, notes, count, pass, changes>>
planning == <<plan, plans, written>>

Idle == [at |-> "idle", read |-> None, size |-> 0]
Resting == [at |-> "idle", seen |-> {}, size |-> 0, agent |-> {}, shown |-> {}, quiet |-> TRUE]
Started == [Resting EXCEPT !.at = "next", !.size = Cardinality(registry)]

Init ==
    /\ day = 1 /\ done = [j \in {"night", "week"} |-> 0]
    /\ memory = None /\ archive = {} /\ versions = {}
    /\ dream = [d \in Dreamers |-> Idle] /\ met = FALSE
    /\ registry = First
    /\ notes = [a \in Agents |-> [p \in Passes |-> {}]] /\ count = 0
    /\ pass = [p \in Passes |-> Resting]
    /\ plan = 0 /\ plans = [d \in {} |-> 0] /\ written = {}
    /\ changes = 0

-----------------------------------------------------------------------------
\* REM sleep

Dreams(d) == dream[d].at # "idle"

RemReads(d) ==
    /\ dream' = [dream EXCEPT ![d] = [Idle EXCEPT !.at = "turn", !.read = memory]]
    /\ met' = (met \/ \E e \in Dreamers \ {d} : Dreams(e))
    /\ UNCHANGED <<memory, archive, versions>>

CommandLineDreams ==
    /\ "cli" \in Env /\ ~Dreams("cli") /\ Cardinality(versions) < MaxVersions
    /\ RemReads("cli")
    /\ UNCHANGED <<day, done, team, planning>>

\* An error, or an answer of less than 50 characters
RemFails(d) ==
    /\ dream[d].at = "turn"
    /\ dream' = [dream EXCEPT ![d].at = "over"]
    /\ UNCHANGED <<day, done, memory, archive, versions, met, team, planning>>

\* A slip for the checks: the old memory is not kept.
ArchivedNot == archive

Archived == archive \cup {memory.version}

\* archive_memory: a copy of the file as it is now
RemArchives(d) ==
    /\ dream[d].at = "turn" /\ Cardinality(versions) < MaxVersions
    /\ \E s \in Sizes :
          dream' = [dream EXCEPT ![d].at = "archived",
                                 ![d].size = s]
    /\ archive' = Archived
    /\ UNCHANGED <<day, done, memory, versions, met, team, planning>>

\* A slip for the checks: the new memory is compared with the one that was read.
LossAgainstRead(d) == 10 * dream[d].size < 3 * dream[d].read.size

Loss(d) == 10 * dream[d].size < 3 * memory.size

(***************************************************************************)
(* update_memory, under the lock: a memory of less than 30 % of what is    *)
(* there now is rejected.  A process that dies within the write leaves the *)
(* file empty.                                                             *)
(***************************************************************************)
RemWrites(d) ==
    /\ dream[d].at = "archived"
    /\ dream' = [dream EXCEPT ![d].at = "over"]
    /\ IF Loss(d) THEN UNCHANGED <<memory, versions>>
       ELSE /\ memory' = [version |-> Cardinality(versions) + 1, size |-> dream[d].size]
            /\ versions' = versions \cup {Cardinality(versions) + 1}
    /\ UNCHANGED <<day, done, archive, met, team, planning>>

\* With the dream over, the weekly job assesses the agents; the command line exits.
RemEnds(d) ==
    /\ dream[d].at = "over"
    /\ dream' = [dream EXCEPT ![d] = Idle]
    /\ pass' = IF d = "cli" THEN pass ELSE [pass EXCEPT !["assess"] = Started]
    /\ UNCHANGED <<day, done, memory, archive, versions, met, registry, notes, count, changes,
                   planning>>

-----------------------------------------------------------------------------
\* The passes over the agents

\* A deep sleep and then, whatever came of it, the compaction of all agents.
Night ==
    /\ done["night"] < day /\ pass["night"].at = "idle"
    /\ done' = [done EXCEPT !["night"] = day]
    /\ pass' = [pass EXCEPT !["night"] = Started]
    /\ UNCHANGED <<day, global, registry, notes, count, changes, planning>>

Week ==
    /\ done["week"] < day
    /\ done' = [done EXCEPT !["week"] = day]
    /\ RemReads("weekly")
    /\ UNCHANGED <<day, team, planning>>

\* The loop is over the registry itself, and ends with an error when its size changes.
Continues(p) == pass[p].at = "next" /\ Cardinality(registry) = pass[p].size

(***************************************************************************)
(* compact_agent_memory and run_agent_self_assessment: the file is read    *)
(* and shown to Claude; an agent without a conversation is passed over.    *)
(***************************************************************************)
Shows(p, a) ==
    /\ Continues(p) /\ a \in registry \ pass[p].seen
    /\ pass' = [pass EXCEPT ![p].at = "turn", ![p].seen = @ \cup {a}, ![p].agent = {a},
                            ![p].shown = notes[a][p]]
    /\ UNCHANGED <<day, done, global, registry, notes, count, changes, planning>>
PassesOver(p, a) ==
    /\ Continues(p) /\ a \in registry \ pass[p].seen
    /\ pass' = [pass EXCEPT ![p].seen = @ \cup {a}]
    /\ UNCHANGED <<day, done, global, registry, notes, count, changes, planning>>

\* Only a compaction is compared in size, and with what was shown.
Collapses(p, new) == p = "night" /\ 10 * Cardinality(new) < 3 * Cardinality(pass[p].shown)

\* The answer is some of what was shown and a summary of the conversations.
Rewrites(p, a) ==
    /\ pass[p].at = "turn" /\ pass[p].agent = {a}
    /\ \E kept \in SUBSET pass[p].shown :
          /\ ~Collapses(p, kept)
          /\ notes' = [notes EXCEPT ![a][p] = kept]
    /\ pass' = [pass EXCEPT ![p].at = "next", ![p].agent = {}, ![p].shown = {}]
    /\ UNCHANGED <<day, done, global, registry, count, changes, planning>>

\* An error, an answer that is too short or a loss, an exception: the next one.
RewriteFails(p) ==
    /\ pass[p].at = "turn"
    /\ pass' = [pass EXCEPT ![p].at = "next", ![p].agent = {}, ![p].shown = {}]
    /\ UNCHANGED <<day, done, global, registry, notes, count, changes, planning>>

PassEnds(p) ==
    /\ pass[p].at = "next"
    /\ registry \subseteq pass[p].seen \/ ~pass[p].quiet
    /\ pass' = [pass EXCEPT ![p].at = "ended"]
    /\ UNCHANGED <<day, done, global, registry, notes, count, changes, planning>>

JobEnds ==
    /\ pass["night"].at = "ended"
    /\ pass' = [pass EXCEPT !["night"] = Resting]
    /\ UNCHANGED <<day, done, global, registry, notes, count, changes, planning>>

(***************************************************************************)
(* run_weekly_improvement_cycle: the plan there is goes to the archive of  *)
(* the day, whatever became of the new one, "generation failed" included.  *)
(***************************************************************************)
\* A slip for the checks: the plan there is is not kept.
StoredNot(p) == plans

Stored(p) ==
    IF p = 0 THEN plans
    ELSE [d \in DOMAIN plans \cup {day} |-> IF d = day THEN p ELSE plans[d]]

Plans ==
    /\ pass["assess"].at = "ended"
    /\ pass' = [pass EXCEPT !["assess"] = Resting]
    /\ \/ /\ plans' = Stored(plan)
          /\ plan' = Cardinality(written) + 1
          /\ written' = written \cup {plan'}
       \/ UNCHANGED planning    \* an exception before that
    /\ UNCHANGED <<day, done, global, registry, notes, count, changes>>

-----------------------------------------------------------------------------
\* The others

\* An agent writes to its own file, with the tools its process has.
TakesNote(a, p) ==
    /\ a \in registry /\ count < MaxNotes
    /\ count' = count + 1
    /\ notes' = [notes EXCEPT ![a][p] = @ \cup {count}]
    /\ UNCHANGED <<day, done, global, registry, pass, changes, planning>>

\* create_agent and delete_agent of the chat
Changed(a, r) ==
    /\ changes < MaxChanges
    /\ changes' = changes + 1
    /\ registry' = r
    /\ pass' = [p \in Passes |-> [pass[p] EXCEPT !.quiet = FALSE]]
    /\ UNCHANGED <<day, done, global, notes, count, planning>>
Create(a) == a \notin registry /\ Changed(a, registry \cup {a})
Delete(a) == a \in registry /\ Changed(a, registry \ {a})

(***************************************************************************)
(* Every turn is timed out: the weekly job is over within its period.  The *)
(* nightly one need not be; the scheduler does not wait for either.        *)
(***************************************************************************)
Day ==
    /\ day < MaxDays /\ ~Dreams("weekly") /\ pass["assess"].at = "idle"
    /\ day' = day + 1
    /\ UNCHANGED <<done, global, team, planning>>

\* What MEMORY.md may be after the death of the process of dreamer d
Torn(d) == {memory} \cup IF dream[d].at = "archived" /\ ~Loss(d) THEN {None} ELSE {}

\* The daemon dies and is started again, with the agents that have a workspace.
Crash ==
    /\ "crash" \in Env
    /\ memory' \in Torn("weekly")
    /\ dream' = [dream EXCEPT !["weekly"] = Idle]
    /\ pass' = [p \in Passes |-> Resting]
    /\ dream' # dream \/ pass' # pass
    /\ UNCHANGED <<day, done, archive, versions, met, registry, notes, count, changes, planning>>

CommandLineDies ==
    /\ "crash" \in Env /\ Dreams("cli")
    /\ memory' \in Torn("cli")
    /\ dream' = [dream EXCEPT !["cli"] = Idle]
    /\ UNCHANGED <<day, done, archive, versions, met, team, planning>>

Next ==
    \/ CommandLineDreams \/ Night \/ Week \/ JobEnds \/ Plans \/ Day \/ Crash \/ CommandLineDies
    \/ \E d \in Dreamers : RemFails(d) \/ RemArchives(d) \/ RemWrites(d) \/ RemEnds(d)
    \/ \E p \in Passes :
         \/ RewriteFails(p) \/ PassEnds(p)
         \/ \E a \in Agents : Shows(p, a) \/ PassesOver(p, a) \/ Rewrites(p, a) \/ TakesNote(a, p)
    \/ \E a \in Agents : Create(a) \/ Delete(a)

Spec == Init /\ [][Next]_vars

-----------------------------------------------------------------------------

TypeOK ==
    /\ day \in 1..MaxDays /\ done \in [{"night", "week"} -> 0..MaxDays]
    /\ memory \in [version : Nat, size : Sizes \cup {0}]
    /\ archive \subseteq versions \cup {0} /\ versions \subseteq Nat /\ met \in BOOLEAN
    /\ dream \in [Dreamers -> [at : {"idle", "turn", "archived", "over"},
                               read : [version : Nat, size : Sizes \cup {0}],
                               size : Sizes \cup {0}]]
    /\ registry \subseteq Agents /\ count \in 0..MaxNotes /\ changes \in 0..MaxChanges
    /\ notes \in [Agents -> [Passes -> SUBSET (0..MaxNotes)]]
    /\ \A p \in Passes :
          /\ pass[p].at \in {"idle", "next", "turn", "ended"}
          /\ (pass[p].at = "turn") <=> (Cardinality(pass[p].agent) = 1)
          /\ pass[p].agent \subseteq pass[p].seen /\ pass[p].seen \subseteq Agents
    /\ plan \in Nat /\ DOMAIN plans \subseteq 1..MaxDays

(***************************************************************************)
(* A rewrite never leaves less than 30 % of the memory it replaces, though *)
(* the memory it was made from may be older: the comparison is with the    *)
(* file, under the lock.  Only a death within the write empties it.        *)
(***************************************************************************)
MemoryNeverCollapses ==
    [][memory' \in {memory, None} \/ 10 * memory'.size >= 3 * memory.size]_vars

(***************************************************************************)
(* Unless two dreams have overlapped, every memory there has been is in    *)
(* the archive or in place, whatever died in between.                      *)
(***************************************************************************)
MemoryRecoverable == met \/ versions \subseteq archive \cup {memory.version}

(***************************************************************************)
(* A pass that ends has gone through every agent, whatever happened to the *)
(* ones before it, when no agent was created or deleted meanwhile.         *)
(***************************************************************************)
PassReachesAll ==
    \A p \in Passes : pass[p].at = "ended" /\ pass[p].quiet => registry \subseteq pass[p].seen

(***************************************************************************)
(* No improvement plan is lost, though the archive keeps one a day and the *)
(* plan is replaced by whatever the turn gave: the job begins once in its  *)
(* period and is over before the next.                                     *)
(***************************************************************************)
PlansKept == written \subseteq {plan} \cup {plans[d] : d \in DOMAIN plans}

(***************************************************************************)
(* A rewrite takes away no note but those it was shown.  README.md:1266    *)
(* says that no data is lost when memory is updated simultaneously; the    *)
(* lock it speaks of is not taken for the agents' own files.               *)
(***************************************************************************)
RewriteDropsOnlyWhatItSaw ==
    [][\A a \in Agents, p \in Passes : notes[a][p] \ notes'[a][p] \subseteq pass[p].shown]_vars
=============================================================================
