----------------------------- MODULE Workspaces -----------------------------
(***************************************************************************)
(* Workspaces (agents/bootstrap.py, template_merge.py, agent.py, watcher.py,*)
(* evolution.py, core/daemon.py): the SOUL.md of the agents and all who    *)
(* write it - an editor, the chat, the templates of a new release, the     *)
(* weekly evolution - and all who keep a copy: the agent object, and the   *)
(* warm session that was created with it as its prompt.                    *)
(*                                                                         *)
(* A file is the set of its parts <<heading, line, version>>: the section  *)
(* of a "## " heading is the part from that line on and, where it has one, *)
(* the part from a sub-heading ("### ...") of it on.  A file has more than *)
(* one section of a heading when a mutation appended another, and no two   *)
(* writers write the same version.  The order of the sections is left out: *)
(* what is appended comes under any of them.                               *)
(***************************************************************************)
EXTENDS Integers, Sequences

CONSTANTS
    Agents,
    Staff,       \* the agents the code brings along
    Headings,
    Protected,   \* the headings that, normalised, begin as PROTECTED_SECTIONS
    Sub,         \* a sub-heading, which normalised does not
    Templates,   \* the headings of each release's template
    MaxEdits,    \* bound: writes by editors and by the chat
    MaxCycles,   \* bound: weekly evolutions
    Env          \* "early" (edits between the load and the watch),
                 \* "wet" (evolution_dry_run is off), "chat", "crash"

ASSUME WorkspacesAssumption ==
    /\ Staff \subseteq Agents /\ Protected \subseteq Headings
    /\ Staff # {} /\ Headings # {} /\ Sub \notin Headings
    /\ Templates \in Seq(SUBSET Headings) /\ Len(Templates) > 0
    /\ MaxEdits \in Nat /\ MaxCycles \in Nat

VARIABLES
    soul,      \* SOUL.md of each agent
    mtime,     \* its modification time
    stage,     \* how far the daemon has started
    todo,      \* the agents the current stage has not come to
    identity,  \* Agent.identity.soul
    seen,      \* _mtimes of the watcher
    warm,      \* the prompt of the agent's warm session
    cycle,     \* the agents this week's evolution has not come to
    shown,     \* what the evolution turn of an agent was shown
    edit,      \* history: the parts users wrote and nobody has rewritten
    release, edits, cycles

workVars == <<soul, mtime, stage, todo, identity, seen, warm, cycle, shown, edit, release, edits, cycles>>
files == <<soul, mtime>>
daemon == <<stage, todo, identity, seen, warm, cycle, shown>>
bounds == <<release, edits, cycles>>

Absent == {}
Cold == Absent         \* no session
NobodyAsked == Absent

\* A section written with these sub-headings.
Section(h, S, v) == {<<h, line, v>> : line \in {h} \cup S}

WorkInit ==
    /\ soul = [a \in Agents |->
                 IF a \in Staff THEN Absent
                 ELSE Section(CHOOSE h \in Headings : TRUE, {}, <<"own", 0>>)]
    /\ mtime = [a \in Agents |-> 0]
    /\ stage = "down" /\ todo = {}
    /\ identity = [a \in Agents |-> Absent]
    /\ seen = [a \in Agents |-> 0]
    /\ warm = [a \in Agents |-> Cold]
    /\ cycle = {} /\ shown = [a \in Agents |-> NobodyAsked]
    /\ edit = [a \in Agents |-> {}]
    /\ release = 1 /\ edits = 0 /\ cycles = 0

-----------------------------------------------------------------------------
\* Files

Template == Templates[release]
Sections(f) == {s[1] : s \in f}

Write(a, f) ==
    /\ soul' = [soul EXCEPT ![a] = f]
    /\ mtime' = [mtime EXCEPT ![a] = @ + 1]

\* merge_template_into_content: and the template's sections the file lacks
Merged(f) == f \cup UNION {Section(h, {}, <<"release", release>>) : h \in Template \ Sections(f)}

-----------------------------------------------------------------------------
\* Starting

Start ==
    /\ stage = "down"
    /\ stage' = "bootstrap" /\ todo' = Staff
    /\ UNCHANGED <<files, identity, seen, warm, cycle, shown, edit, bounds>>

After(a, next, s) ==
    /\ todo' = IF todo = {a} THEN next ELSE todo \ {a}
    /\ stage' = IF todo = {a} THEN s ELSE stage

\* create_csuite_workspaces
Bootstrap(a) ==
    /\ stage = "bootstrap" /\ a \in todo
    /\ IF soul[a] = Absent THEN Write(a, Merged(Absent)) ELSE UNCHANGED files
    /\ After(a, Staff, "merge")
    /\ UNCHANGED <<identity, seen, warm, cycle, shown, edit, bounds>>

\* merge_agent_templates
Merge(a) ==
    /\ stage = "merge" /\ a \in todo
    /\ IF Merged(soul[a]) # soul[a] THEN Write(a, Merged(soul[a])) ELSE UNCHANGED files
    /\ After(a, {}, "load")
    /\ UNCHANGED <<identity, seen, warm, cycle, shown, edit, bounds>>

\* load_all
Load ==
    /\ stage = "load"
    /\ identity' = soul
    /\ stage' = "loaded"
    /\ UNCHANGED <<files, todo, seen, warm, cycle, shown, edit, bounds>>

(***************************************************************************)
(* AgentFileWatcher.start, once the sessions are on their way and the      *)
(* pending workflows and the managed agents have been awaited.             *)
(***************************************************************************)
Watch ==
    /\ stage = "loaded"
    /\ seen' = mtime
    /\ stage' = "running"
    /\ UNCHANGED <<files, todo, identity, warm, cycle, shown, edit, bounds>>

Crash ==
    /\ "crash" \in Env
    /\ stage # "down"
    /\ stage' = "down" /\ todo' = {}
    /\ warm' = [a \in Agents |-> Cold]
    /\ cycle' = {} /\ shown' = [a \in Agents |-> NobodyAsked]
    /\ UNCHANGED <<files, identity, seen, edit, bounds>>

\* A new release of the code is installed; it takes effect at the next start.
Release ==
    /\ stage = "down" /\ release < Len(Templates)
    /\ release' = release + 1
    /\ UNCHANGED <<files, daemon, edit, edits, cycles>>

-----------------------------------------------------------------------------
\* Running

\* A slip for the checks: the times are noted, and the agent's next edit is waited for.
CheckNotes ==
    /\ stage = "running" /\ seen # mtime
    /\ seen' = mtime
    /\ identity' = [a \in Agents |-> IF seen[a] = 0 THEN soul[a] ELSE identity[a]]
    /\ UNCHANGED <<files, stage, todo, warm, cycle, shown, edit, bounds>>

\* _check_all of the watcher
CheckAll ==
    /\ stage = "running" /\ seen # mtime
    /\ seen' = mtime
    /\ identity' = [a \in Agents |-> IF seen[a] # mtime[a] THEN soul[a] ELSE identity[a]]
    /\ UNCHANGED <<files, stage, todo, warm, cycle, shown, edit, bounds>>

(***************************************************************************)
(* A turn, or the creation of the sessions at the start: ensure_agent_     *)
(* session makes a session with the prompt of the day and reuses it then.  *)
(***************************************************************************)
Turn(a) ==
    /\ stage \in {"loaded", "running"}
    /\ warm' = [warm EXCEPT ![a] = IF @ = Cold THEN identity[a] ELSE @]
    /\ UNCHANGED <<files, stage, todo, identity, seen, cycle, shown, edit, bounds>>

SessionEnds(a) ==
    /\ warm[a] # Cold
    /\ warm' = [warm EXCEPT ![a] = Cold]
    /\ UNCHANGED <<files, stage, todo, identity, seen, cycle, shown, edit, bounds>>

Without(f, h) == {s \in f : s[1] # h}

\* Somebody writes or removes a section with an editor.
UserEdits(a, h) ==
    /\ edits < MaxEdits /\ soul[a] # Absent
    /\ stage = "loaded" => "early" \in Env
    /\ edits' = edits + 1
    /\ \E new \in {{}} \cup {Section(h, S, <<"user", edits>>) : S \in SUBSET {Sub}} :
         /\ new = {} => h \in Sections(soul[a]) /\ Sections(soul[a]) # {h}
         /\ Write(a, Without(soul[a], h) \cup new)
         /\ edit' = [edit EXCEPT ![a] = Without(@, h) \cup new]
    /\ UNCHANGED <<daemon, release, cycles>>

\* update_agent with the field "soul": the whole file, and the agent reloads
ChatReplaces(a, h) ==
    /\ "chat" \in Env
    /\ stage = "running" /\ edits < MaxEdits
    /\ edits' = edits + 1
    /\ \E S \in SUBSET {Sub} : Write(a, Section(h, S, <<"user", edits>>))
    /\ identity' = [identity EXCEPT ![a] = soul'[a]]
    /\ edit' = [edit EXCEPT ![a] = soul'[a]]
    /\ UNCHANGED <<stage, todo, seen, warm, cycle, shown, release, cycles>>

-----------------------------------------------------------------------------
\* The weekly evolution

RunEvolution ==
    /\ stage = "running" /\ cycle = {} /\ cycles < MaxCycles
    /\ cycle' = Agents
    /\ cycles' = cycles + 1
    /\ UNCHANGED <<files, stage, todo, identity, seen, warm, shown, edit, release, edits>>

\* The model is shown the files of one agent and asked for mutations of them.
Ask(a) ==
    /\ a \in cycle
    /\ \A b \in Agents : shown[b] = NobodyAsked
    /\ shown' = [shown EXCEPT ![a] = soul[a]]
    /\ UNCHANGED <<files, stage, todo, identity, seen, warm, cycle, edit, bounds>>

Proposals == [op : {"append", "replace"}, heading : Headings \cup {Sub}]

(***************************************************************************)
(* The check of _apply_proposals looks at the heading normalised: a        *)
(* sub-heading passes it, whatever section it stands in.                   *)
(***************************************************************************)
Rejected(p) == p.op = "replace" /\ p.heading \in Protected

Mutation == <<"evolution", cycles>>

(***************************************************************************)
(* _apply_operation.  A replacement goes from every occurrence of the line *)
(* to the next "## ": a heading stands for its sections, a sub-heading for *)
(* the rest of every section it is found in.                               *)
(***************************************************************************)
Named(f, line) == {s \in f : line \in {s[1], s[2]}}
Appended(f, line) ==
    IF line \in Headings THEN {f \cup Section(line, {}, Mutation)}
    ELSE {f \cup {<<h, line, Mutation>>} : h \in Sections(f)}
Operated(f, p) ==
    LET struck == Named(f, p.heading)
    IN IF p.op = "replace" /\ struck # {}
       THEN {(f \ struck) \cup {<<s[1], p.heading, Mutation>> : s \in struck}}
       ELSE Appended(f, p.heading)

\* A slip for the checks: the file as the model was shown it.
BaseShown(a) == shown[a]

Base(a) == soul[a]

(***************************************************************************)
(* _apply_proposals, for a reply with one mutation of SOUL.md or with none *)
(* that is left after the checks of its form and of its size.  A reply     *)
(* with several is the one step for each, with nothing in between.         *)
(***************************************************************************)
Ends(a) ==
    /\ cycle' = cycle \ {a}
    /\ shown' = [shown EXCEPT ![a] = NobodyAsked]
Applies(a, p) ==
    /\ shown[a] # NobodyAsked
    /\ ~Rejected(p) /\ "wet" \in Env
    /\ \E f \in Operated(Base(a), p) : Write(a, f)
    /\ identity' = [identity EXCEPT ![a] = soul'[a]]
    /\ edit' = [edit EXCEPT ![a] = IF p.op = "replace" THEN @ \ Named(@, p.heading) ELSE @]
    /\ Ends(a)
    /\ UNCHANGED <<stage, todo, seen, warm, bounds>>
AppliesNone(a) ==
    /\ shown[a] # NobodyAsked
    /\ Ends(a)
    /\ UNCHANGED <<files, stage, todo, identity, seen, warm, edit, bounds>>

UserSteps == \E a \in Agents, h \in Headings : UserEdits(a, h) \/ ChatReplaces(a, h)

WorkNext ==
    \/ Start \/ Load \/ Watch \/ Crash \/ Release \/ CheckAll \/ RunEvolution
    \/ \E a \in Agents :
         \/ Bootstrap(a) \/ Merge(a) \/ Turn(a) \/ SessionEnds(a) \/ Ask(a) \/ AppliesNone(a)
         \/ \E p \in Proposals : Applies(a, p)
    \/ UserSteps

WorkSpec == WorkInit /\ [][WorkNext]_workVars
FairWorkSpec == WorkSpec /\ WF_workVars(CheckAll)

-----------------------------------------------------------------------------
\* Properties

WorkTypeOK ==
    /\ \A a \in Agents : /\ Sections(soul[a]) \cup Sections(warm[a]) \subseteq Headings
                         /\ \A s \in soul[a] \cup warm[a] : s[2] \in {s[1], Sub}
                         /\ seen[a] <= mtime[a]
    /\ stage \in {"down", "bootstrap", "merge", "load", "loaded", "running"}
    /\ todo # {} <=> stage \in {"bootstrap", "merge"}
    /\ cycle # {} => stage = "running"

(***************************************************************************)
(* What a user wrote stays there until a user or a mutation replaces that  *)
(* section or that part of it: templates of later releases, restarts and   *)
(* evolutions of other sections, also ones that were asked for before the  *)
(* edit, do not undo it (template_merge.py:3; evolution.py:231).           *)
(***************************************************************************)
EditsSurvive == \A a \in Agents : edit[a] \subseteq soul[a]

(***************************************************************************)
(* Nobody but a user removes or rewrites a protected section               *)
(* (evolution.py:73: "These sections in SOUL.md cannot be removed or       *)
(* replaced").  The replacement of a sub-heading does rewrite the rest of  *)
(* a protected section: the check knows the sections by their own headings.*)
(***************************************************************************)
ProtectedKept ==
    [][UserSteps \/
         \A a \in Agents : \A s \in soul[a] : s[1] \in Protected => s \in soul'[a]]_workVars

(***************************************************************************)
(* A file that was changed while the daemon runs, by whomever, is what the *)
(* agent is told about itself some time later (watcher.py:85).             *)
(***************************************************************************)
LoadedCatchesUp ==
    \A a \in Agents :
        stage = "running" /\ identity[a] # soul[a] ~> identity[a] = soul[a] \/ stage # "running"

(***************************************************************************)
(* The prompt of an agent's next turn is the file the agent has loaded     *)
(* (src/README.md:1277: "Edits take effect on the next message").  It is   *)
(* not while a session of the agent is warm: its prompt was given when it  *)
(* was created (process.py:237).                                           *)
(***************************************************************************)
PromptIsCurrent ==
    \A a \in Agents : stage = "running" => warm[a] \in {Cold, identity[a]}
=============================================================================
