------------------------ MODULE Conversations_proofs ------------------------
(***************************************************************************)
(* Conversations, for every set of users, agents and tasks, every session  *)
(* a client may name and every number of turns: the rows of the table, the *)
(* sessions that the unique index keeps apart, the views, and the expiry.  *)
(***************************************************************************)
EXTENDS Conversations, FiniteSetTheorems, SequenceTheorems, WellFoundedInduction, TLAPS

(***************************************************************************)
(* The inductive invariant, in parts.                                      *)
(***************************************************************************)
UserIds == Seq(Users \cup Agents \cup Tasks \cup {"spawn", "agent", "scheduler"})
SessionIds ==
  ({"row", "claude"} \X Nat) \cup ({"sdk"} \X (Agents \cup {Nobody})) \cup ({"client"} \X Names)
Rows == [uid : UserIds, status : {"active", "archived"}, last : Int, cost : Nat,
         session : SessionIds]
TurnRecords ==
  [conv : Nat, agent : Agents \cup {Nobody}, kind : {"chat", "spawn", "alone", "beat"},
   at : {"asked", "told", "over", "due", "again", "failed", "lost", "raised"}, named : BOOLEAN,
   session : SessionIds, resumes : BOOLEAN, follows : BOOLEAN, after : Nat]

Types ==
  /\ convs \in Seq(Rows) /\ turns \in Seq(TurnRecords)
  /\ now \in Nat /\ fence \in [Users -> Nat]

\* An open conversation is the only one of its user id.
Single(T) ==
  \A i, j \in DOMAIN T :
    T[i].status = "active" /\ T[j].status = "active" /\ T[i].uid = T[j].uid => i = j

\* No two rows have the same session.  It is one that a client named, the one
\* the row was made with, or the one that Claude gave a turn of that row.
Given(s, i, tn) == \E k \in DOMAIN tn : s = <<"claude", k>> /\ tn[k].conv = i
Owned(T, tn) ==
  \A i \in DOMAIN T :
    /\ \/ T[i].session \in {"client"} \X Names
       \/ T[i].session = <<"row", i>>
       \/ Given(T[i].session, i, tn)
    /\ \A j \in DOMAIN T : T[i].session = T[j].session => i = j

\* A turn that resumes does so with a session that Claude gave its own row, and
\* no row has the session of a warm one.
Resumed ==
  \A n \in DOMAIN turns :
    /\ turns[n].conv \in DOMAIN convs
    /\ turns[n].resumes => Given(turns[n].session, turns[n].conv, turns)
    /\ turns[n].session \notin {"sdk"} \X (Agents \cup {Nobody})
    /\ turns[n].at # "raised"
    /\ turns[n].kind = "alone" => turns[n].agent = Nobody

\* Claude has answered with the sessions it made up, and with the warm ones.
Confirmed ==
  \A s \in confirmed :
    \/ \E k \in DOMAIN turns : s = <<"claude", k>>
    \/ s \in {"sdk"} \X (Agents \cup {Nobody})

\* A chat that named no session is in the row of the user id it was asked under.
Chats ==
  \A n \in DOMAIN turns :
    turns[n].kind = "chat" /\ ~turns[n].named =>
      \/ \E u \in Users : convs[turns[n].conv].uid = <<u, turns[n].agent>>
      \/ \E f \in Agents : convs[turns[n].conv].uid = <<"agent", f, turns[n].agent>>

IInv == Types /\ Single(convs) /\ Owned(convs, turns) /\ Resumed /\ Confirmed /\ Chats

-----------------------------------------------------------------------------
(***************************************************************************)
(* The table.                                                              *)
(***************************************************************************)

\* No session is the empty one.
LEMMA SessionIsSome == NoSession \notin SessionIds
BY DEF NoSession, SessionIds

\* The sessions of rows, of Claude, and of clients are told apart.
LEMMA SessionKinds ==
  ASSUME NEW i \in Nat, NEW k \in Nat
  PROVE  /\ <<"row", i>> \in SessionIds /\ <<"claude", k>> \in SessionIds
         /\ <<"row", i>> # <<"claude", k>>
         /\ <<"row", i>> = <<"row", k>> => i = k
         /\ <<"claude", i>> = <<"claude", k>> => i = k
         /\ <<"row", i>> \notin {"client"} \X Names
         /\ <<"claude", k>> \notin {"client"} \X Names
         /\ <<"row", i>> \notin {"sdk"} \X (Agents \cup {Nobody})
         /\ <<"claude", i>> \notin {"sdk"} \X (Agents \cup {Nobody})
BY DEF SessionIds

\* A client's session and a warm one are told apart.
LEMMA ClientIsNotWarm ==
  ASSUME NEW s \in {"client"} \X Names
  PROVE  s \in SessionIds /\ s \notin {"sdk"} \X (Agents \cup {Nobody})
BY DEF SessionIds

\* The newest of the rows that are open under a user id is the only one.
LEMMA NewestIsOpen ==
  ASSUME NEW T \in Seq(Rows), Single(T), NEW uid, Open(T, uid) # {}
  PROVE  Newest(T, Open(T, uid)) \in Open(T, uid)
<1>1. PICK i \in Open(T, uid) : TRUE  OBVIOUS
<1>2. \A j \in Open(T, uid) : j = i  BY <1>1 DEF Open, Single
<1>3. T[i].last \in Int
  <2>1. i \in DOMAIN T  BY <1>1 DEF Open
  <2>2. T[i] \in Rows  BY <2>1
  <2> QED  BY <2>2 DEF Rows
<1>4. \A j \in Open(T, uid) : T[i].last >= T[j].last  BY <1>2, <1>3
<1> QED  BY <1>1, <1>4 DEF Newest

\* A session that may come with a message.
Askable(T, s) ==
  \/ s = NoSession
  \/ s \in {"client"} \X Names
  \/ \E i \in DOMAIN T : s = T[i].session

\* A message finds its row, or is given a new one under its user id.
LEMMA Found ==
  ASSUME NEW T \in Seq(Rows), Single(T), NEW uid \in UserIds, NEW s, now \in Nat, Askable(T, s)
  PROVE  \/ /\ Row(T, uid, s) \in DOMAIN T /\ GetOrCreate(T, uid, s) = T
            /\ s = NoSession => T[Row(T, uid, s)].uid = uid
         \/ /\ Row(T, uid, s) = Len(T) + 1
            /\ GetOrCreate(T, uid, s) =
                 Append(T, [uid |-> uid, status |-> "active", last |-> now, cost |-> 0,
                            session |-> IF s = NoSession THEN <<"row", Len(T) + 1>> ELSE s])
            /\ WithSession(T, s) = {} /\ Open(T, uid) = {}
<1>0. DOMAIN T = 1..Len(T) /\ Len(T) \in Nat  OBVIOUS
<1>1. CASE WithSession(T, s) # {}
  <2>1. Row(T, uid, s) \in WithSession(T, s)  BY <1>1 DEF Row
  <2>2. s # NoSession /\ Row(T, uid, s) \in DOMAIN T  BY <2>1 DEF WithSession
  <2> QED  BY <2>2 DEF GetOrCreate
<1>2. CASE WithSession(T, s) = {} /\ Open(T, uid) # {}
  <2>1. Row(T, uid, s) \in Open(T, uid)  BY <1>2, NewestIsOpen DEF Row
  <2>2. Row(T, uid, s) \in DOMAIN T /\ T[Row(T, uid, s)].uid = uid  BY <2>1 DEF Open
  <2> QED  BY <2>2 DEF GetOrCreate
<1>3. CASE WithSession(T, s) = {} /\ Open(T, uid) = {}
  <2>1. Row(T, uid, s) = Len(T) + 1  BY <1>3 DEF Row
  <2>2. Row(T, uid, s) \notin DOMAIN T  BY <1>0, <2>1
  <2> QED  BY <1>3, <2>1, <2>2 DEF GetOrCreate
<1> QED  BY <1>1, <1>2, <1>3

\* The table that a message finds or makes keeps what the invariant says of it.
LEMMA Kept ==
  ASSUME NEW T \in Seq(Rows), Single(T), NEW tn, Owned(T, tn),
         NEW uid \in UserIds, NEW s, now \in Nat, Askable(T, s), DOMAIN tn \subseteq Nat
  PROVE  LET i  == Row(T, uid, s)
             T2 == GetOrCreate(T, uid, s)
         IN /\ T2 \in Seq(Rows) /\ Single(T2) /\ Owned(T2, tn)
            /\ DOMAIN T \subseteq DOMAIN T2 /\ \A j \in DOMAIN T : T2[j] = T[j]
            /\ i \in DOMAIN T2
            /\ s = NoSession => T2[i].uid = uid
<1> DEFINE i == Row(T, uid, s)
           T2 == GetOrCreate(T, uid, s)
           fresh == IF s = NoSession THEN <<"row", Len(T) + 1>> ELSE s
           r == [uid |-> uid, status |-> "active", last |-> now, cost |-> 0, session |-> fresh]
<1>1. \/ i \in DOMAIN T /\ T2 = T /\ (s = NoSession => T[i].uid = uid)
      \/ /\ i = Len(T) + 1 /\ T2 = Append(T, r)
         /\ WithSession(T, s) = {} /\ Open(T, uid) = {}
  BY Found
<1>2. DOMAIN T = 1..Len(T) /\ Len(T) \in Nat  OBVIOUS
<1>3. fresh \in SessionIds
  <2>0. Len(T) + 1 \in Nat  BY <1>2
  <2>1. CASE s = NoSession  BY <2>0, <2>1, SessionKinds
  <2>2. CASE s \in {"client"} \X Names  BY <2>2, ClientIsNotWarm, SessionIsSome
  <2>3. CASE \E k \in DOMAIN T : s = T[k].session
    <3>1. \A k \in DOMAIN T : T[k] \in Rows  OBVIOUS
    <3> QED  BY <2>3, <3>1, SessionIsSome DEF Rows
  <2> QED  BY <2>1, <2>2, <2>3 DEF Askable
<1>4. /\ r \in Rows /\ r.uid = uid /\ r.status = "active" /\ r.session = fresh
  BY <1>3 DEF Rows
<1> HIDE DEF i, T2, r
<1>5. CASE i \in DOMAIN T /\ T2 = T /\ (s = NoSession => T[i].uid = uid)
  BY <1>5 DEF i, T2
<1>6. CASE /\ i = Len(T) + 1 /\ T2 = Append(T, r)
           /\ WithSession(T, s) = {} /\ Open(T, uid) = {}
  <2>1. /\ T2 \in Seq(Rows) /\ DOMAIN T2 = 1..Len(T) + 1
        /\ T2[Len(T) + 1] = r /\ \A j \in 1..Len(T) : T2[j] = T[j]
    BY <1>4, <1>6
  <2>2. Single(T2)
    BY <1>2, <1>4, <1>6, <2>1 DEF Single, Open
  <2>3. \A j \in DOMAIN T : T[j].session # fresh
    <3>1. CASE s = NoSession
      BY <1>2, <3>1, SessionKinds DEF Owned, Given
    <3>2. CASE s # NoSession
      BY <1>6, <3>2 DEF WithSession
    <3> QED  BY <3>1, <3>2
  <2>4. fresh \in {"client"} \X Names \/ fresh = <<"row", Len(T) + 1>>
    BY <1>6 DEF Askable, WithSession
  <2> HIDE DEF fresh
  <2>5. Owned(T2, tn)
    <3> SUFFICES ASSUME NEW k \in DOMAIN T2
                 PROVE  /\ \/ T2[k].session \in {"client"} \X Names
                           \/ T2[k].session = <<"row", k>>
                           \/ Given(T2[k].session, k, tn)
                        /\ \A j \in DOMAIN T2 : T2[k].session = T2[j].session => k = j
      BY DEF Owned
    <3>1. CASE k \in DOMAIN T
      BY <1>2, <1>4, <2>1, <2>3, <3>1 DEF Owned
    <3>2. CASE k = Len(T) + 1
      BY <1>2, <1>4, <2>1, <2>3, <2>4, <3>2
    <3> QED  BY <1>2, <2>1, <3>1, <3>2
  <2> QED  BY <1>2, <1>4, <1>6, <2>1, <2>2, <2>5 DEF i, T2
<1> QED  BY <1>1, <1>5, <1>6

-----------------------------------------------------------------------------
(***************************************************************************)
(* Turns.                                                                  *)
(***************************************************************************)

\* What Claude gave a row stays given while turns keep their rows.
LEMMA GivenKept ==
  ASSUME NEW T, NEW tn, NEW tn2, Owned(T, tn), DOMAIN tn \subseteq DOMAIN tn2,
         \A k \in DOMAIN tn : tn2[k].conv = tn[k].conv
  PROVE  /\ Owned(T, tn2)
         /\ \A s, i : Given(s, i, tn) => Given(s, i, tn2)
<1>1. \A s, i : Given(s, i, tn) => Given(s, i, tn2)  BY DEF Given
<1> QED  BY <1>1 DEF Owned

\* A conversation that a row's session belongs to is the row's own.
LEMMA GivenIsOwn ==
  ASSUME NEW T, NEW tn, Owned(T, tn), DOMAIN T \subseteq Nat, DOMAIN tn \subseteq Nat,
         NEW j \in DOMAIN T, NEW i \in Nat, Given(T[j].session, i, tn)
  PROVE  j = i
<1>1. PICK k \in DOMAIN tn : T[j].session = <<"claude", k>> /\ tn[k].conv = i  BY DEF Given
<1>2. Given(T[j].session, j, tn)  BY <1>1, SessionKinds DEF Owned
<1>3. PICK l \in DOMAIN tn : T[j].session = <<"claude", l>> /\ tn[l].conv = j  BY <1>2 DEF Given
<1> QED  BY <1>1, <1>3, SessionKinds

\* The session of a row is never a warm one, and if Claude has answered with it
\* it was in a turn of that row.
LEMMA RowSession ==
  ASSUME NEW T, Owned(T, turns), DOMAIN T \subseteq Nat, DOMAIN turns \subseteq Nat, Confirmed,
         NEW i \in DOMAIN T
  PROVE  /\ T[i].session \notin {"sdk"} \X (Agents \cup {Nobody})
         /\ T[i].session \in confirmed => Given(T[i].session, i, turns)
<1>1. CASE T[i].session \in {"client"} \X Names
  BY <1>1, ClientIsNotWarm, SessionKinds DEF Confirmed
<1>2. CASE T[i].session = <<"row", i>>
  BY <1>2, SessionKinds DEF Confirmed
<1>3. CASE Given(T[i].session, i, turns)
  BY <1>3, SessionKinds DEF Given
<1> QED  BY <1>1, <1>2, <1>3 DEF Owned

\* The record of a new turn.
LEMMA RecordIs ==
  ASSUME NEW i \in Nat, NEW a \in Agents \cup {Nobody}, NEW kind \in {"chat", "spawn", "alone", "beat"},
         NEW named \in BOOLEAN, NEW s \in SessionIds, NEW resumes \in BOOLEAN,
         NEW follows \in BOOLEAN, NEW after \in Nat
  PROVE  [conv |-> i, agent |-> a, kind |-> kind, at |-> "asked", named |-> named, session |-> s,
          resumes |-> resumes, follows |-> follows, after |-> after] \in TurnRecords
BY DEF TurnRecords

\* A message is stored in its row and a turn begins.
LEMMA Begun ==
  ASSUME IInv, NEW T \in Seq(Rows), Single(T), Owned(T, turns), DOMAIN convs \subseteq DOMAIN T,
         \A j \in DOMAIN convs : T[j] = convs[j],
         NEW uid \in UserIds, NEW s, Askable(T, s), NEW after \in Nat,
         NEW a \in Agents \cup {Nobody}, NEW kind \in {"chat", "spawn", "alone", "beat"},
         kind = "alone" => a = Nobody,
         kind = "chat" =>
           (\E u \in Users : uid = <<u, a>>) \/ (\E f \in Agents : uid = <<"agent", f, a>>),
         Begin(T, uid, s, after, a, kind), UNCHANGED <<confirmed, now, fence>>
  PROVE  IInv'
<1> DEFINE i == Row(T, uid, s)
           T2 == GetOrCreate(T, uid, s)
           r == [conv |-> i, agent |-> a, kind |-> kind, at |-> "asked", named |-> s # NoSession,
                 session |-> T2[i].session, resumes |-> Resumes(T2[i].session),
                 follows |-> Follows(i), after |-> after]
<1>0. Types /\ Single(convs) /\ Owned(convs, turns) /\ Resumed /\ Confirmed /\ Chats
  BY DEF IInv
<1>1. DOMAIN turns = 1..Len(turns) /\ Len(turns) \in Nat /\ DOMAIN turns \subseteq Nat
  BY <1>0 DEF Types
<1>2. /\ T2 \in Seq(Rows) /\ Single(T2) /\ Owned(T2, turns)
      /\ DOMAIN T \subseteq DOMAIN T2 /\ \A j \in DOMAIN T : T2[j] = T[j]
      /\ i \in DOMAIN T2
      /\ s = NoSession => T2[i].uid = uid
  <2>1. now \in Nat  BY <1>0 DEF Types
  <2> QED  BY <1>1, <2>1, Kept
<1>3. convs' = T2 /\ turns' = Append(turns, r)  BY DEF Begin
<1>4. i \in Nat /\ T2[i].session \in SessionIds /\ DOMAIN T2 \subseteq Nat
  <2>1. T2[i] \in Rows  BY <1>2
  <2> QED  BY <1>2, <2>1 DEF Rows
<1>5. Resumes(T2[i].session) \in BOOLEAN /\ Follows(i) \in BOOLEAN
  BY DEF Resumes, Follows
<1>6. r \in TurnRecords
  <2> DEFINE n == s # NoSession
             x == Resumes(T2[i].session)
             y == Follows(i)
             q == T2[i].session
             record == [conv |-> i, agent |-> a, kind |-> kind, at |-> "asked", named |-> n,
                        session |-> q, resumes |-> x, follows |-> y, after |-> after]
  <2>1. n \in BOOLEAN /\ x \in BOOLEAN /\ y \in BOOLEAN  BY <1>5
  <2>2. r = record  OBVIOUS
  <2>3. i \in Nat /\ q \in SessionIds  BY <1>4
  <2> HIDE DEF n, x, y, q, i, r
  <2>4. record \in TurnRecords  BY <2>1, <2>3, RecordIs
  <2> QED  BY <2>2, <2>4
<1>7. /\ T2[i].session \notin {"sdk"} \X (Agents \cup {Nobody})
      /\ Resumes(T2[i].session) => Given(T2[i].session, i, turns)
  BY <1>0, <1>1, <1>2, <1>4, RowSession DEF Resumes
<1>8. /\ r.conv = i /\ r.agent = a /\ r.kind = kind /\ r.at = "asked"
      /\ r.named = (s # NoSession) /\ r.session = T2[i].session
      /\ r.resumes = Resumes(T2[i].session)
  OBVIOUS
<1> HIDE DEF i, T2, r
<1>9. /\ turns' \in Seq(TurnRecords) /\ DOMAIN turns' = 1..Len(turns) + 1
      /\ turns'[Len(turns) + 1] = r /\ \A n \in DOMAIN turns : turns'[n] = turns[n]
  BY <1>0, <1>1, <1>3, <1>6 DEF Types
<1>10. Types'  BY <1>0, <1>2, <1>3, <1>9 DEF Types
<1>11. /\ Owned(convs', turns')
       /\ \A q, j : Given(q, j, turns) => Given(q, j, turns')
  <2>1. Owned(convs', turns) /\ DOMAIN turns \subseteq DOMAIN turns'  BY <1>1, <1>2, <1>3, <1>9
  <2>2. \A k \in DOMAIN turns : turns'[k].conv = turns[k].conv  BY <1>9
  <2> QED  BY <2>1, <2>2, GivenKept
<1>12. Resumed'
  <2> SUFFICES ASSUME NEW n \in DOMAIN turns'
               PROVE  /\ turns'[n].conv \in DOMAIN convs'
                      /\ turns'[n].resumes => Given(turns'[n].session, turns'[n].conv, turns')
                      /\ turns'[n].session \notin {"sdk"} \X (Agents \cup {Nobody})
                      /\ turns'[n].at # "raised"
                      /\ turns'[n].kind = "alone" => turns'[n].agent = Nobody
    BY DEF Resumed
  <2>1. CASE n \in DOMAIN turns
    BY <1>0, <1>2, <1>3, <1>9, <1>11, <2>1 DEF Resumed
  <2>2. CASE n = Len(turns) + 1
    BY <1>2, <1>3, <1>7, <1>8, <1>9, <1>11, <2>2
  <2> QED  BY <1>1, <1>9, <2>1, <2>2
<1>13. Confirmed'
  BY <1>0, <1>1, <1>9 DEF Confirmed
<1>14. Chats'
  <2> SUFFICES ASSUME NEW n \in DOMAIN turns', turns'[n].kind = "chat", ~turns'[n].named
               PROVE  \/ \E u \in Users : convs'[turns'[n].conv].uid = <<u, turns'[n].agent>>
                      \/ \E f \in Agents :
                           convs'[turns'[n].conv].uid = <<"agent", f, turns'[n].agent>>
    BY DEF Chats
  <2>1. CASE n \in DOMAIN turns
    <3>1. convs'[turns'[n].conv] = convs[turns[n].conv] /\ turns'[n] = turns[n]
      BY <1>0, <1>2, <1>3, <1>9, <2>1 DEF Resumed
    <3> QED  BY <1>0, <2>1, <3>1 DEF Chats
  <2>2. CASE n = Len(turns) + 1
    BY <1>2, <1>3, <1>8, <1>9, <2>2
  <2> QED  BY <1>1, <1>9, <2>1, <2>2
<1> QED  BY <1>2, <1>3, <1>10, <1>11, <1>12, <1>13, <1>14 DEF IInv

\* A turn moves on in its own record only.
Moved(tn, tn2) ==
  /\ tn2 \in Seq(TurnRecords) /\ DOMAIN tn2 = DOMAIN tn
  /\ \A n \in DOMAIN tn :
       /\ tn2[n].conv = tn[n].conv /\ tn2[n].agent = tn[n].agent /\ tn2[n].kind = tn[n].kind
       /\ tn2[n].named = tn[n].named /\ tn2[n].session = tn[n].session
       /\ tn2[n].resumes = tn[n].resumes
       /\ tn2[n].at = "raised" => tn[n].at = "raised"

\* The rows stay open or are closed, under the user ids they have.
Narrowed(T, T2) ==
  /\ T2 \in Seq(Rows) /\ DOMAIN T2 = DOMAIN T
  /\ \A i \in DOMAIN T : /\ T2[i].uid = T[i].uid
                         /\ T2[i].status = "active" => T[i].status = "active"

\* What is said of turns goes on to hold when they move and rows are kept.
LEMMA Follow ==
  ASSUME IInv, Moved(turns, turns'), Narrowed(convs, convs'), Owned(convs', turns'), Confirmed',
         UNCHANGED <<now, fence>>
  PROVE  IInv'
<1>0. Types /\ Single(convs) /\ Owned(convs, turns) /\ Resumed /\ Confirmed /\ Chats
  BY DEF IInv
<1>1. Types'  BY <1>0 DEF Types, Moved, Narrowed
<1>2. Single(convs')  BY <1>0 DEF Single, Narrowed
<1>3. \A s, i : Given(s, i, turns) => Given(s, i, turns')  BY <1>0, GivenKept DEF Moved
<1>4. Resumed'  BY <1>0, <1>3 DEF Resumed, Moved, Narrowed
<1>5. Chats'
  <2> SUFFICES ASSUME NEW n \in DOMAIN turns', turns'[n].kind = "chat", ~turns'[n].named
               PROVE  \/ \E u \in Users : convs'[turns'[n].conv].uid = <<u, turns'[n].agent>>
                      \/ \E f \in Agents :
                           convs'[turns'[n].conv].uid = <<"agent", f, turns'[n].agent>>
    BY DEF Chats
  <2>1. /\ n \in DOMAIN turns /\ turns[n].kind = "chat" /\ ~turns[n].named
        /\ turns'[n].conv = turns[n].conv /\ turns'[n].agent = turns[n].agent
    BY DEF Moved
  <2>2. convs'[turns[n].conv].uid = convs[turns[n].conv].uid
    BY <1>0, <2>1 DEF Resumed, Narrowed
  <2> QED  BY <1>0, <2>1, <2>2 DEF Chats
<1> QED  BY <1>1, <1>2, <1>4, <1>5 DEF IInv

\* The place of one turn changes.
LEMMA TurnMoved ==
  ASSUME turns \in Seq(TurnRecords), NEW n \in DOMAIN turns,
         NEW v \in {"asked", "told", "over", "due", "again", "failed", "lost"},
         turns' = [turns EXCEPT ![n].at = v]
  PROVE  Moved(turns, turns') /\ turns'[n].at = v
<1>1. turns[n] \in TurnRecords  OBVIOUS
<1> DEFINE r == [turns[n] EXCEPT !.at = v]
<1>2. /\ r \in TurnRecords /\ r.conv = turns[n].conv /\ r.agent = turns[n].agent
      /\ r.kind = turns[n].kind /\ r.named = turns[n].named /\ r.session = turns[n].session
      /\ r.resumes = turns[n].resumes /\ r.at = v
  BY <1>1 DEF TurnRecords
<1>3. turns' = [turns EXCEPT ![n] = r]  OBVIOUS
<1> HIDE DEF r
<1>4. /\ turns' \in Seq(TurnRecords) /\ DOMAIN turns' = DOMAIN turns
      /\ \A m \in DOMAIN turns : turns'[m] = IF m = n THEN r ELSE turns[m]
  BY <1>2, <1>3
<1> QED  BY <1>2, <1>4 DEF Moved

\* The row that an answer updates.
LEMMA UpdatedIs ==
  ASSUME Types, NEW i \in DOMAIN convs, NEW s \in SessionIds \cup {NoSession}, NEW cost \in Nat
  PROVE  /\ Updated(i, s, cost) \in Seq(Rows) /\ DOMAIN Updated(i, s, cost) = DOMAIN convs
         /\ \A j \in DOMAIN convs :
              /\ Updated(i, s, cost)[j].uid = convs[j].uid
              /\ Updated(i, s, cost)[j].status = convs[j].status
              /\ Updated(i, s, cost)[j].session =
                   IF j = i /\ s # NoSession THEN s ELSE convs[j].session
<1> DEFINE r == [convs[i] EXCEPT !.last = now, !.cost = @ + cost,
                                 !.session = IF s = NoSession THEN @ ELSE s]
<1>1. convs \in Seq(Rows) /\ convs[i] \in Rows /\ now \in Nat  BY DEF Types
<1>2. /\ r \in Rows /\ r.uid = convs[i].uid /\ r.status = convs[i].status
      /\ r.session = IF s # NoSession THEN s ELSE convs[i].session
  <2> DEFINE c == convs[i].cost + cost
             q == IF s = NoSession THEN convs[i].session ELSE s
  <2>1. r = [convs[i] EXCEPT !.last = now, !.cost = c, !.session = q]  OBVIOUS
  <2>2. c \in Nat /\ q \in SessionIds /\ now \in Int  BY <1>1 DEF Rows
  <2>3. q = IF s # NoSession THEN s ELSE convs[i].session  OBVIOUS
  <2> HIDE DEF r, c, q
  <2>4. r \in Rows /\ r.uid = convs[i].uid /\ r.status = convs[i].status /\ r.session = q
    BY <1>1, <2>1, <2>2 DEF Rows
  <2> QED  BY <2>3, <2>4
<1>3. Updated(i, s, cost) = [convs EXCEPT ![i] = r]  BY <1>1 DEF Updated
<1> HIDE DEF r
<1>4. /\ Updated(i, s, cost) \in Seq(Rows) /\ DOMAIN Updated(i, s, cost) = DOMAIN convs
      /\ \A j \in DOMAIN convs : Updated(i, s, cost)[j] = IF j = i THEN r ELSE convs[j]
  BY <1>1, <1>2, <1>3
<1> QED  BY <1>2, <1>4

\* The sessions an answer may come with.
Reports(n, s) ==
  \/ s = NoSession
  \/ s = <<"claude", n>>
  \/ turns[n].resumes /\ s = turns[n].session
  \/ turns[n].kind # "alone" /\ s \in {"sdk"} \X (Agents \cup {Nobody})

\* The session that is written to a row is one that Claude gave that row.
LEMMA PointerIsGiven ==
  ASSUME IInv, NEW n \in DOMAIN turns, NEW s, Reports(n, s), Pointer(n, s) # NoSession
  PROVE  Pointer(n, s) \in SessionIds /\ Given(Pointer(n, s), turns[n].conv, turns)
<1>1. /\ Pointer(n, s) = s /\ (turns[n].kind = "alone" \/ s = turns[n].session)
  BY DEF Pointer
<1>2. turns[n].session \notin {"sdk"} \X (Agents \cup {Nobody})  BY DEF IInv, Resumed
<1>3. s = <<"claude", n>> \/ (turns[n].resumes /\ s = turns[n].session)
  BY <1>1, <1>2 DEF Reports
<1>4. Given(s, turns[n].conv, turns)  BY <1>3 DEF Given, IInv, Resumed
<1>5. s \in SessionIds
  <2>1. DOMAIN turns \subseteq Nat  BY DEF IInv, Types
  <2> QED  BY <1>4, <2>1, SessionKinds DEF Given
<1> QED  BY <1>1, <1>4, <1>5

\* The unique index refuses no answer.
LEMMA NoClash ==
  ASSUME IInv, NEW n \in DOMAIN turns, NEW s, Reports(n, s)
  PROVE  ~Clashes(turns[n].conv, Pointer(n, s))
<1> SUFFICES ASSUME NEW j \in DOMAIN convs, Pointer(n, s) # NoSession,
                    convs[j].session = Pointer(n, s)
             PROVE  j = turns[n].conv
  BY DEF Clashes, WithSession
<1>1. DOMAIN turns \subseteq Nat /\ DOMAIN convs \subseteq Nat  BY DEF IInv, Types
<1>2. turns[n].conv \in Nat  BY <1>1 DEF IInv, Resumed
<1>3. Given(convs[j].session, turns[n].conv, turns)  BY PointerIsGiven
<1> QED  BY <1>1, <1>2, <1>3, GivenIsOwn DEF IInv

\* An answer, or an error, reaches its row and its turn.
LEMMA Settled ==
  ASSUME IInv, NEW n \in DOMAIN turns, NEW s, Reports(n, s), NEW cost \in Nat,
         Settle(n, s, cost), Confirmed', UNCHANGED <<now, fence>>
  PROVE  IInv'
<1> DEFINE i == turns[n].conv
           p == Pointer(n, s)
           v == IF s = NoSession THEN "failed" ELSE IF Announced(n, s) THEN "told" ELSE Recorded(n)
<1>0. Types /\ Owned(convs, turns) /\ Resumed  BY DEF IInv
<1>1. convs' = Updated(i, p, cost) /\ turns' = [turns EXCEPT ![n].at = v]
  BY NoClash DEF Settle
<1>2. v \in {"asked", "told", "over", "due", "again", "failed", "lost"}  BY DEF Recorded
<1>3. i \in DOMAIN convs  BY <1>0 DEF Resumed
<1>4. p = NoSession \/ (p \in SessionIds /\ Given(p, i, turns))  BY PointerIsGiven
<1>5. ~Clashes(i, p)  BY NoClash
<1> HIDE DEF i, p, v
<1>6. Moved(turns, turns')
  <2>1. turns \in Seq(TurnRecords)  BY <1>0 DEF Types
  <2> QED  BY <1>1, <1>2, <2>1, TurnMoved
<1>7. /\ convs' \in Seq(Rows) /\ DOMAIN convs' = DOMAIN convs
      /\ \A j \in DOMAIN convs :
           /\ convs'[j].uid = convs[j].uid /\ convs'[j].status = convs[j].status
           /\ convs'[j].session = IF j = i /\ p # NoSession THEN p ELSE convs[j].session
  <2>1. p \in SessionIds \cup {NoSession}  BY <1>4
  <2> QED  BY <1>0, <1>1, <1>3, <2>1, UpdatedIs
<1>8. Narrowed(convs, convs')  BY <1>7 DEF Narrowed
<1>9. Owned(convs', turns')
  <2>1. \A j \in DOMAIN convs : j # i /\ p # NoSession => convs[j].session # p
    BY <1>5 DEF Clashes, WithSession
  <2>2. Owned(convs', turns)
    BY <1>0, <1>3, <1>4, <1>7, <2>1 DEF Owned
  <2> QED  BY <2>2, <1>6, GivenKept DEF Moved
<1> QED  BY <1>6, <1>8, <1>9, Follow

-----------------------------------------------------------------------------
(***************************************************************************)
(* The invariant.                                                          *)
(***************************************************************************)

\* There are no rows and no turns at first.
LEMMA Starts == Init => IInv
<1> SUFFICES ASSUME Init PROVE IInv  OBVIOUS
<1>1. Types  BY ConversationsAssumption DEF Init, Types
<1>2. DOMAIN convs = {} /\ DOMAIN turns = {} /\ confirmed = {}  BY DEF Init
<1> QED  BY <1>1, <1>2 DEF IInv, Single, Owned, Resumed, Confirmed, Chats

\* The user ids the code makes up.
LEMMA UserIdsAre ==
  /\ \A u \in Users : <<u>> \in UserIds
  /\ \A u \in Users, a \in Agents : <<u, a>> \in UserIds
  /\ \A u \in Users, a \in Agents, t \in Tasks : <<u, "spawn", t, a>> \in UserIds
  /\ \A f \in Agents : <<"agent", f>> \in UserIds
  /\ \A f \in Agents, a \in Agents : <<"agent", f, a>> \in UserIds
  /\ \A a \in Agents : <<"scheduler", a>> \in UserIds
BY DEF UserIds

\* A turn begins, whoever asks.
LEMMA Asked ==
  ASSUME IInv,
         \/ \E u \in Users, a \in Agents : Ask(u, a) \/ \E t \in Tasks : Spawn(u, a, t)
         \/ \E f, a \in Agents : Delegate(f, a)
         \/ \E u \in Users : AskAlone(u)
         \/ \E a \in Agents : Beat(a)
  PROVE  IInv'
<1>0. /\ convs \in Seq(Rows) /\ Single(convs) /\ Owned(convs, turns)
      /\ now \in Nat /\ fence \in [Users -> Nat]
      /\ DOMAIN turns \subseteq Nat
  BY DEF IInv, Types
<1>1. ASSUME NEW u \in Users, NEW a \in Agents, Ask(u, a) PROVE IInv'
  <2>1. PICK s \in NamedSessions : Begin(convs, <<u, a>>, s, fence[u], a, "chat")
    BY <1>1 DEF Ask
  <2>2. UNCHANGED <<confirmed, now, fence>>  BY <1>1 DEF Ask
  <2>3. Askable(convs, s)  BY DEF NamedSessions, Askable
  <2>4. fence[u] \in Nat /\ <<u, a>> \in UserIds  BY <1>0, UserIdsAre
  <2> QED  BY <1>0, <2>1, <2>2, <2>3, <2>4, Begun
<1>2. ASSUME NEW u \in Users, NEW a \in Agents, NEW t \in Tasks, Spawn(u, a, t) PROVE IInv'
  <2>1. /\ Begin(convs, <<u, "spawn", t, a>>, NoSession, 0, a, "spawn")
        /\ UNCHANGED <<confirmed, now, fence>>
    BY <1>2 DEF Spawn
  <2>2. Askable(convs, NoSession) /\ <<u, "spawn", t, a>> \in UserIds
    BY UserIdsAre DEF Askable
  <2> QED  BY <1>0, <2>1, <2>2, Begun
<1>3. ASSUME NEW f \in Agents, NEW a \in Agents, Delegate(f, a) PROVE IInv'
  <2> DEFINE T == GetOrCreate(convs, <<"agent", f>>, NoSession)
  <2>1. /\ Begin(T, <<"agent", f, a>>, NoSession, 0, a, "chat")
        /\ UNCHANGED <<confirmed, now, fence>>
    BY <1>3 DEF Delegate
  <2>2. /\ Askable(convs, NoSession) /\ Askable(T, NoSession)
        /\ <<"agent", f>> \in UserIds /\ <<"agent", f, a>> \in UserIds
    BY UserIdsAre DEF Askable
  <2>3. /\ T \in Seq(Rows) /\ Single(T) /\ Owned(T, turns)
        /\ DOMAIN convs \subseteq DOMAIN T /\ \A j \in DOMAIN convs : T[j] = convs[j]
    <3> DEFINE v == <<"agent", f>>
    <3>1. v \in UserIds /\ Askable(convs, NoSession) /\ T = GetOrCreate(convs, v, NoSession)
      BY <2>2
    <3> HIDE DEF v, T
    <3> QED  BY <1>0, <3>1, Kept
  <2> HIDE DEF T
  <2> QED  BY <2>1, <2>2, <2>3, Begun
<1>4. ASSUME NEW u \in Users, AskAlone(u) PROVE IInv'
  <2>1. /\ Begin(convs, <<u>>, NoSession, fence[u], Nobody, "alone")
        /\ UNCHANGED <<confirmed, now, fence>>
    BY <1>4 DEF AskAlone
  <2>2. fence[u] \in Nat /\ <<u>> \in UserIds /\ Askable(convs, NoSession)
    BY <1>0, UserIdsAre DEF Askable
  <2> QED  BY <1>0, <2>1, <2>2, Begun
<1>5. ASSUME NEW a \in Agents, Beat(a) PROVE IInv'
  <2>1. /\ Begin(convs, <<"scheduler", a>>, NoSession, 0, a, "beat")
        /\ UNCHANGED <<confirmed, now, fence>>
    BY <1>5 DEF Beat
  <2>2. Askable(convs, NoSession) /\ <<"scheduler", a>> \in UserIds
    BY UserIdsAre DEF Askable
  <2> QED  BY <1>0, <2>1, <2>2, Begun
<1> QED  BY <1>1, <1>2, <1>3, <1>4, <1>5

\* A turn ends in one way or the other.
LEMMA Ended ==
  ASSUME IInv, NEW n \in DOMAIN turns,
         \/ \E b \in Backends : Answer(n, b)
         \/ AnswerFails(n) \/ Measure(n) \/ BeatReturns(n) \/ Abandon(n)
  PROVE  IInv'
<1>0. Types /\ Single(convs) /\ Owned(convs, turns) /\ Resumed /\ Confirmed /\ Chats
  BY DEF IInv
<1>1. turns \in Seq(TurnRecords) /\ convs \in Seq(Rows)  BY <1>0 DEF Types
<1>2. ASSUME NEW b \in Backends, Answer(n, b) PROVE IInv'
  <2> DEFINE s == Reported(n, b)
  <2>1. /\ Settle(n, s, 1) /\ confirmed' = confirmed \cup {s} /\ UNCHANGED <<now, fence>>
        /\ turns[n].agent = Nobody => b = "cli"
    BY <1>2 DEF Answer
  <2>3. turns[n].agent \in Agents \cup {Nobody}
    <3>1. turns[n] \in TurnRecords  BY <1>1
    <3> QED  BY <3>1 DEF TurnRecords
  <2>4. Reports(n, s)
    BY <1>0, <2>1, <2>3 DEF Resumed, Reported, Reports
  <2>5. \/ \E k \in DOMAIN turns : s = <<"claude", k>>
        \/ s \in {"sdk"} \X (Agents \cup {Nobody})
    BY <1>0, <2>3 DEF Reported, Resumed, Given
  <2>6. DOMAIN turns' = DOMAIN turns  BY <1>1, <2>1 DEF Settle
  <2> HIDE DEF s
  <2>7. Confirmed'  BY <1>0, <2>1, <2>5, <2>6 DEF Confirmed
  <2> QED  BY <2>1, <2>4, <2>7, Settled
<1>3. CASE AnswerFails(n)
  <2>1. Settle(n, NoSession, 0) /\ UNCHANGED <<confirmed, now, fence>>
    BY <1>3 DEF AnswerFails
  <2>2. DOMAIN turns' = DOMAIN turns  BY <1>1, <2>1 DEF Settle
  <2>3. Confirmed'  BY <1>0, <2>1, <2>2 DEF Confirmed
  <2> QED  BY <2>1, <2>3, Settled DEF Reports
<1>4. CASE Measure(n) \/ BeatReturns(n) \/ Abandon(n)
  <2>1. /\ \E v \in {"over", "due", "again", "lost"} : turns' = [turns EXCEPT ![n].at = v]
        /\ UNCHANGED <<convs, confirmed, now, fence>>
    BY <1>4 DEF Measure, BeatReturns, Abandon, Recorded
  <2>2. Moved(turns, turns')  BY <1>1, <2>1, TurnMoved
  <2>3. Narrowed(convs, convs')  BY <1>1, <2>1 DEF Narrowed
  <2>4. Owned(convs', turns')  BY <1>0, <2>1, <2>2, GivenKept DEF Moved
  <2>5. Confirmed'  BY <1>0, <2>1, <2>2 DEF Confirmed, Moved
  <2> QED  BY <2>1, <2>2, <2>3, <2>4, <2>5, Follow
<1> QED  BY <1>2, <1>3, <1>4

\* What archiving does to the table.
LEMMA ArchivedIs ==
  ASSUME convs \in Seq(Rows), NEW R
  PROVE  /\ Archived(R) \in Seq(Rows) /\ Narrowed(convs, Archived(R))
         /\ \A i \in DOMAIN convs :
              /\ Archived(R)[i].session = convs[i].session
              /\ Archived(R)[i].cost = convs[i].cost
              /\ convs[i].status = "active" =>
                   Archived(R)[i].status = IF i \in R THEN "archived" ELSE "active"
<1>1. DOMAIN convs = 1..Len(convs) /\ Len(convs) \in Nat  OBVIOUS
<1>2. ASSUME NEW i \in DOMAIN convs
      PROVE  /\ Archived(R)[i] \in Rows
             /\ Archived(R)[i].session = convs[i].session /\ Archived(R)[i].uid = convs[i].uid
             /\ Archived(R)[i].cost = convs[i].cost
             /\ Archived(R)[i].status = "active" => convs[i].status = "active"
             /\ convs[i].status = "active" =>
                  Archived(R)[i].status = IF i \in R THEN "archived" ELSE "active"
  <2>1. convs[i] \in Rows  OBVIOUS
  <2> DEFINE r == [convs[i] EXCEPT !.status = "archived"]
  <2>2. /\ r \in Rows /\ r.session = convs[i].session /\ r.uid = convs[i].uid
        /\ r.status = "archived"
        /\ r.cost = convs[i].cost
    BY <2>1 DEF Rows
  <2>3. Archived(R)[i] = IF convs[i].status = "active" /\ i \in R THEN r ELSE convs[i]
    BY DEF Archived
  <2> HIDE DEF r
  <2> QED  BY <2>1, <2>2, <2>3
<1>3. DOMAIN Archived(R) = DOMAIN convs  BY DEF Archived
<1>4. Archived(R) \in Seq(Rows)
  <2>1. Archived(R) \in [1..Len(convs) -> Rows]  BY <1>1, <1>2, <1>3 DEF Archived
  <2> QED  BY <1>1, <2>1
<1> QED  BY <1>2, <1>3, <1>4 DEF Narrowed

\* The commands and the clock.
LEMMA Commanded ==
  ASSUME IInv, (\E u \in Users : Forget(u) \/ Peek(u)) \/ Cleanup \/ Hour
  PROVE  IInv'
<1>0. Types /\ Single(convs) /\ Owned(convs, turns) /\ Resumed /\ Confirmed /\ Chats
  BY DEF IInv
<1>1. /\ turns \in Seq(TurnRecords) /\ convs \in Seq(Rows) /\ now \in Nat
      /\ fence \in [Users -> Nat] /\ DOMAIN turns \subseteq Nat
  BY <1>0 DEF Types
<1>2. UNCHANGED <<turns, confirmed>>  BY DEF Forget, Peek, Cleanup, Hour
<1>3. ASSUME Narrowed(convs, convs'), now' \in Nat, fence' \in [Users -> Nat],
             \A i \in DOMAIN convs : convs'[i].session = convs[i].session
      PROVE  IInv'
  <2>1. Types'  BY <1>1, <1>2, <1>3 DEF Types, Narrowed
  <2>2. Single(convs')  BY <1>0, <1>3 DEF Single, Narrowed
  <2>3. Owned(convs', turns')  BY <1>0, <1>2, <1>3 DEF Owned, Narrowed
  <2>4. Resumed'  BY <1>0, <1>2, <1>3 DEF Resumed, Narrowed
  <2>5. Confirmed'  BY <1>0, <1>2 DEF Confirmed
  <2>6. Chats'
    <3>1. \A n \in DOMAIN turns : convs'[turns[n].conv].uid = convs[turns[n].conv].uid
      BY <1>0, <1>3 DEF Resumed, Narrowed
    <3> QED  BY <1>0, <1>2, <3>1 DEF Chats
  <2> QED  BY <2>1, <2>2, <2>3, <2>4, <2>5, <2>6 DEF IInv
<1>4. ASSUME NEW u \in Users, Forget(u) PROVE IInv'
  <2>1. PICK R : convs' = Archived(R)  BY <1>4 DEF Forget
  <2>2. now' \in Nat /\ fence' \in [Users -> Nat]  BY <1>1, <1>4 DEF Forget
  <2> QED  BY <1>1, <1>3, <2>1, <2>2, ArchivedIs
<1>5. ASSUME NEW u \in Users, Peek(u) PROVE IInv'
  <2>1. convs' = GetOrCreate(convs, <<u>>, NoSession) /\ UNCHANGED <<now, fence>>
    BY <1>5 DEF Peek
  <2>2. Askable(convs, NoSession) /\ <<u>> \in UserIds  BY UserIdsAre DEF Askable
  <2>3. /\ convs' \in Seq(Rows) /\ Single(convs') /\ Owned(convs', turns)
        /\ DOMAIN convs \subseteq DOMAIN convs' /\ \A j \in DOMAIN convs : convs'[j] = convs[j]
    BY <1>0, <1>1, <2>1, <2>2, Kept
  <2>4. Types'  BY <1>1, <1>2, <2>1, <2>3 DEF Types
  <2>5. Resumed'  BY <1>0, <1>2, <2>3 DEF Resumed
  <2>6. Confirmed'  BY <1>0, <1>2 DEF Confirmed
  <2>7. Chats'
    <3>1. \A n \in DOMAIN turns : convs'[turns[n].conv] = convs[turns[n].conv]
      BY <1>0, <2>3 DEF Resumed
    <3> QED  BY <1>0, <1>2, <3>1 DEF Chats
  <2> QED  BY <1>2, <2>3, <2>4, <2>5, <2>6, <2>7 DEF IInv
<1>6. CASE Cleanup
  <2>1. PICK R : convs' = Archived(R)  BY <1>6 DEF Cleanup
  <2>2. now' \in Nat /\ fence' \in [Users -> Nat]  BY <1>1, <1>6 DEF Cleanup
  <2> QED  BY <1>1, <1>3, <2>1, <2>2, ArchivedIs
<1>7. CASE Hour
  <2>1. convs' = convs /\ now' \in Nat /\ fence' \in [Users -> Nat]  BY <1>1, <1>7 DEF Hour
  <2>2. Narrowed(convs, convs')  BY <1>1, <2>1 DEF Narrowed
  <2> QED  BY <1>3, <2>1, <2>2
<1> QED  BY <1>4, <1>5, <1>6, <1>7

\* The process dies: what its turns would still have done is lost.
LEMMA Crashed == ASSUME IInv, Crash PROVE IInv'
<1>0. Types /\ Single(convs) /\ Owned(convs, turns) /\ Resumed /\ Confirmed /\ Chats
  BY DEF IInv
<1>1. turns \in Seq(TurnRecords) /\ convs \in Seq(Rows)  BY <1>0 DEF Types
<1>2. DOMAIN turns = 1..Len(turns) /\ Len(turns) \in Nat  BY <1>1
<1>3. /\ DOMAIN turns' = DOMAIN turns
      /\ UNCHANGED <<convs, now, fence>> /\ confirmed' = {}
  BY DEF Crash
<1>4. ASSUME NEW n \in DOMAIN turns
      PROVE  /\ turns'[n] \in TurnRecords
             /\ turns'[n].conv = turns[n].conv /\ turns'[n].agent = turns[n].agent
             /\ turns'[n].kind = turns[n].kind /\ turns'[n].named = turns[n].named
             /\ turns'[n].session = turns[n].session /\ turns'[n].resumes = turns[n].resumes
             /\ turns'[n].at = "raised" => turns[n].at = "raised"
  <2> DEFINE r == [turns[n] EXCEPT !.at = "lost"]
  <2>1. turns[n] \in TurnRecords  BY <1>1
  <2>2. /\ r \in TurnRecords /\ r.conv = turns[n].conv /\ r.agent = turns[n].agent
        /\ r.kind = turns[n].kind /\ r.named = turns[n].named /\ r.session = turns[n].session
        /\ r.resumes = turns[n].resumes /\ r.at = "lost"
    BY <2>1 DEF TurnRecords
  <2> DEFINE q == [turns[n] EXCEPT !.at = "over"]
  <2>3. /\ q \in TurnRecords /\ q.conv = turns[n].conv /\ q.agent = turns[n].agent
        /\ q.kind = turns[n].kind /\ q.named = turns[n].named /\ q.session = turns[n].session
        /\ q.resumes = turns[n].resumes /\ q.at = "over"
    BY <2>1 DEF TurnRecords
  <2>4. turns'[n] = r \/ turns'[n] = q \/ turns'[n] = turns[n]  BY DEF Crash
  <2> HIDE DEF r, q
  <2> QED  BY <2>1, <2>2, <2>3, <2>4
<1>5. turns' \in Seq(TurnRecords)
  <2>1. turns' \in [1..Len(turns) -> TurnRecords]  BY <1>2, <1>3, <1>4 DEF Crash
  <2> QED  BY <1>2, <2>1
<1>6. Moved(turns, turns')  BY <1>3, <1>4, <1>5 DEF Moved
<1>7. Narrowed(convs, convs')  BY <1>1, <1>3 DEF Narrowed
<1>8. Owned(convs', turns')  BY <1>0, <1>3, <1>6, GivenKept DEF Moved
<1>9. Confirmed'  BY <1>3 DEF Confirmed
<1> QED  BY <1>3, <1>6, <1>7, <1>8, <1>9, Follow

\* The invariant is inductive.
LEMMA Inductive == IInv /\ [Next]_vars => IInv'
<1> SUFFICES ASSUME IInv, [Next]_vars PROVE IInv'  OBVIOUS
<1>1. CASE \/ \E u \in Users, a \in Agents : Ask(u, a) \/ \E t \in Tasks : Spawn(u, a, t)
           \/ \E f, a \in Agents : Delegate(f, a)
           \/ \E u \in Users : AskAlone(u)
           \/ \E a \in Agents : Beat(a)
  BY <1>1, Asked
<1>2. CASE \E n \in DOMAIN turns : \/ \E b \in Backends : Answer(n, b)
                                   \/ AnswerFails(n) \/ Measure(n) \/ BeatReturns(n)
                                   \/ Abandon(n)
  BY <1>2, Ended
<1>3. CASE (\E u \in Users : Forget(u) \/ Peek(u)) \/ Cleanup \/ Hour
  BY <1>3, Commanded
<1>4. CASE Crash  BY <1>4, Crashed
<1>5. CASE UNCHANGED vars
  BY <1>5 DEF vars, IInv, Types, Single, Owned, Resumed, Confirmed, Chats, Given
<1> QED  BY <1>1, <1>2, <1>3, <1>4, <1>5 DEF Next

\* Every part holds in every reachable state.
LEMMA Invariance == Spec => []IInv
BY Starts, Inductive, PTL DEF Spec

-----------------------------------------------------------------------------
(***************************************************************************)
(* Sums.  The induction theorems of the libraries take an operator, which  *)
(* no prover can instantiate: those here take the set of what a formula    *)
(* holds of.                                                               *)
(***************************************************************************)

\* What holds of a finite set whenever it holds of all its smaller ones holds of
\* every subset.
LEMMA BySubsets ==
  ASSUME NEW U, IsFiniteSet(U), NEW G,
         \A S \in SUBSET U : (\A x \in S : S \ {x} \in G) => S \in G
  PROVE  SUBSET U \subseteq G
<1> DEFINE R == StrictSubsetOrdering(U)
           Bad == {S \in FiniteSubsetsOf(U) : S \notin G}
<1>1. FiniteSubsetsOf(U) = SUBSET U  BY FS_Subset DEF FiniteSubsetsOf
<1>2. IsWellFoundedOn(R, FiniteSubsetsOf(U))  BY FS_StrictSubsetOrderingWellFounded
<1>3. ASSUME Bad # {} PROVE FALSE
  <2>1. \E S \in Bad : \A T \in Bad : ~(<<T, S>> \in R)
    <3>1. Bad \subseteq FiniteSubsetsOf(U)  OBVIOUS
    <3> HIDE DEF R, Bad
    <3> QED  BY <1>2, <1>3, <3>1, WFMin
  <2>2. PICK S \in Bad : \A T \in Bad : <<T, S>> \notin R  BY <2>1
  <2>3. \A x \in S : S \ {x} \in G
    <3> SUFFICES ASSUME NEW x \in S, S \ {x} \notin G PROVE FALSE  OBVIOUS
    <3>1. S \ {x} \in Bad  BY <1>1
    <3>2. <<S \ {x}, S>> \in R  BY <1>1 DEF StrictSubsetOrdering
    <3> QED  BY <2>2, <3>1, <3>2
  <2> QED  BY <1>1, <2>3
<1> QED  BY <1>1, <1>3

\* The element that a fold takes out first.
Chosen(S) == CHOOSE x \in S : TRUE

\* Induction over the natural numbers, for a set.
LEMMA ByNumbers ==
  ASSUME NEW G, 0 \in G, \A n \in Nat : n \in G => n + 1 \in G
  PROVE  Nat \subseteq G
<1> DEFINE R == OpToRel(<, Nat)
           Bad == Nat \ G
<1>1. ASSUME Bad # {} PROVE FALSE
  <2>1. \E n \in Bad : \A m \in Bad : ~(<<m, n>> \in R)
    <3>1. IsWellFoundedOn(R, Nat)  BY NatLessThanWellFounded
    <3>2. Bad \subseteq Nat  OBVIOUS
    <3> HIDE DEF R, Bad
    <3> QED  BY <1>1, <3>1, <3>2, WFMin
  <2>2. PICK n \in Bad : \A m \in Bad : <<m, n>> \notin R  BY <2>1
  <2>3. n # 0 /\ n \in Nat /\ n - 1 \in Nat /\ n - 1 < n /\ (n - 1) + 1 = n  OBVIOUS
  <2>4. <<n - 1, n>> \in R
    <3> DEFINE m == n - 1
    <3>1. m \in Nat /\ n \in Nat /\ m < n  BY <2>3
    <3> HIDE DEF m
    <3>2. <<m, n>> \in R  BY <3>1 DEF OpToRel
    <3> QED  BY <3>2 DEF m
  <2>5. n - 1 \in G  BY <2>2, <2>3, <2>4
  <2> QED  BY <2>3, <2>5
<1> QED  BY <1>1

\* A function with the sum over each subset, by the equation of the fold.
Sums(f, S, h) ==
  h = [s \in SUBSET S |-> IF s = {} THEN 0 ELSE f[Chosen(s)] + h[s \ {Chosen(s)}]]

\* There is such a function, built up by the size of the sets.
LEMMA SumsExist ==
  ASSUME NEW S, IsFiniteSet(S), NEW f
  PROVE  \E h : Sums(f, S, h)
<1> DEFINE D(n) == {s \in SUBSET S : Cardinality(s) <= n}
           Step(h, s) == IF s = {} THEN 0 ELSE f[Chosen(s)] + h[s \ {Chosen(s)}]
           G == {n \in Nat : \E h : h = [s \in D(n) |-> Step(h, s)]}
<1>1. \A s \in SUBSET S : /\ Cardinality(s) \in Nat /\ Cardinality(s) <= Cardinality(S)
                          /\ Cardinality(s) = 0 <=> s = {}
  BY FS_Subset, FS_CardinalityType, FS_EmptySet
<1>2. \A s \in SUBSET S : s # {} =>
        /\ Chosen(s) \in s /\ s \ {Chosen(s)} \in SUBSET S
        /\ Cardinality(s \ {Chosen(s)}) = Cardinality(s) - 1
  <2> SUFFICES ASSUME NEW s \in SUBSET S, s # {}
               PROVE  /\ Chosen(s) \in s /\ s \ {Chosen(s)} \in SUBSET S
                      /\ Cardinality(s \ {Chosen(s)}) = Cardinality(s) - 1
    OBVIOUS
  <2>1. Chosen(s) \in s  BY DEF Chosen
  <2>2. IsFiniteSet(s)  BY FS_Subset
  <2> QED  BY <2>1, <2>2, FS_RemoveElement
<1>3. 0 \in G
  <2> DEFINE h == [s \in D(0) |-> 0]
  <2>1. \A s \in D(0) : s = {}  BY <1>1
  <2>2. h = [s \in D(0) |-> Step(h, s)]  BY <2>1
  <2> QED  BY <2>2
<1>4. ASSUME NEW n \in Nat, n \in G PROVE n + 1 \in G
  <2>1. PICK h : h = [s \in D(n) |-> Step(h, s)]  BY <1>4
  <2> DEFINE k == [s \in D(n + 1) |-> IF s \in D(n) THEN h[s] ELSE Step(h, s)]
  <2>2. ASSUME NEW s \in D(n + 1) PROVE k[s] = Step(k, s)
    <3>1. CASE s = {}
      <4>1. s \in D(n)  BY <1>1, <3>1
      <4>2. h[s] = Step(h, s)  BY <2>1, <4>1
      <4> QED  BY <3>1, <4>1, <4>2
    <3>2. CASE s # {}
      <4> DEFINE t == s \ {Chosen(s)}
      <4>1. t \in D(n) /\ t \in D(n + 1)  BY <1>1, <1>2, <3>2
      <4>2. k[t] = h[t]  BY <4>1
      <4>3. CASE s \in D(n)
        <5>1. h[s] = Step(h, s)  BY <2>1, <4>3
        <5>2. k[s] = h[s]  BY <4>3
        <5> QED  BY <3>2, <4>2, <5>1, <5>2
      <4>4. CASE s \notin D(n)
        <5>1. k[s] = Step(h, s)  BY <4>4
        <5> QED  BY <3>2, <4>2, <5>1
      <4> QED  BY <4>3, <4>4
    <3> QED  BY <3>1, <3>2
  <2>3. k = [s \in D(n + 1) |-> Step(k, s)]
    <3>1. k = [s \in D(n + 1) |-> k[s]]  OBVIOUS
    <3> HIDE DEF k
    <3> QED  BY <2>2, <3>1
  <2>4. \E g : g = [s \in D(n + 1) |-> Step(g, s)]
    <3> HIDE DEF k, D, Step
    <3> QED  BY <2>3
  <2>5. n + 1 \in Nat  OBVIOUS
  <2> HIDE DEF k, D, Step
  <2> QED  BY <2>4, <2>5
<1>5. Cardinality(S) \in G
  <2> HIDE DEF G
  <2> QED  BY <1>1, <1>3, <1>4, ByNumbers
<1>6. D(Cardinality(S)) = SUBSET S  BY <1>1
<1> QED  BY <1>5, <1>6 DEF Sums

\* The fold of the library is such a function, at the whole set.
LEMMA SumIs ==
  ASSUME NEW S, NEW f
  PROVE  SumFunctionOnSet(f, S) = (CHOOSE h : Sums(f, S, h))[S]
BY DEF SumFunctionOnSet, FoldFunctionOnSet, MapThenFoldSet, Sums, Chosen

\* The fold of the library takes the sum apart at the element it chooses.
LEMMA SumUnfolds ==
  ASSUME NEW S, IsFiniteSet(S), NEW f
  PROVE  SumFunctionOnSet(f, S) =
           IF S = {} THEN 0 ELSE f[Chosen(S)] + SumFunctionOnSet(f, S \ {Chosen(S)})
<1> DEFINE H(T) == CHOOSE h : Sums(f, T, h)
<1>1. \A T \in SUBSET S : Sums(f, T, H(T))
  <2> SUFFICES ASSUME NEW T \in SUBSET S PROVE Sums(f, T, H(T))  OBVIOUS
  <2>1. IsFiniteSet(T)  BY FS_Subset
  <2>2. \E h : Sums(f, T, h)  BY <2>1, SumsExist
  <2> QED  BY <2>2
<1>2. \A T \in SUBSET S : SumFunctionOnSet(f, T) = H(T)[T]  BY SumIs
<1> HIDE DEF H
<1>3. CASE S = {}
  <2>1. H(S)[S] = 0  BY <1>1, <1>3 DEF Sums
  <2> QED  BY <1>2, <1>3, <2>1
<1>4. CASE S # {}
  <2> DEFINE c == Chosen(S)
             T == S \ {c}
             h == H(S)
             g == H(T)
             G == {s \in SUBSET S : s \in SUBSET T => h[s] = g[s]}
  <2>1. c \in S /\ \A s \in SUBSET S : s # {} => Chosen(s) \in s  BY <1>4 DEF Chosen
  <2>2. /\ \A s \in SUBSET S : h[s] = IF s = {} THEN 0 ELSE f[Chosen(s)] + h[s \ {Chosen(s)}]
        /\ \A s \in SUBSET T : g[s] = IF s = {} THEN 0 ELSE f[Chosen(s)] + g[s \ {Chosen(s)}]
    BY <1>1 DEF Sums
  <2>3. SUBSET S \subseteq G
    <3>1. \A s \in SUBSET S : (\A x \in s : s \ {x} \in G) => s \in G
      <4> SUFFICES ASSUME NEW s \in SUBSET S, \A x \in s : s \ {x} \in G, s \in SUBSET T
                   PROVE  h[s] = g[s]
        OBVIOUS
      <4> HIDE DEF h, g, c
      <4>1. CASE s = {}  BY <2>2, <4>1
      <4>2. CASE s # {}
        <5>1. Chosen(s) \in s /\ s \ {Chosen(s)} \in SUBSET T  BY <2>1, <4>2
        <5>2. h[s \ {Chosen(s)}] = g[s \ {Chosen(s)}]  BY <5>1
        <5> QED  BY <2>2, <4>2, <5>2
      <4> QED  BY <4>1, <4>2
    <3> HIDE DEF G
    <3> QED  BY <3>1, BySubsets
  <2>4. h[T] = g[T]  BY <2>3
  <2>5. h[S] = f[c] + h[T]  BY <1>4, <2>2
  <2> QED  BY <1>2, <1>4, <2>4, <2>5
<1> QED  BY <1>3, <1>4

\* A sum of natural numbers is one.
LEMMA SumIsNat ==
  ASSUME NEW U, IsFiniteSet(U), NEW f, \A x \in U : f[x] \in Nat, NEW S \in SUBSET U
  PROVE  SumFunctionOnSet(f, S) \in Nat
<1> DEFINE G == {T \in SUBSET U : SumFunctionOnSet(f, T) \in Nat}
<1>1. ASSUME NEW T \in SUBSET U, \A x \in T : T \ {x} \in G PROVE T \in G
  <2>1. IsFiniteSet(T) /\ (T # {} => Chosen(T) \in T)  BY FS_Subset DEF Chosen
  <2>2. SumFunctionOnSet(f, T) =
           IF T = {} THEN 0 ELSE f[Chosen(T)] + SumFunctionOnSet(f, T \ {Chosen(T)})
    BY <2>1, SumUnfolds
  <2> QED  BY <1>1, <2>1, <2>2
<1>2. SUBSET U \subseteq G
  <2> HIDE DEF G
  <2> QED  BY <1>1, BySubsets
<1> QED  BY <1>2

\* The sum is the same whichever element is taken out first.
LEMMA SumTakesOut ==
  ASSUME NEW U, IsFiniteSet(U), NEW f, \A x \in U : f[x] \in Nat, NEW S \in SUBSET U, NEW y \in S
  PROVE  SumFunctionOnSet(f, S) = f[y] + SumFunctionOnSet(f, S \ {y})
<1> DEFINE Sum(T) == SumFunctionOnSet(f, T)
           G == {T \in SUBSET U : \A x \in T : Sum(T) = f[x] + Sum(T \ {x})}
<1>1. \A T \in SUBSET U : Sum(T) \in Nat  BY SumIsNat
<1>2. \A T \in SUBSET U : T # {} => /\ Chosen(T) \in T
                                    /\ Sum(T) = f[Chosen(T)] + Sum(T \ {Chosen(T)})
  <2> SUFFICES ASSUME NEW T \in SUBSET U, T # {}
               PROVE  Chosen(T) \in T /\ Sum(T) = f[Chosen(T)] + Sum(T \ {Chosen(T)})
    OBVIOUS
  <2>1. IsFiniteSet(T)  BY FS_Subset
  <2> QED  BY <2>1, SumUnfolds DEF Chosen
<1> HIDE DEF Sum
<1>3. ASSUME NEW T \in SUBSET U, \A x \in T : T \ {x} \in G PROVE T \in G
  <2> SUFFICES ASSUME NEW x \in T PROVE Sum(T) = f[x] + Sum(T \ {x})  OBVIOUS
  <2> DEFINE c == Chosen(T)
  <2>1. c \in T /\ Sum(T) = f[c] + Sum(T \ {c})  BY <1>2
  <2> HIDE DEF c
  <2>2. CASE c = x  BY <2>1, <2>2
  <2>3. CASE c # x
    <3>1. T \ {c} \in G /\ T \ {x} \in G  BY <1>3, <2>1
    <3>2. x \in T \ {c} /\ c \in T \ {x}  BY <2>1, <2>3
    <3>3. Sum(T \ {c}) = f[x] + Sum((T \ {c}) \ {x})  BY <3>1, <3>2
    <3>4. Sum(T \ {x}) = f[c] + Sum((T \ {x}) \ {c})  BY <3>1, <3>2
    <3>5. (T \ {c}) \ {x} = (T \ {x}) \ {c}  OBVIOUS
    <3> DEFINE rest == Sum((T \ {c}) \ {x})
    <3>6. rest \in Nat /\ f[x] \in Nat /\ f[c] \in Nat  BY <1>1, <2>1
    <3>7. Sum(T) = f[c] + (f[x] + rest) /\ Sum(T \ {x}) = f[c] + rest
      BY <2>1, <3>3, <3>4, <3>5
    <3> HIDE DEF rest, G
    <3> QED  BY <3>6, <3>7
  <2> QED  BY <2>2, <2>3
<1>4. SUBSET U \subseteq G
  <2> HIDE DEF G
  <2> QED  BY <1>3, BySubsets
<1> QED  BY <1>4 DEF Sum

\* A function that is nowhere smaller has no smaller sum.
LEMMA SumGrows ==
  ASSUME NEW U, IsFiniteSet(U), NEW f, \A x \in U : f[x] \in Nat,
         NEW g, \A x \in U : g[x] \in Nat, \A x \in U : f[x] <= g[x]
  PROVE  SumFunctionOnSet(f, U) <= SumFunctionOnSet(g, U)
<1> DEFINE F(T) == SumFunctionOnSet(f, T)
           E(T) == SumFunctionOnSet(g, T)
           G == {T \in SUBSET U : F(T) <= E(T)}
<1>1. \A T \in SUBSET U : F(T) \in Nat /\ E(T) \in Nat  BY SumIsNat
<1>2. ASSUME NEW T \in SUBSET U, NEW x \in T
      PROVE  F(T) = f[x] + F(T \ {x}) /\ E(T) = g[x] + E(T \ {x})
  BY SumTakesOut
<1>3. F({}) = 0 /\ E({}) = 0  BY FS_EmptySet, SumUnfolds
<1> HIDE DEF F, E
<1>4. ASSUME NEW T \in SUBSET U, \A x \in T : T \ {x} \in G PROVE T \in G
  <2>1. CASE T = {}  BY <1>3, <2>1
  <2>2. ASSUME NEW x \in T PROVE F(T) <= E(T)
    <3>1. F(T \ {x}) <= E(T \ {x})  BY <1>4
    <3>2. f[x] <= g[x] /\ f[x] \in Nat /\ g[x] \in Nat  OBVIOUS
    <3>3. F(T \ {x}) \in Nat /\ E(T \ {x}) \in Nat  BY <1>1
    <3>4. F(T) = f[x] + F(T \ {x}) /\ E(T) = g[x] + E(T \ {x})  BY <1>2
    <3> DEFINE m == F(T \ {x})
               n == E(T \ {x})
    <3>5. m \in Nat /\ n \in Nat /\ m <= n  BY <3>1, <3>3
    <3> HIDE DEF m, n, G
    <3>6. f[x] + m <= g[x] + n  BY <3>2, <3>5
    <3> QED  BY <3>4, <3>6 DEF m, n
  <2> QED  BY <2>1, <2>2
<1>5. SUBSET U \subseteq G
  <2> HIDE DEF G
  <2> QED  BY <1>4, BySubsets
<1> QED  BY <1>5 DEF F, E

\* Disjoint parts add up.
LEMMA SumOfTwo ==
  ASSUME NEW U, IsFiniteSet(U), NEW f, \A x \in U : f[x] \in Nat,
         NEW S \in SUBSET U, NEW T \in SUBSET U, S \cap T = {}
  PROVE  SumFunctionOnSet(f, S \cup T) = SumFunctionOnSet(f, S) + SumFunctionOnSet(f, T)
<1> DEFINE Sum(V) == SumFunctionOnSet(f, V)
           G == {V \in SUBSET U : V \in SUBSET T => Sum(S \cup V) = Sum(S) + Sum(V)}
<1>1. \A V \in SUBSET U : Sum(V) \in Nat  BY SumIsNat
<1>2. ASSUME NEW V \in SUBSET U, NEW x \in V PROVE Sum(V) = f[x] + Sum(V \ {x})
  BY SumTakesOut
<1>3. Sum({}) = 0  BY FS_EmptySet, SumUnfolds
<1> HIDE DEF Sum
<1>4. ASSUME NEW V \in SUBSET U, \A x \in V : V \ {x} \in G PROVE V \in G
  <2> SUFFICES ASSUME V \in SUBSET T PROVE Sum(S \cup V) = Sum(S) + Sum(V)  OBVIOUS
  <2>1. CASE V = {}
    <3>1. S \cup V = S  BY <2>1
    <3> QED  BY <1>1, <1>3, <2>1, <3>1
  <2>2. ASSUME NEW x \in V PROVE Sum(S \cup V) = Sum(S) + Sum(V)
    <3> DEFINE W == V \ {x}
    <3>1. Sum(S \cup W) = Sum(S) + Sum(W)  BY <1>4
    <3>2. (S \cup V) \ {x} = S \cup W /\ x \in S \cup V /\ S \cup V \in SUBSET U  OBVIOUS
    <3>3. Sum(S \cup V) = f[x] + Sum(S \cup W) /\ Sum(V) = f[x] + Sum(W)  BY <1>2, <3>2
    <3>4. Sum(S) \in Nat /\ Sum(W) \in Nat /\ f[x] \in Nat  BY <1>1
    <3> HIDE DEF W, G
    <3> QED  BY <3>1, <3>3, <3>4
  <2> QED  BY <2>1, <2>2
<1>5. SUBSET U \subseteq G
  <2> HIDE DEF G
  <2> QED  BY <1>4, BySubsets
<1> QED  BY <1>5 DEF Sum

\* A sum over a part is at most the sum over the whole.
LEMMA SumOfPart ==
  ASSUME NEW U, IsFiniteSet(U), NEW f, \A x \in U : f[x] \in Nat,
         NEW S \in SUBSET U, NEW T \in SUBSET S
  PROVE  SumFunctionOnSet(f, T) <= SumFunctionOnSet(f, S)
<1> DEFINE V == S \ T
           m == SumFunctionOnSet(f, T)
           n == SumFunctionOnSet(f, V)
<1>1. T \in SUBSET U /\ V \in SUBSET U /\ T \cap V = {} /\ T \cup V = S  OBVIOUS
<1> HIDE DEF V
<1>2. SumFunctionOnSet(f, T \cup V) = m + n  BY <1>1, SumOfTwo
<1>3. m \in Nat /\ n \in Nat  BY <1>1, SumIsNat
<1>4. SumFunctionOnSet(f, S) = m + n  BY <1>1, <1>2
<1> HIDE DEF m, n
<1>5. m <= m + n  BY <1>3
<1> QED  BY <1>4, <1>5 DEF m

\* Shares of disjoint parts are together at most the whole.
LEMMA SumOfShares ==
  ASSUME NEW U, IsFiniteSet(U), NEW f, \A x \in U : f[x] \in Nat,
         NEW A, IsFiniteSet(A), NEW part \in [A -> SUBSET U],
         \A a, b \in A : a # b => part[a] \cap part[b] = {},
         NEW g, \A a \in A : g[a] \in Nat /\ g[a] <= SumFunctionOnSet(f, part[a])
  PROVE  SumFunctionOnSet(g, A) <= SumFunctionOnSet(f, U)
<1> DEFINE Sum(V) == SumFunctionOnSet(f, V)
           Share(B) == SumFunctionOnSet(g, B)
           All(B) == UNION {part[a] : a \in B}
           G == {B \in SUBSET A : Share(B) <= Sum(All(B))}
<1>1. \A V \in SUBSET U : Sum(V) \in Nat  BY SumIsNat
<1>2. \A B \in SUBSET A : Share(B) \in Nat  BY SumIsNat
<1>3. ASSUME NEW B \in SUBSET A, NEW a \in B PROVE Share(B) = g[a] + Share(B \ {a})
  BY SumTakesOut
<1>4. Share({}) = 0 /\ Sum({}) = 0  BY FS_EmptySet, SumUnfolds
<1>5. ASSUME NEW S \in SUBSET U, NEW T \in SUBSET U, S \cap T = {}
      PROVE  Sum(S \cup T) = Sum(S) + Sum(T)
  <2> HIDE DEF G, All, Share
  <2> QED  BY <1>5, SumOfTwo
<1>6. \A a \in A : g[a] \in Nat /\ g[a] <= Sum(part[a])  OBVIOUS
<1>7. \A B \in SUBSET A : All(B) \in SUBSET U  OBVIOUS
<1>8. Sum(All(A)) <= Sum(U)
  <2>1. All(A) \in SUBSET U  BY <1>7
  <2> HIDE DEF All
  <2> QED  BY <2>1, SumOfPart
<1> HIDE DEF Sum, Share
<1>9. ASSUME NEW B \in SUBSET A, \A a \in B : B \ {a} \in G PROVE B \in G
  <2>1. CASE B = {}
    <3>1. All(B) = {}  BY <2>1
    <3> QED  BY <1>4, <2>1, <3>1
  <2>2. ASSUME NEW a \in B PROVE B \in G
    <3> DEFINE C == B \ {a}
    <3>1. Share(C) <= Sum(All(C))  BY <1>9
    <3>2. /\ part[a] \in SUBSET U /\ All(C) \in SUBSET U /\ part[a] \cap All(C) = {}
          /\ part[a] \cup All(C) = All(B)
      OBVIOUS
    <3>3. Share(B) = g[a] + Share(C)  BY <1>3
    <3> HIDE DEF All, C
    <3>4. Sum(All(B)) = Sum(part[a]) + Sum(All(C))
      <4>1. Sum(part[a] \cup All(C)) = Sum(part[a]) + Sum(All(C))  BY <1>5, <3>2
      <4> QED  BY <3>2, <4>1
    <3>5. /\ Sum(part[a]) \in Nat /\ Sum(All(C)) \in Nat /\ Share(C) \in Nat
          /\ g[a] \in Nat /\ g[a] <= Sum(part[a])
      BY <1>1, <1>2, <1>6, <3>2 DEF C
    <3>6. Share(B) <= Sum(All(B))
      <4> HIDE DEF G
      <4> QED  BY <3>1, <3>3, <3>4, <3>5
    <3> QED  BY <3>6
  <2> QED  BY <2>1, <2>2
<1>10. A \in G
  <2> HIDE DEF G
  <2>1. SUBSET A \subseteq G  BY <1>9, BySubsets
  <2> QED  BY <2>1
<1>11. Share(A) <= Sum(All(A))  BY <1>10
<1>12. Share(A) \in Nat /\ Sum(All(A)) \in Nat /\ Sum(U) \in Nat  BY <1>1, <1>2, <1>7
<1> HIDE DEF All, G
<1>13. Share(A) <= Sum(U)  BY <1>8, <1>11, <1>12
<1> QED  BY <1>13 DEF Share, Sum

\* One more at one place is one more in the sum.
LEMMA SumChanges ==
  ASSUME NEW U, IsFiniteSet(U), NEW f, \A x \in U : f[x] \in Nat, NEW g,
         \A x \in U : g[x] \in Nat,
         NEW y \in U, \A x \in U : x # y => g[x] = f[x], NEW c \in Nat, g[y] = f[y] + c
  PROVE  SumFunctionOnSet(g, U) = SumFunctionOnSet(f, U) + c
<1> DEFINE V == U \ {y}
           m == SumFunctionOnSet(f, V)
           n == SumFunctionOnSet(g, V)
<1>1. IsFiniteSet(V) /\ V \in SUBSET U  BY FS_Subset
<1>2. SumFunctionOnSet(f, U) = f[y] + m /\ SumFunctionOnSet(g, U) = g[y] + n  BY SumTakesOut
<1>3. m \in Nat /\ n \in Nat /\ f[y] \in Nat  BY <1>1, SumIsNat
<1>4. \A x \in V : f[x] = g[x] /\ f[x] \in Nat /\ f[x] <= g[x] /\ g[x] <= f[x]  OBVIOUS
<1>5. m <= n /\ n <= m
  <2> HIDE DEF V
  <2> QED  BY <1>1, <1>4, SumGrows
<1> HIDE DEF V, m, n
<1>6. m = n  BY <1>3, <1>5
<1>7. (f[y] + c) + m = (f[y] + m) + c  BY <1>3
<1> QED  BY <1>2, <1>6, <1>7

\* A sum of sums is taken one after the other.
LEMMA SumOfSums ==
  ASSUME NEW U, IsFiniteSet(U), NEW f, \A x \in U : f[x] \in Nat,
         NEW g, \A x \in U : g[x] \in Nat, NEW h, \A x \in U : h[x] = f[x] + g[x]
  PROVE  SumFunctionOnSet(h, U) = SumFunctionOnSet(f, U) + SumFunctionOnSet(g, U)
<1> DEFINE F(T) == SumFunctionOnSet(f, T)
           E(T) == SumFunctionOnSet(g, T)
           H(T) == SumFunctionOnSet(h, T)
           G == {T \in SUBSET U : H(T) = F(T) + E(T)}
<1>0. \A x \in U : h[x] \in Nat  OBVIOUS
<1>1. \A T \in SUBSET U : F(T) \in Nat /\ E(T) \in Nat  BY SumIsNat
<1>2. ASSUME NEW T \in SUBSET U, NEW x \in T
      PROVE  /\ F(T) = f[x] + F(T \ {x}) /\ E(T) = g[x] + E(T \ {x})
             /\ H(T) = h[x] + H(T \ {x})
  BY <1>0, SumTakesOut
<1>3. F({}) = 0 /\ E({}) = 0 /\ H({}) = 0  BY FS_EmptySet, SumUnfolds
<1> HIDE DEF F, E, H
<1>4. ASSUME NEW T \in SUBSET U, \A x \in T : T \ {x} \in G PROVE T \in G
  <2>1. CASE T = {}  BY <1>3, <2>1
  <2>2. ASSUME NEW x \in T PROVE H(T) = F(T) + E(T)
    <3> DEFINE m == F(T \ {x})
               n == E(T \ {x})
    <3>1. H(T \ {x}) = m + n /\ m \in Nat /\ n \in Nat  BY <1>1, <1>4
    <3>2. F(T) = f[x] + m /\ E(T) = g[x] + n /\ H(T) = h[x] + H(T \ {x})  BY <1>2
    <3>3. h[x] = f[x] + g[x] /\ f[x] \in Nat /\ g[x] \in Nat  OBVIOUS
    <3> HIDE DEF m, n, G
    <3> QED  BY <3>1, <3>2, <3>3
  <2> QED  BY <2>1, <2>2
<1>5. SUBSET U \subseteq G
  <2> HIDE DEF G
  <2> QED  BY <1>4, BySubsets
<1> QED  BY <1>5 DEF F, E, H

\* One for each element is their number.
LEMMA SumOfOnes ==
  ASSUME NEW U, IsFiniteSet(U), NEW f, \A x \in U : f[x] = 1, NEW S \in SUBSET U
  PROVE  SumFunctionOnSet(f, S) = Cardinality(S)
<1> DEFINE F(T) == SumFunctionOnSet(f, T)
           G == {T \in SUBSET U : F(T) = Cardinality(T)}
<1>0. \A x \in U : f[x] \in Nat  OBVIOUS
<1>1. ASSUME NEW T \in SUBSET U, NEW x \in T
      PROVE  F(T) = f[x] + F(T \ {x})
  BY <1>0, SumTakesOut
<1>2. F({}) = 0 /\ Cardinality({}) = 0  BY FS_EmptySet, SumUnfolds
<1> HIDE DEF F
<1>3. ASSUME NEW T \in SUBSET U, \A x \in T : T \ {x} \in G PROVE T \in G
  <2>1. CASE T = {}  BY <1>2, <2>1
  <2>2. ASSUME NEW x \in T PROVE F(T) = Cardinality(T)
    <3>1. IsFiniteSet(T)  BY FS_Subset
    <3>2. Cardinality(T \ {x}) = Cardinality(T) - 1  BY <3>1, FS_RemoveElement
    <3>3. Cardinality(T) \in Nat  BY <3>1, FS_CardinalityType
    <3>4. F(T) = 1 + F(T \ {x}) /\ F(T \ {x}) = Cardinality(T \ {x})  BY <1>1, <1>3
    <3> HIDE DEF G
    <3> QED  BY <3>2, <3>3, <3>4
  <2> QED  BY <2>1, <2>2
<1>4. SUBSET U \subseteq G
  <2> HIDE DEF G
  <2> QED  BY <1>3, BySubsets
<1> QED  BY <1>4 DEF F

\* What an answer costs is added to its row, and to no other.
LEMMA UpdatedCosts ==
  ASSUME Types, NEW i \in DOMAIN convs, NEW s, NEW cost \in Nat
  PROVE  \A j \in DOMAIN convs :
           Updated(i, s, cost)[j].cost = IF j = i THEN convs[j].cost + cost ELSE convs[j].cost
<1> DEFINE r == [convs[i] EXCEPT !.last = now, !.cost = @ + cost,
                                 !.session = IF s = NoSession THEN @ ELSE s]
<1>1. convs \in Seq(Rows) /\ convs[i] \in Rows  BY DEF Types
<1>2. r.cost = convs[i].cost + cost
  <2> DEFINE c == convs[i].cost + cost
             q == IF s = NoSession THEN convs[i].session ELSE s
  <2>1. r = [convs[i] EXCEPT !.last = now, !.cost = c, !.session = q]  OBVIOUS
  <2> HIDE DEF r, c, q
  <2>2. r.cost = c  BY <1>1, <2>1 DEF Rows
  <2> QED  BY <2>2 DEF c
<1>3. Updated(i, s, cost) = [convs EXCEPT ![i] = r]  BY <1>1 DEF Updated
<1> HIDE DEF r
<1> QED  BY <1>1, <1>2, <1>3

-----------------------------------------------------------------------------
(***************************************************************************)
(* The shares.                                                             *)
(***************************************************************************)

\* The conversations of an agent, the turns of its that have been charged to one
\* and not measured yet, those that were measured twice, and what rows have cost.
Mine(T, a) == {i \in DOMAIN T : Len(T[i].uid) > 1 /\ Last(T[i].uid) = a}
Owed(tn, a) == {n \in DOMAIN tn : tn[n].at = "told" /\ tn[n].agent = a}
Doubled(tn, a) == {n \in DOMAIN tn : tn[n].at = "again" /\ tn[n].agent = a}
CostIn(T, R) == SumFunctionOnSet([i \in DOMAIN T |-> T[i].cost], R)

\* An agent's turn is in a conversation of the agent, and what the agent has cost
\* by the metrics, with what they do not have yet, its conversations have cost or
\* they have twice.
Placed(T, tn) ==
  \A n \in DOMAIN tn :
    tn[n].kind # "alone" => tn[n].agent \in Agents /\ tn[n].conv \in Mine(T, tn[n].agent)
Covered(m, T, tn) ==
  \A a \in Agents :
    m[a] + Cardinality(Owed(tn, a)) <= CostIn(T, Mine(T, a)) + Cardinality(Doubled(tn, a))
Shares == metrics \in [Agents -> Nat] /\ Placed(convs, turns) /\ Covered(metrics, convs, turns)

\* The costs of rows are natural numbers, and more rows cost no less.
LEMMA CostsAre ==
  ASSUME NEW T \in Seq(Rows)
  PROVE  /\ IsFiniteSet(DOMAIN T)
         /\ \A i \in DOMAIN T : [j \in DOMAIN T |-> T[j].cost][i] = T[i].cost /\ T[i].cost \in Nat
         /\ \A R \in SUBSET DOMAIN T : CostIn(T, R) \in Nat
         /\ \A R \in SUBSET DOMAIN T : \A S \in SUBSET R : CostIn(T, S) <= CostIn(T, R)
<1> DEFINE f == [j \in DOMAIN T |-> T[j].cost]
           U == DOMAIN T
<1>1. IsFiniteSet(U)
  <2>1. Len(T) \in Int /\ DOMAIN T = 1..Len(T)  OBVIOUS
  <2> QED  BY <2>1, FS_Interval
<1>2. \A i \in U : f[i] = T[i].cost /\ f[i] \in Nat
  <2>1. \A i \in U : T[i] \in Rows  OBVIOUS
  <2> QED  BY <2>1 DEF Rows
<1> HIDE DEF f, U
<1>3. \A R \in SUBSET U : SumFunctionOnSet(f, R) \in Nat  BY <1>1, <1>2, SumIsNat
<1>4. \A R \in SUBSET U : \A S \in SUBSET R : SumFunctionOnSet(f, S) <= SumFunctionOnSet(f, R)
  BY <1>1, <1>2, SumOfPart
<1> QED  BY <1>1, <1>2, <1>3, <1>4 DEF f, U, CostIn

\* An agent's conversations never cost less than before.
LEMMA CostsStay ==
  ASSUME NEW T \in Seq(Rows), NEW T2 \in Seq(Rows), DOMAIN T \subseteq DOMAIN T2,
         \A i \in DOMAIN T : T2[i].uid = T[i].uid /\ T[i].cost <= T2[i].cost,
         NEW a
  PROVE  /\ CostIn(T, Mine(T, a)) <= CostIn(T2, Mine(T2, a))
         /\ CostIn(T, Mine(T, a)) \in Nat /\ CostIn(T2, Mine(T2, a)) \in Nat
<1> DEFINE R == Mine(T, a)
           R2 == Mine(T2, a)
           f == [i \in DOMAIN T |-> T[i].cost]
           g == [i \in DOMAIN T2 |-> T2[i].cost]
<1>1. R \in SUBSET DOMAIN T /\ R2 \in SUBSET DOMAIN T2 /\ R \in SUBSET R2  BY DEF Mine
<1>2. /\ CostIn(T, R) \in Nat /\ CostIn(T2, R) \in Nat /\ CostIn(T2, R2) \in Nat
      /\ CostIn(T2, R) <= CostIn(T2, R2)
  BY <1>1, CostsAre
<1>3. CostIn(T, R) <= CostIn(T2, R)
  <2>1. IsFiniteSet(R)  BY <1>1, CostsAre, FS_Subset
  <2>2. \A i \in R : f[i] \in Nat /\ g[i] \in Nat /\ f[i] <= g[i]
    <3>1. \A i \in R : i \in DOMAIN T /\ i \in DOMAIN T2  BY <1>1
    <3>2. \A i \in DOMAIN T : f[i] = T[i].cost /\ T[i].cost \in Nat  BY CostsAre
    <3>3. \A i \in DOMAIN T2 : g[i] = T2[i].cost /\ T2[i].cost \in Nat  BY CostsAre
    <3> QED  BY <3>1, <3>2, <3>3
  <2> HIDE DEF R, f, g
  <2>3. SumFunctionOnSet(f, R) <= SumFunctionOnSet(g, R)  BY <2>1, <2>2, SumGrows
  <2> QED  BY <2>3 DEF CostIn, f, g
<1> HIDE DEF R, R2
<1> QED  BY <1>2, <1>3 DEF R, R2

\* They cost more by what one of them is charged.
LEMMA CostsRise ==
  ASSUME NEW T \in Seq(Rows), NEW T2 \in Seq(Rows), DOMAIN T2 = DOMAIN T,
         \A i \in DOMAIN T : T2[i].uid = T[i].uid, NEW a, NEW i \in Mine(T, a), NEW c \in Nat,
         \A j \in DOMAIN T : T2[j].cost = IF j = i THEN T[j].cost + c ELSE T[j].cost
  PROVE  CostIn(T2, Mine(T2, a)) = CostIn(T, Mine(T, a)) + c
<1> DEFINE R == Mine(T, a)
           f == [j \in DOMAIN T |-> T[j].cost]
           g == [j \in DOMAIN T2 |-> T2[j].cost]
<1>1. R \in SUBSET DOMAIN T /\ Mine(T2, a) = R /\ i \in R  BY DEF Mine
<1>2. IsFiniteSet(R)  BY <1>1, CostsAre, FS_Subset
<1>3. \A j \in R : f[j] \in Nat /\ g[j] \in Nat
  <2>1. \A j \in DOMAIN T : f[j] = T[j].cost /\ T[j].cost \in Nat  BY CostsAre
  <2>2. \A j \in DOMAIN T2 : g[j] = T2[j].cost /\ T2[j].cost \in Nat  BY CostsAre
  <2> QED  BY <1>1, <2>1, <2>2
<1>4. (\A j \in R : i # j => g[j] = f[j]) /\ g[i] = f[i] + c  BY <1>1
<1> HIDE DEF R, f, g
<1>5. SumFunctionOnSet(g, R) = SumFunctionOnSet(f, R) + c  BY <1>1, <1>2, <1>3, <1>4, SumChanges
<1> QED  BY <1>1, <1>5 DEF CostIn, f, g, R

\* A turn that is owed, or measured twice, is one of the turns.
LEMMA OwedIsFinite ==
  ASSUME NEW tn \in Seq(TurnRecords), NEW a
  PROVE  /\ IsFiniteSet(Owed(tn, a)) /\ Cardinality(Owed(tn, a)) \in Nat
         /\ IsFiniteSet(Doubled(tn, a)) /\ Cardinality(Doubled(tn, a)) \in Nat
<1>1. IsFiniteSet(DOMAIN tn)
  <2>1. Len(tn) \in Int /\ DOMAIN tn = 1..Len(tn)  OBVIOUS
  <2> QED  BY <2>1, FS_Interval
<1>2. IsFiniteSet(Owed(tn, a)) /\ IsFiniteSet(Doubled(tn, a))
  BY <1>1, FS_Subset DEF Owed, Doubled
<1> QED  BY <1>2, FS_CardinalityType

\* The metrics stay what they are, nobody is owed more, and the table grows.
LEMMA SharesStay ==
  ASSUME Shares, convs \in Seq(Rows), convs' \in Seq(Rows), DOMAIN convs \subseteq DOMAIN convs',
         \A i \in DOMAIN convs : convs'[i].uid = convs[i].uid /\ convs[i].cost <= convs'[i].cost,
         \A a \in Agents : Owed(turns', a) \subseteq Owed(turns, a),
         \A a \in Agents : Doubled(turns, a) \subseteq Doubled(turns', a),
         turns \in Seq(TurnRecords), turns' \in Seq(TurnRecords), Placed(convs', turns'),
         metrics' = metrics
  PROVE  Shares'
<1>1. ASSUME NEW a \in Agents
      PROVE  metrics[a] + Cardinality(Owed(turns', a))
               <= CostIn(convs', Mine(convs', a)) + Cardinality(Doubled(turns', a))
  <2> DEFINE before == CostIn(convs, Mine(convs, a))
             after == CostIn(convs', Mine(convs', a))
             owed == Cardinality(Owed(turns, a))
             owes == Cardinality(Owed(turns', a))
             twice == Cardinality(Doubled(turns, a))
             more == Cardinality(Doubled(turns', a))
  <2>1. before <= after /\ before \in Nat /\ after \in Nat  BY CostsStay
  <2>2. metrics[a] + owed <= before + twice /\ metrics[a] \in Nat  BY DEF Shares, Covered
  <2>3. /\ IsFiniteSet(Owed(turns, a)) /\ owed \in Nat /\ twice \in Nat
        /\ IsFiniteSet(Doubled(turns', a)) /\ owes \in Nat /\ more \in Nat
    <3> DEFINE tn == turns'
    <3>1. tn \in Seq(TurnRecords)  OBVIOUS
    <3> HIDE DEF tn
    <3>2. /\ IsFiniteSet(Doubled(tn, a)) /\ Cardinality(Owed(tn, a)) \in Nat
          /\ Cardinality(Doubled(tn, a)) \in Nat
      BY <3>1, OwedIsFinite
    <3>3. IsFiniteSet(Owed(turns, a)) /\ owed \in Nat /\ twice \in Nat  BY OwedIsFinite
    <3> QED  BY <3>2, <3>3 DEF tn
  <2>4. owes <= owed /\ twice <= more
    <3>1. owes <= owed  BY <2>3, FS_Subset
    <3>2. twice <= more  BY <2>3, FS_Subset
    <3> QED  BY <3>1, <3>2
  <2> HIDE DEF before, after, owed, owes, twice, more
  <2>5. metrics[a] + owes <= after + more  BY <2>1, <2>2, <2>3, <2>4
  <2> QED  BY <2>5 DEF after, owes, more
<1>2. Covered(metrics', convs', turns')  BY <1>1 DEF Covered
<1> QED  BY <1>2 DEF Shares

\* A turn moves, and stays in its conversation.
LEMMA PlacedStays ==
  ASSUME Placed(convs, turns), Moved(turns, turns'), DOMAIN convs' = DOMAIN convs,
         \A i \in DOMAIN convs : convs'[i].uid = convs[i].uid
  PROVE  Placed(convs', turns')
BY DEF Placed, Moved, Mine

\* An agent's turn is charged and measured.
LEMMA Charged ==
  ASSUME IInv, Shares, Types', NEW n \in DOMAIN turns, turns[n].at = "asked",
         turns[n].kind # "alone", NEW s, Pointer(n, s) \in SessionIds \cup {NoSession},
         convs' = Updated(turns[n].conv, Pointer(n, s), 1),
         turns' = [turns EXCEPT ![n].at = IF Announced(n, s) THEN "told" ELSE Recorded(n)],
         metrics' = IF Announced(n, s) THEN metrics ELSE Measured(n, 1)
  PROVE  Shares'
<1> DEFINE b == turns[n].agent
           i == turns[n].conv
<1>0. /\ convs \in Seq(Rows) /\ turns \in Seq(TurnRecords) /\ Types
      /\ metrics \in [Agents -> Nat] /\ Placed(convs, turns)
      /\ b \in Agents /\ i \in Mine(convs, b) /\ i \in DOMAIN convs
  BY DEF IInv, Types, Shares, Placed, Mine
<1>1. /\ convs' \in Seq(Rows) /\ DOMAIN convs' = DOMAIN convs
      /\ \A j \in DOMAIN convs : convs'[j].uid = convs[j].uid
  <2> DEFINE p == Pointer(n, s)
             c == 1
  <2>1. /\ i \in DOMAIN convs /\ p \in SessionIds \cup {NoSession} /\ c \in Nat
        /\ convs' = Updated(i, p, c)
    BY <1>0
  <2> HIDE DEF i, p, c
  <2>2. /\ Updated(i, p, c) \in Seq(Rows) /\ DOMAIN Updated(i, p, c) = DOMAIN convs
        /\ \A j \in DOMAIN convs : Updated(i, p, c)[j].uid = convs[j].uid
    <3>1. /\ Types /\ i \in DOMAIN convs /\ p \in SessionIds \cup {NoSession} /\ c \in Nat
      BY <1>0, <2>1
    <3> DEFINE T == Updated(i, p, c)
    <3>2. /\ T \in Seq(Rows) /\ DOMAIN T = DOMAIN convs
          /\ \A j \in DOMAIN convs :
               /\ T[j].uid = convs[j].uid
               /\ T[j].status = convs[j].status
               /\ T[j].session = IF j = i /\ p # NoSession THEN p ELSE convs[j].session
      BY ONLY <3>1, UpdatedIs
    <3> QED  BY <3>2
  <2> QED  BY <2>1, <2>2
<1>2. \A j \in DOMAIN convs :
        convs'[j].cost = IF j = i THEN convs[j].cost + 1 ELSE convs[j].cost
  <2> DEFINE p == Pointer(n, s)
             c == 1
  <2>1. Types /\ i \in DOMAIN convs /\ c \in Nat /\ convs' = Updated(i, p, c)  BY <1>0
  <2> HIDE DEF i, p, c
  <2>2. \A j \in DOMAIN convs :
          Updated(i, p, c)[j].cost = IF j = i THEN convs[j].cost + c ELSE convs[j].cost
    BY ONLY <2>1, UpdatedCosts
  <2> QED  BY <2>1, <2>2 DEF c
<1>3. \A j \in DOMAIN convs : convs[j].cost \in Nat /\ convs[j].cost <= convs'[j].cost
  <2>1. \A j \in DOMAIN convs : convs[j].cost \in Nat  BY <1>0, CostsAre
  <2> QED  BY <1>2, <2>1
<1>4. Moved(turns, turns')
  <2> DEFINE v == IF Announced(n, s) THEN "told" ELSE Recorded(n)
  <2>1. v \in {"told", "over", "due"} /\ turns' = [turns EXCEPT ![n].at = v]
    BY DEF Recorded
  <2> HIDE DEF v
  <2> QED  BY <1>0, <2>1, TurnMoved
<1>5. Placed(convs', turns')  BY <1>0, <1>1, <1>4, PlacedStays
<1>6. CostIn(convs', Mine(convs', b)) = CostIn(convs, Mine(convs, b)) + 1
  <2> DEFINE c == 1
             T == convs'
  <2>1. i \in Mine(convs, b) /\ c \in Nat /\ convs \in Seq(Rows) /\ T \in Seq(Rows)
    BY <1>0, <1>1
  <2>2. /\ DOMAIN T = DOMAIN convs /\ \A j \in DOMAIN convs : T[j].uid = convs[j].uid
        /\ \A j \in DOMAIN convs : T[j].cost = IF j = i THEN convs[j].cost + c ELSE convs[j].cost
    BY <1>1, <1>2
  <2> HIDE DEF i, b, c, T
  <2>3. CostIn(T, Mine(T, b)) = CostIn(convs, Mine(convs, b)) + c  BY <2>1, <2>2, CostsRise
  <2> QED  BY <2>3 DEF c, T
<1>7. \A a \in Agents : /\ CostIn(convs, Mine(convs, a)) <= CostIn(convs', Mine(convs', a))
                        /\ CostIn(convs, Mine(convs, a)) \in Nat
                        /\ CostIn(convs', Mine(convs', a)) \in Nat
  BY <1>0, <1>1, <1>3, CostsStay
<1>8. \A a \in Agents : /\ IsFiniteSet(Owed(turns, a)) /\ Cardinality(Owed(turns, a)) \in Nat
                        /\ Cardinality(Doubled(turns, a)) \in Nat
  BY <1>0, OwedIsFinite
<1>9. \A m \in DOMAIN turns :
        turns'[m].at = (IF m = n THEN IF Announced(n, s) THEN "told" ELSE Recorded(n) ELSE turns[m].at)
  BY <1>0
<1>10. \A a \in Agents : metrics[a] + Cardinality(Owed(turns, a))
                          <= CostIn(convs, Mine(convs, a)) + Cardinality(Doubled(turns, a))
  BY DEF Shares, Covered
<1>d. \A a \in Agents : Doubled(turns', a) = Doubled(turns, a)
  <2>1. \A m \in DOMAIN turns : turns'[m].at = "again" <=> turns[m].at = "again"
    BY <1>9 DEF Recorded
  <2> QED  BY <1>4, <2>1 DEF Doubled, Moved
<1> HIDE DEF b
<1>11. CASE Announced(n, s)
  <2>1. \A a \in Agents : a # b => Owed(turns', a) = Owed(turns, a)
    BY <1>4, <1>9 DEF Owed, Moved, b
  <2>2. Owed(turns', b) = Owed(turns, b) \cup {n} /\ n \notin Owed(turns, b)
    BY <1>4, <1>9, <1>11 DEF Owed, Moved, b
  <2>3. Cardinality(Owed(turns', b)) = Cardinality(Owed(turns, b)) + 1
    BY <1>0, <1>8, <2>2, FS_AddElement
  <2>4. ASSUME NEW a \in Agents
        PROVE  metrics[a] + Cardinality(Owed(turns', a))
                 <= CostIn(convs', Mine(convs', a)) + Cardinality(Doubled(turns, a))
    <3>1. metrics[a] \in Nat  BY <1>0
    <3>2. CASE a = b  BY <1>0, <1>6, <1>7, <1>8, <1>10, <2>3, <3>1, <3>2
    <3>3. CASE a # b
      <4>1. Cardinality(Owed(turns', a)) = Cardinality(Owed(turns, a))  BY <2>1, <3>3
      <4> QED  BY <1>7, <1>8, <1>10, <3>1, <4>1
    <3> QED  BY <3>2, <3>3
  <2>5. metrics' = metrics  BY <1>11
  <2>6. Covered(metrics', convs', turns')  BY <1>d, <2>4, <2>5 DEF Covered
  <2> QED  BY <1>0, <1>5, <2>5, <2>6 DEF Shares
<1>12. CASE ~Announced(n, s)
  <2>1. \A a \in Agents : Owed(turns', a) = Owed(turns, a)
    BY <1>4, <1>9, <1>12 DEF Owed, Moved, Recorded
  <2>2. metrics' = [metrics EXCEPT ![b] = @ + 1]  BY <1>12 DEF Measured, b
  <2>3. /\ metrics' \in [Agents -> Nat] /\ metrics'[b] = metrics[b] + 1
        /\ \A a \in Agents : a # b => metrics'[a] = metrics[a]
    <3> DEFINE m == metrics'
    <3>1. b \in Agents /\ metrics[b] \in Nat /\ m = [metrics EXCEPT ![b] = @ + 1]  BY <1>0, <2>2
    <3> HIDE DEF m, i
    <3>2. /\ m \in [Agents -> Nat] /\ m[b] = metrics[b] + 1
          /\ \A a \in Agents : a # b => m[a] = metrics[a]
      BY <1>0, <3>1
    <3> QED  BY <3>2 DEF m
  <2>4. ASSUME NEW a \in Agents
        PROVE  metrics'[a] + Cardinality(Owed(turns', a))
                 <= CostIn(convs', Mine(convs', a)) + Cardinality(Doubled(turns, a))
    <3>1. metrics[a] \in Nat /\ Cardinality(Owed(turns', a)) = Cardinality(Owed(turns, a))
      BY <1>0, <2>1
    <3>2. CASE a = b
      <4>1. metrics'[a] = metrics[a] + 1  BY <2>3, <3>2
      <4> QED  BY <1>6, <1>7, <1>8, <1>10, <3>1, <3>2, <4>1
    <3>3. CASE a # b
      <4>1. metrics'[a] = metrics[a]  BY <2>3, <3>3
      <4> QED  BY <1>7, <1>8, <1>10, <3>1, <4>1
    <3> QED  BY <3>2, <3>3
  <2>5. Covered(metrics', convs', turns')  BY <1>d, <2>4 DEF Covered
  <2> QED  BY <1>5, <2>3, <2>5 DEF Shares
<1> QED  BY <1>11, <1>12

\* A turn that begins has a row of its agent's and has cost nothing.
LEMMA SharesBegin ==
  ASSUME IInv, IInv', Shares, NEW T \in Seq(Rows), Single(T), Owned(T, turns),
         DOMAIN convs \subseteq DOMAIN T, \A j \in DOMAIN convs : T[j] = convs[j],
         NEW uid \in UserIds, NEW after, NEW a, NEW kind,
         kind # "alone" => a \in Agents /\ Len(uid) > 1 /\ Last(uid) = a,
         Begin(T, uid, NoSession, after, a, kind), metrics' = metrics
  PROVE  Shares'
<1> DEFINE i == Row(T, uid, NoSession)
           T2 == GetOrCreate(T, uid, NoSession)
           r == [conv |-> i, agent |-> a, kind |-> kind, at |-> "asked",
                 named |-> NoSession # NoSession, session |-> T2[i].session,
                 resumes |-> Resumes(T2[i].session),
                 follows |-> Follows(i), after |-> after]
<1>0. /\ convs \in Seq(Rows) /\ convs' \in Seq(Rows) /\ turns \in Seq(TurnRecords)
      /\ turns' \in Seq(TurnRecords) /\ now \in Nat /\ DOMAIN turns = 1..Len(turns) /\ Len(turns) \in Nat
      /\ Placed(convs, turns)
  BY DEF IInv, Types, Shares
<1>1. /\ DOMAIN T \subseteq DOMAIN T2 /\ \A j \in DOMAIN T : T2[j] = T[j]
      /\ i \in DOMAIN T2 /\ T2[i].uid = uid
  <2>1. Askable(T, NoSession) /\ DOMAIN turns \subseteq Nat  BY <1>0 DEF Askable
  <2> QED  BY <1>0, <2>1, Kept
<1>2. convs' = T2 /\ turns' = Append(turns, r)  BY DEF Begin
<1>3. r.conv = i /\ r.agent = a /\ r.kind = kind /\ r.at = "asked"  OBVIOUS
<1> HIDE DEF i, T2, r
<1>4. /\ DOMAIN turns' = 1..Len(turns) + 1 /\ turns'[Len(turns) + 1] = r
      /\ \A n \in DOMAIN turns : turns'[n] = turns[n]
  BY <1>0, <1>2
<1>5. DOMAIN convs \subseteq DOMAIN convs' /\ \A j \in DOMAIN convs : convs'[j] = convs[j]
  BY <1>1, <1>2
<1>6. \A j \in DOMAIN convs : convs'[j].uid = convs[j].uid /\ convs[j].cost <= convs'[j].cost
  <2>1. \A j \in DOMAIN convs : convs[j].cost \in Nat  BY <1>0, CostsAre
  <2> QED  BY <1>5, <2>1
<1>7. \A b \in Agents : /\ Owed(turns', b) \subseteq Owed(turns, b)
                        /\ Doubled(turns, b) \subseteq Doubled(turns', b)
  BY <1>0, <1>3, <1>4 DEF Owed, Doubled
<1>8. Placed(convs', turns')
  <2> SUFFICES ASSUME NEW n \in DOMAIN turns', turns'[n].kind # "alone"
               PROVE  turns'[n].agent \in Agents /\ turns'[n].conv \in Mine(convs', turns'[n].agent)
    BY DEF Placed
  <2>1. CASE n \in DOMAIN turns
    BY <1>0, <1>4, <1>5, <2>1 DEF Placed, Mine
  <2>2. CASE n = Len(turns) + 1
    BY <1>1, <1>2, <1>3, <1>4, <2>2 DEF Mine
  <2> QED  BY <1>0, <1>4, <2>1, <2>2
<1> QED  BY <1>0, <1>5, <1>6, <1>7, <1>8, SharesStay

\* Whoever asks, and names no session, asks one of the agents in a row of its own.
LEMMA SharesAsked ==
  ASSUME "named" \notin Env, IInv, IInv', Shares,
         \/ \E u \in Users, a \in Agents : Ask(u, a) \/ \E t \in Tasks : Spawn(u, a, t)
         \/ \E f, a \in Agents : Delegate(f, a)
         \/ \E u \in Users : AskAlone(u)
         \/ \E a \in Agents : Beat(a)
  PROVE  Shares'
<1>0. /\ convs \in Seq(Rows) /\ Single(convs) /\ Owned(convs, turns) /\ now \in Nat
      /\ DOMAIN turns \subseteq Nat
  BY DEF IInv, Types
<1>1. ASSUME NEW u \in Users, NEW a \in Agents, Ask(u, a) PROVE Shares'
  <2> DEFINE uid == <<u, a>>
  <2>1. Begin(convs, uid, NoSession, fence[u], a, "chat") /\ metrics' = metrics
    BY <1>1 DEF Ask, NamedSessions
  <2>2. uid \in UserIds /\ Len(uid) > 1 /\ Last(uid) = a  BY UserIdsAre DEF Last
  <2> HIDE DEF uid
  <2> QED  BY <1>0, <2>1, <2>2, SharesBegin
<1>2. ASSUME NEW u \in Users, NEW a \in Agents, NEW t \in Tasks, Spawn(u, a, t) PROVE Shares'
  <2> DEFINE uid == <<u, "spawn", t, a>>
  <2>1. Begin(convs, uid, NoSession, 0, a, "spawn") /\ metrics' = metrics  BY <1>2 DEF Spawn
  <2>2. uid \in UserIds /\ Len(uid) > 1 /\ Last(uid) = a  BY UserIdsAre DEF Last
  <2> HIDE DEF uid
  <2> QED  BY <1>0, <2>1, <2>2, SharesBegin
<1>3. ASSUME NEW f \in Agents, NEW a \in Agents, Delegate(f, a) PROVE Shares'
  <2> DEFINE T == GetOrCreate(convs, <<"agent", f>>, NoSession)
             v == <<"agent", f>>
             uid == <<"agent", f, a>>
  <2>1. Begin(T, uid, NoSession, 0, a, "chat") /\ metrics' = metrics  BY <1>3 DEF Delegate
  <2>2. uid \in UserIds /\ Len(uid) > 1 /\ Last(uid) = a  BY UserIdsAre DEF Last
  <2>3. v \in UserIds /\ Askable(convs, NoSession) /\ T = GetOrCreate(convs, v, NoSession)
    BY UserIdsAre DEF Askable
  <2> HIDE DEF T, v, uid
  <2>4. /\ T \in Seq(Rows) /\ Single(T) /\ Owned(T, turns)
        /\ DOMAIN convs \subseteq DOMAIN T /\ \A j \in DOMAIN convs : T[j] = convs[j]
    BY <1>0, <2>3, Kept
  <2> QED  BY <2>1, <2>2, <2>4, SharesBegin
<1>4. ASSUME NEW u \in Users, AskAlone(u) PROVE Shares'
  <2> DEFINE uid == <<u>>
  <2>1. Begin(convs, uid, NoSession, fence[u], Nobody, "alone") /\ metrics' = metrics
    BY <1>4 DEF AskAlone
  <2>2. uid \in UserIds  BY UserIdsAre
  <2> HIDE DEF uid
  <2> QED  BY <1>0, <2>1, <2>2, SharesBegin
<1>5. ASSUME NEW a \in Agents, Beat(a) PROVE Shares'
  <2> DEFINE uid == <<"scheduler", a>>
  <2>1. Begin(convs, uid, NoSession, 0, a, "beat") /\ metrics' = metrics  BY <1>5 DEF Beat
  <2>2. uid \in UserIds /\ Len(uid) > 1 /\ Last(uid) = a  BY UserIdsAre DEF Last
  <2> HIDE DEF uid
  <2> QED  BY <1>0, <2>1, <2>2, SharesBegin
<1> QED  BY <1>1, <1>2, <1>3, <1>4, <1>5

\* A turn that is charged nothing, or that no agent has, owes nothing.
LEMMA SharesRest ==
  ASSUME IInv, IInv', Shares, NEW n \in DOMAIN turns,
         \/ \E s \in SessionIds \cup {NoSession}, c \in Nat : convs' = Updated(turns[n].conv, s, c)
         \/ convs' = convs,
         NEW v \in {"over", "due", "again", "failed", "lost"}, turns[n].at # "again",
         turns' = [turns EXCEPT ![n].at = v], metrics' = metrics
  PROVE  Shares'
<1> DEFINE i == turns[n].conv
<1>0. /\ convs \in Seq(Rows) /\ convs' \in Seq(Rows) /\ turns \in Seq(TurnRecords) /\ Types
      /\ turns' \in Seq(TurnRecords) /\ i \in DOMAIN convs /\ Placed(convs, turns)
  BY DEF IInv, Types, Shares, Resumed
<1> HIDE DEF i
<1>1. \A j \in DOMAIN convs : convs[j].cost \in Nat  BY <1>0, CostsAre
<1>2. /\ DOMAIN convs' = DOMAIN convs
      /\ \A j \in DOMAIN convs : convs'[j].uid = convs[j].uid /\ convs[j].cost <= convs'[j].cost
  <2>1. CASE convs' = convs  BY <1>1, <2>1
  <2>2. ASSUME NEW s \in SessionIds \cup {NoSession}, NEW c \in Nat, convs' = Updated(i, s, c)
        PROVE  /\ DOMAIN convs' = DOMAIN convs
               /\ \A j \in DOMAIN convs :
                    convs'[j].uid = convs[j].uid /\ convs[j].cost <= convs'[j].cost
    <3> DEFINE T == Updated(i, s, c)
    <3>1. Types /\ i \in DOMAIN convs  BY <1>0
    <3>2. /\ T \in Seq(Rows) /\ DOMAIN T = DOMAIN convs
          /\ \A j \in DOMAIN convs :
               /\ T[j].uid = convs[j].uid
               /\ T[j].status = convs[j].status
               /\ T[j].session = IF j = i /\ s # NoSession THEN s ELSE convs[j].session
      BY ONLY <3>1, s \in SessionIds \cup {NoSession}, c \in Nat, UpdatedIs
    <3>3. \A j \in DOMAIN convs :
            T[j].cost = IF j = i THEN convs[j].cost + c ELSE convs[j].cost
      BY ONLY <3>1, c \in Nat, UpdatedCosts
    <3> HIDE DEF T
    <3>4. \A j \in DOMAIN convs : convs[j].cost <= T[j].cost  BY <1>1, <3>3
    <3> QED  BY <2>2, <3>2, <3>4 DEF T
  <2> QED  BY <2>1, <2>2 DEF i
<1>3. Moved(turns, turns')  BY <1>0, TurnMoved
<1>4. Placed(convs', turns')  BY <1>0, <1>2, <1>3, PlacedStays
<1>5. \A m \in DOMAIN turns : turns'[m].at = IF m = n THEN v ELSE turns[m].at  BY <1>0
<1>6. \A a \in Agents : /\ Owed(turns', a) \subseteq Owed(turns, a)
                        /\ Doubled(turns, a) \subseteq Doubled(turns', a)
  BY <1>3, <1>5 DEF Owed, Doubled, Moved
<1> QED  BY <1>0, <1>2, <1>4, <1>6, SharesStay

\* What a turn owed is in the metrics, or a heartbeat is in them twice.
LEMMA SharesMeasured ==
  ASSUME IInv, Shares, NEW n \in DOMAIN turns, turns[n].kind # "alone",
         convs' = convs, metrics' = Measured(n, 1), NEW v,
         turns' = [turns EXCEPT ![n].at = v],
         \/ turns[n].at = "told" /\ v \in {"over", "due"}
         \/ turns[n].at = "due" /\ v = "again"
  PROVE  Shares'
<1> DEFINE b == turns[n].agent
<1>0. /\ convs \in Seq(Rows) /\ turns \in Seq(TurnRecords)
      /\ metrics \in [Agents -> Nat] /\ Placed(convs, turns) /\ b \in Agents
  BY DEF IInv, Types, Shares, Placed
<1>1. metrics' = [metrics EXCEPT ![b] = @ + 1]  BY DEF Measured
<1>2. Moved(turns, turns')  BY <1>0, TurnMoved
<1>3. Placed(convs', turns')  BY <1>0, <1>2, PlacedStays
<1>4. \A m \in DOMAIN turns : turns'[m].at = IF m = n THEN v ELSE turns[m].at  BY <1>0
<1>5. \A a \in Agents : /\ IsFiniteSet(Owed(turns, a)) /\ Cardinality(Owed(turns, a)) \in Nat
                        /\ IsFiniteSet(Doubled(turns, a))
                        /\ Cardinality(Doubled(turns, a)) \in Nat
  BY <1>0, OwedIsFinite
<1>6. \A a \in Agents : a # b => /\ Owed(turns', a) = Owed(turns, a)
                                 /\ Doubled(turns', a) = Doubled(turns, a)
  <2>1. \A m \in DOMAIN turns : m # n => turns'[m].at = turns[m].at  BY <1>4
  <2> QED  BY <1>2, <2>1 DEF Owed, Doubled, Moved
<1>7. \/ /\ Owed(turns', b) = Owed(turns, b) \ {n} /\ n \in Owed(turns, b)
         /\ Doubled(turns', b) = Doubled(turns, b)
      \/ /\ Owed(turns', b) = Owed(turns, b)
         /\ Doubled(turns', b) = Doubled(turns, b) \cup {n} /\ n \notin Doubled(turns, b)
  BY <1>0, <1>2, <1>4 DEF Owed, Doubled, Moved
<1> DEFINE owed(a) == Cardinality(Owed(turns, a))
           owes(a) == Cardinality(Owed(turns', a))
           twice(a) == Cardinality(Doubled(turns, a))
           more(a) == Cardinality(Doubled(turns', a))
           cost(a) == CostIn(convs, Mine(convs, a))
<1>8. \/ owes(b) = owed(b) - 1 /\ more(b) = twice(b)
      \/ owes(b) = owed(b) /\ more(b) = twice(b) + 1
  <2>1. IsFiniteSet(Owed(turns, b)) /\ IsFiniteSet(Doubled(turns, b))  BY <1>0, <1>5
  <2> HIDE DEF b
  <2>2. Cardinality(Owed(turns, b) \ {n}) =
             IF n \in Owed(turns, b) THEN Cardinality(Owed(turns, b)) - 1
             ELSE Cardinality(Owed(turns, b))
    BY <2>1, FS_RemoveElement
  <2>3. n \notin Doubled(turns, b) =>
          Cardinality(Doubled(turns, b) \cup {n}) = Cardinality(Doubled(turns, b)) + 1
    BY <2>1, FS_AddElement
  <2> QED  BY <1>7, <2>2, <2>3
<1>9. \A a \in Agents : metrics[a] + owed(a) <= cost(a) + twice(a) /\ cost(a) \in Nat
  <2>1. \A a : CostIn(convs, Mine(convs, a)) \in Nat  BY <1>0, CostsStay, CostsAre DEF Mine
  <2> QED  BY <2>1 DEF Shares, Covered
<1> HIDE DEF b
<1>10. /\ metrics' \in [Agents -> Nat] /\ metrics'[b] = metrics[b] + 1
       /\ \A a \in Agents : a # b => metrics'[a] = metrics[a]
  <2> DEFINE m == metrics'
  <2>1. metrics[b] \in Nat /\ m = [metrics EXCEPT ![b] = @ + 1]  BY <1>0, <1>1
  <2> HIDE DEF m
  <2>2. /\ m \in [Agents -> Nat] /\ m[b] = metrics[b] + 1
        /\ \A a \in Agents : a # b => m[a] = metrics[a]
    BY <1>0, <2>1
  <2> QED  BY <2>2 DEF m
<1>11. ASSUME NEW a \in Agents PROVE metrics'[a] + owes(a) <= cost(a) + more(a)
  <2>1. metrics[a] \in Nat /\ owed(a) \in Nat /\ twice(a) \in Nat  BY <1>0, <1>5
  <2>2. metrics[a] + owed(a) <= cost(a) + twice(a) /\ cost(a) \in Nat  BY <1>9
  <2>3. CASE a = b
    <3>1. /\ metrics'[a] = metrics[a] + 1
          /\ \/ owes(a) = owed(a) - 1 /\ more(a) = twice(a)
             \/ owes(a) = owed(a) /\ more(a) = twice(a) + 1
      BY <1>8, <1>10, <2>3
    <3> HIDE DEF owes, owed, twice, more, cost
    <3> QED  BY <2>1, <2>2, <3>1
  <2>4. CASE a # b
    <3>1. metrics'[a] = metrics[a] /\ owes(a) = owed(a) /\ more(a) = twice(a)
      BY <1>6, <1>10, <2>4
    <3> HIDE DEF owes, owed, twice, more, cost
    <3> QED  BY <2>2, <3>1
  <2> QED  BY <2>3, <2>4
<1>12. Covered(metrics', convs', turns')  BY <1>11 DEF Covered
<1> QED  BY <1>3, <1>10, <1>12 DEF Shares

\* A turn ends in one way or the other.
LEMMA SharesEnded ==
  ASSUME IInv, IInv', Shares, NEW n \in DOMAIN turns,
         \/ \E b \in Backends : Answer(n, b)
         \/ AnswerFails(n) \/ Measure(n) \/ BeatReturns(n) \/ Abandon(n)
  PROVE  Shares'
<1>0. /\ Types /\ Types' /\ Resumed /\ turns[n] \in TurnRecords
  BY DEF IInv, Types
<1>1. ASSUME NEW b \in Backends, Answer(n, b) PROVE Shares'
  <2> DEFINE s == Reported(n, b)
             i == turns[n].conv
             p == Pointer(n, s)
  <2>1. /\ turns[n].at = "asked" /\ Settle(n, s, 1)
        /\ turns[n].agent = Nobody => b = "cli"
    BY <1>1 DEF Answer
  <2>2. turns[n].agent \in Agents \cup {Nobody} /\ turns[n].session \in SessionIds
    BY <1>0 DEF TurnRecords
  <2>3. Reports(n, s)
    BY <1>0, <2>1, <2>2 DEF Resumed, Reported, Reports
  <2>4. s # NoSession
    BY <2>2, SessionIsSome DEF Reported, NoSession
  <2>5. p \in SessionIds \cup {NoSession}  BY <2>3, PointerIsGiven
  <2>6. ~Clashes(i, p)  BY <2>3, NoClash
  <2>7. /\ convs' = Updated(i, p, 1)
        /\ turns' = [turns EXCEPT ![n].at = IF Announced(n, s) THEN "told" ELSE Recorded(n)]
        /\ metrics' = IF Announced(n, s) THEN metrics ELSE Measured(n, 1)
    BY <2>1, <2>4, <2>6 DEF Settle
  <2>8. CASE turns[n].kind # "alone"
    <3> HIDE DEF s
    <3> QED  BY <1>0, <2>1, <2>5, <2>7, <2>8, Charged
  <2>9. CASE turns[n].kind = "alone"
    <3>1. ~Announced(n, s) /\ Measured(n, 1) = metrics  BY <2>9 DEF Announced, Measured
    <3>2. /\ turns' = [turns EXCEPT ![n].at = "over"] /\ metrics' = metrics
          /\ turns[n].at # "again"
      BY <2>1, <2>7, <2>9, <3>1 DEF Recorded
    <3>3. \E q \in SessionIds \cup {NoSession}, c \in Nat : convs' = Updated(i, q, c)
      <4> DEFINE c == 1
      <4>1. c \in Nat /\ convs' = Updated(i, p, c)  BY <2>7
      <4> HIDE DEF c, p
      <4> QED  BY <2>5, <4>1
    <3> HIDE DEF s, p
    <3> QED  BY <3>2, <3>3, SharesRest
  <2> QED  BY <2>8, <2>9
<1>2. CASE AnswerFails(n)
  <2> DEFINE i == turns[n].conv
             p == Pointer(n, NoSession)
  <2>1. Settle(n, NoSession, 0)  BY <1>2 DEF AnswerFails
  <2>2. Reports(n, NoSession)  BY DEF Reports
  <2>3. ~Clashes(i, p) /\ p = NoSession  BY <2>2, NoClash DEF Pointer
  <2>4. ~Announced(n, NoSession)  BY DEF Announced
  <2>5. /\ convs' = Updated(i, NoSession, 0) /\ turns' = [turns EXCEPT ![n].at = "failed"]
        /\ metrics' = Measured(n, 0)
    BY <2>1, <2>3, <2>4 DEF Settle
  <2>6. Measured(n, 0) = metrics
    <3>1. CASE turns[n].kind = "alone"  BY <3>1 DEF Measured
    <3>2. CASE turns[n].kind # "alone"
      <4>1. turns[n].agent \in Agents /\ metrics \in [Agents -> Nat]
        BY <3>2 DEF Shares, Placed
      <4>2. metrics[turns[n].agent] + 0 = metrics[turns[n].agent]  BY <4>1
      <4> QED  BY <3>2, <4>1, <4>2 DEF Measured
    <3> QED  BY <3>1, <3>2
  <2>7. \E q \in SessionIds \cup {NoSession}, c \in Nat : convs' = Updated(i, q, c)
    <3> DEFINE c == 0
    <3>1. c \in Nat /\ convs' = Updated(i, NoSession, c)  BY <2>5
    <3> HIDE DEF c
    <3> QED  BY <3>1
  <2>8. turns[n].at # "again"  BY <1>2 DEF AnswerFails
  <2> QED  BY <2>5, <2>6, <2>7, <2>8, SharesRest
<1>3. CASE Measure(n)
  <2>1. /\ turns[n].at = "told" /\ convs' = convs /\ metrics' = Measured(n, 1)
        /\ turns' = [turns EXCEPT ![n].at = Recorded(n)] /\ Recorded(n) \in {"over", "due"}
    BY <1>3 DEF Measure, Recorded
  <2>2. CASE turns[n].kind # "alone"  BY <2>1, <2>2, SharesMeasured
  <2>3. CASE turns[n].kind = "alone"
    <3>1. metrics' = metrics  BY <2>1, <2>3 DEF Measured
    <3> QED  BY <2>1, <3>1, SharesRest
  <2> QED  BY <2>2, <2>3
<1>4. CASE Abandon(n)
  <2>1. /\ convs' = convs /\ turns' = [turns EXCEPT ![n].at = "lost"] /\ metrics' = metrics
        /\ turns[n].at # "again"
    BY <1>4 DEF Abandon
  <2> QED  BY <2>1, SharesRest
<1>5. CASE BeatReturns(n)
  <2>1. turns[n].at = "due" /\ convs' = convs  BY <1>5 DEF BeatReturns
  <2>2. CASE turns' = [turns EXCEPT ![n].at = "over"] /\ metrics' = metrics
    BY <2>1, <2>2, SharesRest
  <2>3. CASE turns' = [turns EXCEPT ![n].at = "again"] /\ metrics' = Measured(n, 1)
    <3>1. CASE turns[n].kind # "alone"  BY <2>1, <2>3, <3>1, SharesMeasured
    <3>2. CASE turns[n].kind = "alone"
      <4>1. metrics' = metrics  BY <2>3, <3>2 DEF Measured
      <4> QED  BY <2>1, <2>3, <4>1, SharesRest
    <3> QED  BY <3>1, <3>2
  <2> QED  BY <1>5, <2>2, <2>3 DEF BeatReturns
<1> QED  BY <1>1, <1>2, <1>3, <1>4, <1>5

\* The commands, the clock, and a crash.
LEMMA SharesElse ==
  ASSUME IInv, IInv', Shares, (\E u \in Users : Forget(u) \/ Peek(u)) \/ Cleanup \/ Hour \/ Crash
  PROVE  Shares'
<1>0. /\ convs \in Seq(Rows) /\ convs' \in Seq(Rows) /\ turns \in Seq(TurnRecords) /\ Types
      /\ turns' \in Seq(TurnRecords)
      /\ Placed(convs, turns) /\ Single(convs) /\ Owned(convs, turns) /\ now \in Nat
      /\ DOMAIN turns \subseteq Nat
  BY DEF IInv, Types, Shares
<1>1. metrics' = metrics  BY DEF Forget, Peek, Cleanup, Hour, Crash
<1>2. /\ DOMAIN convs \subseteq DOMAIN convs'
      /\ \A j \in DOMAIN convs : convs'[j].uid = convs[j].uid /\ convs'[j].cost = convs[j].cost
  <2>1. ASSUME NEW R, convs' = Archived(R)
        PROVE  /\ DOMAIN convs \subseteq DOMAIN convs'
               /\ \A j \in DOMAIN convs :
                    convs'[j].uid = convs[j].uid /\ convs'[j].cost = convs[j].cost
    BY <1>0, <2>1, ArchivedIs DEF Narrowed
  <2>2. ASSUME NEW u \in Users, Forget(u) PROVE \E R : convs' = Archived(R)
    BY <2>2 DEF Forget
  <2>3. ASSUME Cleanup PROVE \E R : convs' = Archived(R)  BY <2>3 DEF Cleanup
  <2>4. ASSUME NEW u \in Users, Peek(u)
        PROVE  /\ DOMAIN convs \subseteq DOMAIN convs'
               /\ \A j \in DOMAIN convs :
                    convs'[j].uid = convs[j].uid /\ convs'[j].cost = convs[j].cost
    <3>1. convs' = GetOrCreate(convs, <<u>>, NoSession)  BY <2>4 DEF Peek
    <3>2. Askable(convs, NoSession) /\ <<u>> \in UserIds  BY UserIdsAre DEF Askable
    <3>3. DOMAIN convs \subseteq DOMAIN convs' /\ \A j \in DOMAIN convs : convs'[j] = convs[j]
      BY <1>0, <3>1, <3>2, Kept
    <3> QED  BY <3>3
  <2>5. CASE Hour \/ Crash  BY <2>5 DEF Hour, Crash
  <2> QED  BY <2>1, <2>2, <2>3, <2>4, <2>5
<1>3. \A j \in DOMAIN convs : convs[j].cost <= convs'[j].cost
  <2>1. \A j \in DOMAIN convs : convs[j].cost \in Nat  BY <1>0, CostsAre
  <2> QED  BY <1>2, <2>1
<1>4. /\ DOMAIN turns' = DOMAIN turns
      /\ \A n \in DOMAIN turns :
           /\ turns'[n].conv = turns[n].conv /\ turns'[n].agent = turns[n].agent
           /\ turns'[n].kind = turns[n].kind
           /\ turns'[n].at = "told" => turns[n].at = "told"
           /\ turns[n].at = "again" => turns'[n].at = "again"
  <2>1. CASE Crash
    <3> SUFFICES ASSUME NEW n \in DOMAIN turns
                 PROVE  /\ turns'[n].conv = turns[n].conv /\ turns'[n].agent = turns[n].agent
                        /\ turns'[n].kind = turns[n].kind
                        /\ turns'[n].at = "told" => turns[n].at = "told"
                        /\ turns[n].at = "again" => turns'[n].at = "again"
      BY <2>1 DEF Crash
    <3> DEFINE r == [turns[n] EXCEPT !.at = "lost"]
               q == [turns[n] EXCEPT !.at = "over"]
    <3>1. turns[n] \in TurnRecords  BY <1>0
    <3>2. /\ r.conv = turns[n].conv /\ r.agent = turns[n].agent /\ r.kind = turns[n].kind
          /\ r.at = "lost"
          /\ q.conv = turns[n].conv /\ q.agent = turns[n].agent /\ q.kind = turns[n].kind
          /\ q.at = "over"
      BY <3>1 DEF TurnRecords
    <3>3. \/ turns[n].at # "again" /\ (turns'[n] = r \/ turns'[n] = q)
          \/ turns'[n] = turns[n]
      BY <2>1 DEF Crash
    <3> HIDE DEF r, q
    <3> QED  BY <3>2, <3>3
  <2>2. CASE ~Crash  BY <2>2 DEF Forget, Peek, Cleanup, Hour
  <2> QED  BY <2>1, <2>2
<1>5. \A a \in Agents : /\ Owed(turns', a) \subseteq Owed(turns, a)
                        /\ Doubled(turns, a) \subseteq Doubled(turns', a)
  BY <1>4 DEF Owed, Doubled
<1>6. Placed(convs', turns')  BY <1>0, <1>2, <1>4 DEF Placed, Mine
<1> QED  BY <1>0, <1>1, <1>2, <1>3, <1>5, <1>6, SharesStay

\* The shares are covered from the first state on.
LEMMA SharesStart == Init => Shares
<1> SUFFICES ASSUME Init PROVE Shares  OBVIOUS
<1>1. convs = <<>> /\ turns = <<>> /\ metrics = [a \in Agents |-> 0]  BY DEF Init
<1>2. DOMAIN turns = {}  BY <1>1
<1>3. Placed(convs, turns)  BY <1>2 DEF Placed
<1>4. \A a \in Agents : Cardinality(Owed(turns, a)) = 0 /\ Cardinality(Doubled(turns, a)) = 0
  <2>1. \A a \in Agents : Owed(turns, a) = {} /\ Doubled(turns, a) = {}
    BY <1>2 DEF Owed, Doubled
  <2> QED  BY <2>1, FS_EmptySet
<1>5. \A a \in Agents : CostIn(convs, Mine(convs, a)) \in Nat
  <2>1. convs \in Seq(Rows)  BY <1>1
  <2> QED  BY <2>1, CostsAre DEF Mine
<1>6. Covered(metrics, convs, turns)
  <2> SUFFICES ASSUME NEW a \in Agents
               PROVE  metrics[a] + Cardinality(Owed(turns, a))
                        <= CostIn(convs, Mine(convs, a)) + Cardinality(Doubled(turns, a))
    BY DEF Covered
  <2>1. metrics[a] = 0  BY <1>1
  <2> QED  BY <1>4, <1>5, <2>1
<1> QED  BY <1>1, <1>3, <1>6 DEF Shares

\* They stay covered in every step.
LEMMA SharesInductive ==
  ASSUME "named" \notin Env
  PROVE  IInv /\ IInv' /\ Shares /\ [Next]_vars => Shares'
<1> SUFFICES ASSUME IInv, IInv', Shares, [Next]_vars PROVE Shares'  OBVIOUS
<1>1. CASE \/ \E u \in Users, a \in Agents : Ask(u, a) \/ \E t \in Tasks : Spawn(u, a, t)
           \/ \E f, a \in Agents : Delegate(f, a)
           \/ \E u \in Users : AskAlone(u)
           \/ \E a \in Agents : Beat(a)
  BY <1>1, SharesAsked
<1>2. CASE \E n \in DOMAIN turns : \/ \E b \in Backends : Answer(n, b)
                                   \/ AnswerFails(n) \/ Measure(n) \/ BeatReturns(n)
                                   \/ Abandon(n)
  BY <1>2, SharesEnded
<1>3. CASE (\E u \in Users : Forget(u) \/ Peek(u)) \/ Cleanup \/ Hour \/ Crash
  BY <1>3, SharesElse
<1>4. CASE UNCHANGED vars
  BY <1>4 DEF vars, Shares, Placed, Covered, Mine, Owed, Doubled, CostIn
<1> QED  BY <1>1, <1>2, <1>3, <1>4 DEF Next

\* What the snapshot shows for an agent its conversations have cost, but for the
\* heartbeats that are in the metrics twice.
LEMMA ShareIsCovered ==
  ASSUME IInv, Shares, NEW a \in Agents
  PROVE  /\ ByAgent(a) \in Nat
         /\ ByAgent(a) <= CostIn(convs, Mine(convs, a)) + Cardinality(Doubled(turns, a))
<1>0. convs \in Seq(Rows) /\ turns \in Seq(TurnRecords) /\ metrics[a] \in Nat
  BY DEF IInv, Types, Shares
<1>1. CostIn(convs, Mine(convs, a)) \in Nat /\ Cardinality(Doubled(turns, a)) \in Nat
  <2>1. CostIn(convs, Mine(convs, a)) \in Nat  BY <1>0, CostsAre DEF Mine
  <2> QED  BY <1>0, <2>1, OwedIsFinite
<1>2. CASE Measures(a)
  <2>1. Cardinality(Owed(turns, a)) \in Nat  BY <1>0, OwedIsFinite
  <2>2. metrics[a] + Cardinality(Owed(turns, a))
          <= CostIn(convs, Mine(convs, a)) + Cardinality(Doubled(turns, a))
    BY DEF Shares, Covered
  <2>3. metrics[a] <= CostIn(convs, Mine(convs, a)) + Cardinality(Doubled(turns, a))
    BY <1>0, <1>1, <2>1, <2>2
  <2> QED  BY <1>0, <1>2, <2>3 DEF ByAgent
<1>3. CASE ~Measures(a) /\ ChatIds(a) = {}
  <2>1. ByAgent(a) = 0  BY <1>3 DEF ByAgent
  <2> QED  BY <1>1, <2>1
<1>4. CASE ~Measures(a) /\ ChatIds(a) # {}
  <2> DEFINE uid == CHOOSE v \in ChatIds(a) : TRUE
             R == {i \in DOMAIN convs : convs[i].uid = uid}
  <2>1. uid \in ChatIds(a)  BY <1>4
  <2>2. R \in SUBSET Mine(convs, a) /\ Mine(convs, a) \in SUBSET DOMAIN convs
    BY <2>1 DEF ChatIds, Mine
  <2>3. ByAgent(a) = CostIn(convs, R)  BY <1>4 DEF ByAgent, CostOf, Cost, CostIn
  <2> HIDE DEF R
  <2>4. CostIn(convs, R) \in Nat /\ CostIn(convs, R) <= CostIn(convs, Mine(convs, a))
    BY <1>0, <2>2, CostsAre
  <2> QED  BY <1>1, <2>3, <2>4
<1> QED  BY <1>2, <1>3, <1>4

-----------------------------------------------------------------------------
(***************************************************************************)
(* The results.                                                            *)
(***************************************************************************)

\* A user and an agent have at most one open conversation.
THEOREM OneThread == Spec => []OneOpenThread
<1>1. ASSUME IInv PROVE OneOpenThread
  <2> SUFFICES ASSUME NEW uid PROVE Cardinality(Open(convs, uid)) <= 1
    BY DEF OneOpenThread
  <2>1. CASE Open(convs, uid) = {}  BY <2>1, FS_EmptySet
  <2>2. CASE Open(convs, uid) # {}
    <3>1. PICK i \in Open(convs, uid) : TRUE  BY <2>2
    <3>2. \A j \in Open(convs, uid) : j = i  BY <1>1, <3>1 DEF IInv, Single, Open
    <3>3. Open(convs, uid) = {i}  BY <3>1, <3>2
    <3>4. Cardinality({i}) = 1  BY FS_Singleton
    <3> QED  BY <3>3, <3>4
  <2> QED  BY <2>1, <2>2
<1> QED  BY <1>1, Invariance, PTL

\* The unique index refuses no answer.
THEOREM NoAnswerIsRefused == Spec => []PointersStayUnique
<1>1. IInv => PointersStayUnique  BY DEF IInv, Resumed, PointersStayUnique
<1> QED  BY <1>1, Invariance, PTL

\* A chat shows up under the agent that answers it, provided no agent is called
\* "spawn".
THEOREM ChatsAreCredited ==
  ASSUME "spawn" \notin Agents
  PROVE  Spec => []CreditedToItsAgent
<1>1. ASSUME IInv PROVE CreditedToItsAgent
  <2> SUFFICES ASSUME NEW n \in DOMAIN turns, turns[n].kind = "chat", ~turns[n].named
               PROVE  Attributed(convs[turns[n].conv].uid) = turns[n].agent
    BY DEF CreditedToItsAgent
  <2> DEFINE uid == convs[turns[n].conv].uid
             a == turns[n].agent
  <2>1. (\E u \in Users : uid = <<u, a>>) \/ (\E f \in Agents : uid = <<"agent", f, a>>)
    BY <1>1 DEF IInv, Chats
  <2> HIDE DEF uid, a
  <2>2. ASSUME \E u \in Users : uid = <<u, a>> PROVE Attributed(uid) = a
    <3>1. SpawnAt(uid) = {}  BY <2>2 DEF SpawnAt
    <3>2. Len(uid) > 1 /\ Last(uid) = a  BY <2>2 DEF Last
    <3> QED  BY <3>1, <3>2 DEF Attributed
  <2>3. ASSUME \E f \in Agents : uid = <<"agent", f, a>> PROVE Attributed(uid) = a
    <3>1. SpawnAt(uid) = {}  BY <2>3 DEF SpawnAt
    <3>2. Len(uid) > 1 /\ Last(uid) = a  BY <2>3 DEF Last
    <3> QED  BY <3>1, <3>2 DEF Attributed
  <2>4. Attributed(uid) = a  BY <2>1, <2>2, <2>3
  <2> QED  BY <2>4 DEF uid, a
<1> QED  BY <1>1, Invariance, PTL

\* The day of an hour holds it.
LEMMA DayIs ==
  ASSUME NEW h \in Int
  PROVE  Day(h) \in Int /\ DayHours * Day(h) <= h /\ h < DayHours * Day(h) + DayHours
BY ConversationsAssumption DEF Day

\* What is before a day began is a while before the hour, and what is not before
\* it is not a day older.
LEMMA BeforeIs ==
  ASSUME NEW h \in Int, NEW g \in Int
  PROVE  IF Before(h, g) THEN h < g ELSE h > g - DayHours
<1>1. DayHours \in Nat \ {0}  BY ConversationsAssumption
<1>2. /\ Day(h) \in Int /\ DayHours * Day(h) <= h /\ h < DayHours * Day(h) + DayHours
      /\ Day(g) \in Int /\ DayHours * Day(g) <= g /\ g < DayHours * Day(g) + DayHours
  BY DayIs
<1>3. \A m, k \in Int : m <= k => DayHours * m <= DayHours * k  BY <1>1
<1>4. CASE Day(h) < Day(g)
  <2>1. Day(h) + 1 <= Day(g)  BY <1>2, <1>4
  <2>2. DayHours * (Day(h) + 1) <= DayHours * Day(g)  BY <1>2, <1>3, <2>1
  <2>3. DayHours * (Day(h) + 1) = DayHours * Day(h) + DayHours  BY <1>1, <1>2
  <2> QED  BY <1>1, <1>2, <1>4, <2>2, <2>3 DEF Before
<1>5. CASE ~(Day(h) < Day(g))
  <2>1. DayHours * Day(g) <= DayHours * Day(h)  BY <1>2, <1>3, <1>5
  <2> QED  BY <1>1, <1>2, <1>5, <2>1 DEF Before
<1> QED  BY <1>4, <1>5

\* An expiry takes what was idle for the configured age, and leaves nothing that
\* was idle for a day more.
THEOREM ExpiryIsExact == Spec => ExpiryInWindow
<1>1. ASSUME IInv, Cleanup, NEW i \in DOMAIN convs, convs[i].status = "active"
      PROVE  IF convs'[i].status = "archived" THEN now - convs[i].last > MaxAge
             ELSE now - convs[i].last < MaxAge + DayHours
  <2>1. convs \in Seq(Rows) /\ convs[i] \in Rows /\ now \in Nat
    BY <1>1 DEF IInv, Types
  <2>2. convs[i].last \in Int /\ MaxAge \in Nat /\ DayHours \in Nat /\ now - MaxAge \in Int
    BY <2>1, ConversationsAssumption DEF Rows
  <2> DEFINE R == {k \in DOMAIN convs : Before(convs[k].last, now - MaxAge)}
  <2>3. convs'[i].status = IF i \in R THEN "archived" ELSE "active"
    BY <1>1, <2>1, ArchivedIs DEF Cleanup
  <2>4. IF Before(convs[i].last, now - MaxAge)
        THEN convs[i].last < now - MaxAge ELSE convs[i].last > (now - MaxAge) - DayHours
    BY <2>2, BeforeIs
  <2> QED  BY <1>1, <2>1, <2>2, <2>3, <2>4
<1>2. IInv /\ [Next]_vars =>
        [Cleanup => \A i \in DOMAIN convs :
                      convs[i].status = "active" =>
                        IF convs'[i].status = "archived" THEN now - convs[i].last > MaxAge
                        ELSE now - convs[i].last < MaxAge + DayHours]_vars
  BY <1>1
<1> QED  BY <1>2, Invariance, PTL DEF Spec, ExpiryInWindow

\* The agents' shares of the cost snapshot exceed its total by no more than the
\* heartbeats whose cost is recorded twice, while no client names a session: each
\* share is covered by what the agent's own conversations have cost and its doubled
\* heartbeats, and no two agents have a conversation or a heartbeat in common.
THEOREM SharesWithinTotal ==
  ASSUME IsFiniteSet(Agents), "named" \notin Env
  PROVE  Spec => []SnapshotWithinTotal
<1>1. ASSUME IInv, Shares PROVE SnapshotWithinTotal
  <2> DEFINE f == [i \in DOMAIN convs |-> convs[i].cost]
             one == [n \in RecordedAgain |-> 1]
             g == [a \in Agents |-> ByAgent(a)]
             cost == [a \in Agents |-> CostIn(convs, Mine(convs, a))]
             twice == [a \in Agents |-> Cardinality(Doubled(turns, a))]
             both == [a \in Agents |-> cost[a] + twice[a]]
             part == [a \in Agents |-> Mine(convs, a)]
             again == [a \in Agents |-> Doubled(turns, a)]
             U == DOMAIN convs
  <2>0. convs \in Seq(Rows) /\ turns \in Seq(TurnRecords) /\ metrics \in [Agents -> Nat]
    BY <1>1 DEF IInv, Types, Shares
  <2>1. IsFiniteSet(U) /\ \A i \in U : f[i] \in Nat  BY <2>0, CostsAre
  <2>2. part \in [Agents -> SUBSET U] /\ \A a, b \in Agents : a # b => part[a] \cap part[b] = {}
    BY DEF Mine
  <2>3. \A a \in Agents : cost[a] \in Nat /\ cost[a] <= SumFunctionOnSet(f, part[a])
    <3> SUFFICES ASSUME NEW a \in Agents
                 PROVE  cost[a] \in Nat /\ cost[a] <= SumFunctionOnSet(f, part[a])
      OBVIOUS
    <3>1. cost[a] = CostIn(convs, Mine(convs, a)) /\ SumFunctionOnSet(f, part[a]) = cost[a]
      BY DEF CostIn
    <3>2. CostIn(convs, Mine(convs, a)) \in Nat  BY <2>0, CostsAre DEF Mine
    <3> HIDE DEF f, cost, part
    <3> QED  BY <3>1, <3>2
  <2>4. IsFiniteSet(RecordedAgain) /\ \A n \in RecordedAgain : one[n] = 1 /\ one[n] \in Nat
    <3>1. IsFiniteSet(DOMAIN turns)
      <4>1. Len(turns) \in Int /\ DOMAIN turns = 1..Len(turns)  BY <2>0
      <4> QED  BY <4>1, FS_Interval
    <3> QED  BY <3>1, FS_Subset DEF RecordedAgain
  <2>5. /\ again \in [Agents -> SUBSET RecordedAgain]
        /\ \A a, b \in Agents : a # b => again[a] \cap again[b] = {}
    BY DEF Doubled, RecordedAgain
  <2>6. \A a \in Agents : twice[a] \in Nat /\ twice[a] <= SumFunctionOnSet(one, again[a])
    <3> SUFFICES ASSUME NEW a \in Agents
                 PROVE  twice[a] \in Nat /\ twice[a] <= SumFunctionOnSet(one, again[a])
      OBVIOUS
    <3>1. twice[a] = Cardinality(again[a]) /\ again[a] \in SUBSET RecordedAgain  BY <2>5
    <3>2. twice[a] \in Nat  BY <2>0, OwedIsFinite
    <3> HIDE DEF one, twice, again
    <3>3. SumFunctionOnSet(one, again[a]) = Cardinality(again[a])  BY <2>4, <3>1, SumOfOnes
    <3> QED  BY <3>1, <3>2, <3>3
  <2>7. \A a \in Agents : g[a] \in Nat /\ both[a] = cost[a] + twice[a] /\ g[a] <= both[a]
    <3> SUFFICES ASSUME NEW a \in Agents
                 PROVE  g[a] \in Nat /\ both[a] = cost[a] + twice[a] /\ g[a] <= both[a]
      OBVIOUS
    <3>1. /\ g[a] = ByAgent(a) /\ both[a] = cost[a] + twice[a]
          /\ both[a] = CostIn(convs, Mine(convs, a)) + Cardinality(Doubled(turns, a))
      OBVIOUS
    <3> HIDE DEF g, both, cost, twice
    <3> QED  BY <1>1, <3>1, ShareIsCovered
  <2>8. ConversationTotal = SumFunctionOnSet(f, U)  BY DEF ConversationTotal, Cost
  <2>9. MetricsTotal \in Nat  BY <2>0, SumIsNat DEF MetricsTotal
  <2> HIDE DEF f, one, g, cost, twice, both, part, again, U
  <2>10. SumFunctionOnSet(cost, Agents) <= SumFunctionOnSet(f, U)
    BY <2>1, <2>2, <2>3, SumOfShares
  <2>11. SumFunctionOnSet(twice, Agents) <= Cardinality(RecordedAgain)
    <3>1. SumFunctionOnSet(twice, Agents) <= SumFunctionOnSet(one, RecordedAgain)
      BY <2>4, <2>5, <2>6, SumOfShares
    <3>2. SumFunctionOnSet(one, RecordedAgain) = Cardinality(RecordedAgain)
      BY <2>4, SumOfOnes
    <3> QED  BY <3>1, <3>2
  <2>12. SumFunctionOnSet(g, Agents)
           <= SumFunctionOnSet(cost, Agents) + SumFunctionOnSet(twice, Agents)
    <3>1. \A a \in Agents : both[a] \in Nat  BY <2>3, <2>6, <2>7
    <3>2. SumFunctionOnSet(g, Agents) <= SumFunctionOnSet(both, Agents)
      BY <2>7, <3>1, SumGrows
    <3>3. SumFunctionOnSet(both, Agents) =
            SumFunctionOnSet(cost, Agents) + SumFunctionOnSet(twice, Agents)
      BY <2>3, <2>6, <2>7, SumOfSums
    <3> QED  BY <3>2, <3>3
  <2>13. /\ SumFunctionOnSet(f, U) \in Nat /\ SumFunctionOnSet(g, Agents) \in Nat
         /\ SumFunctionOnSet(cost, Agents) \in Nat /\ SumFunctionOnSet(twice, Agents) \in Nat
         /\ Cardinality(RecordedAgain) \in Nat
    BY <2>1, <2>3, <2>4, <2>6, <2>7, SumIsNat, FS_CardinalityType
  <2>14. ConversationTotal <= Total /\ Total \in Nat
    <3>1. ConversationTotal \in Nat  BY <2>8, <2>13
    <3> DEFINE x == ConversationTotal
               y == MetricsTotal
    <3>2. x \in Nat /\ y \in Nat /\ Total = CHOOSE m \in {x, y} : \A k \in {x, y} : m >= k
      BY <2>9, <3>1 DEF Total, Max
    <3> HIDE DEF x, y
    <3>3. \E m \in {x, y} : \A k \in {x, y} : m >= k  BY <3>2
    <3>4. Total \in {x, y} /\ \A k \in {x, y} : Total >= k  BY <3>2, <3>3
    <3>5. x <= Total /\ Total \in Nat  BY <3>2, <3>4
    <3> QED  BY <3>5 DEF x
  <2>15. SumFunctionOnSet(g, Agents) <= Total + Cardinality(RecordedAgain)
    <3>1. SumFunctionOnSet(cost, Agents) <= Total  BY <2>8, <2>10, <2>13, <2>14
    <3> QED  BY <2>11, <2>12, <2>13, <2>14, <3>1
  <2> QED  BY <2>15 DEF SnapshotWithinTotal, g
<1>2. Init => Shares  BY SharesStart
<1>3. IInv /\ IInv' /\ Shares /\ [Next]_vars => Shares'  BY SharesInductive
<1>4. IInv /\ Shares => SnapshotWithinTotal  BY <1>1
<1> QED  BY <1>2, <1>3, <1>4, Invariance, PTL DEF Spec
=============================================================================
