-------------------------- MODULE AdminStore_proofs --------------------------
(***************************************************************************)
(* Proofs about AdminStore, for any tables, callers and overlapping        *)
(* requests.                                                               *)
(*                                                                         *)
(* Two inductive invariants, the second on top of the first.  IInv: types, *)
(* and what the plan of each request may still save or delete; no commit   *)
(* deletes a tenant, and a deleted row comes back only through a request   *)
(* that the deletion has overtaken.  Whole: where every version of a row   *)
(* comes from (Lineage), that transactions which wait for each other's     *)
(* locks can be committed in any order (Constraints), and that each        *)
(* request keeps within its caller's rights and, until it is overtaken,    *)
(* within what it has read (Conduct).                                      *)
(***************************************************************************)
EXTENDS AdminStore, SequenceTheorems, TLAPS

RowsOf(k) == [parent : Names \cup {Nobody}, key : Keys, cols : ColumnsOf(k)]

\* Every committed row has the columns of its table.
Tables == \A i \in Ids : db[i] = Absent \/ db[i] \in RowsOf(i[1])

\* The variables TypeOK looks into are functions on the requests.
Entries ==
    /\ audit = [q \in Requests |-> audit[q]] /\ at = [q \in Requests |-> at[q]]
    /\ call = [q \in Requests |-> call[q]] /\ seen = [q \in Requests |-> seen[q]]
    /\ todo = [q \in Requests |-> todo[q]] /\ fetched = [q \in Requests |-> fetched[q]]
    /\ pending = [q \in Requests |-> pending[q]] /\ logged = [q \in Requests |-> logged[q]]
    /\ forgot = [q \in Requests |-> forgot[q]] /\ overtaken = [q \in Requests |-> overtaken[q]]
    /\ answer = [q \in Requests |-> answer[q]]

\* Ids of the rows that request r may save: its own, those that are there,
\* and those that another commit has touched since it began.
Backed(r) == {i \in Ids : i[2] = r \/ db[i] # Absent \/ i \in overtaken[r]}

Statement ==
    [do : {"save"}, id : Ids, row : Row]
      \cup [do : {"delete"}, id : Ids]
      \cup [do : {"anonymize"}, column : {"actor", "resource"}, id : Ids]
      \cup [do : {"audit"}, tenant : Names \cup {Nobody}, id : Ids, by : Names \cup {Nobody}]

\* Any statement but the deletion of a tenant.
StmtOK(r, s) ==
    /\ s \in Statement
    /\ s.do = "save" => s.id \in Backed(r) /\ s.row \in RowsOf(s.id[1])
    /\ s.do = "delete" => s.id[1] # "tenant"

Good(r, t) == t \in Seq(Statement) /\ \A k \in 1 .. Len(t) : StmtOK(r, t[k])

DeletesTenant(n, by) == <<Delete("tenant", n), Audit(n, "tenant", n, by)>>

PlanFor(r, t) == Good(r, t) \/ \E n \in Names, by \in Claims : t = DeletesTenant(n, by)

\* The open transaction has deleted tenant n.
Doomed(r, n) == <<"tenant", n>> \in DOMAIN pending[r] /\ pending[r][<<"tenant", n>>] = Absent

\* Who deletes a tenant does nothing else, and still has to log it.
Plan(r) ==
    \/ Good(r, todo[r]) /\ \A n \in Names : ~Doomed(r, n)
    \/ /\ at[r] = "open" /\ DOMAIN pending[r] = {}
       /\ \E n \in Names, by \in Claims : todo[r] = DeletesTenant(n, by)
    \/ /\ at[r] = "open"
       /\ \E n \in Names, by \in Claims : Doomed(r, n) /\ todo[r] = <<Audit(n, "tenant", n, by)>>

Course(r) ==
    /\ at[r] \in {"idle", "done"} => todo[r] = <<>>
    /\ at[r] \in {"idle", "looked", "done"} => DOMAIN pending[r] = {}
    /\ at[r] \in {"looked", "open", "fetched"} => call[r] \in Calls
    /\ at[r] = "looked" /\ call[r].op = "UpdateTenant" => <<"tenant", call[r].on>> \in Backed(r)
    /\ at[r] = "looked" /\ call[r].op \in {"UpsertPolicy", "UpsertDomainPolicy"} => seen[r] \in Row
    /\ at[r] = "fetched" => todo[r] # <<>> /\ Head(todo[r]).do = "save"
    /\ \A i \in DOMAIN pending[r] :
          pending[r][i] = Absent \/ (i \in Backed(r) /\ pending[r][i] \in RowsOf(i[1]))
    /\ logged[r] \in Logs \cup {Absent}
    /\ Plan(r)

IInv == TypeOK /\ Tables /\ Entries /\ \A r \in Requests : Course(r)

-----------------------------------------------------------------------------
\* The rows of a table are rows, and none of them is an absence.
LEMMA RowTypes ==
    ASSUME NEW k
    PROVE  RowsOf(k) \in SUBSET Row /\ Absent \notin RowsOf(k)
BY NamesAssumption DEF RowsOf, Row, ColumnsOf, Columns

\* The four statements.
LEMMA Statements ==
    ASSUME NEW r, NEW k \in Kinds, NEW n \in Names
    PROVE  /\ \A w \in RowsOf(k) : <<k, n>> \in Backed(r) => StmtOK(r, Save(k, n, w))
           /\ k # "tenant" => StmtOK(r, Delete(k, n))
           /\ \A t \in Names \cup {Nobody}, by \in Claims : StmtOK(r, Audit(t, k, n, by))
           /\ k = "user" => \A col \in {"actor", "resource"} : StmtOK(r, Anonymize(col, n))
<1>0. <<k, n>> \in Ids BY DEF Ids
<1>1. ASSUME NEW w \in RowsOf(k), <<k, n>> \in Backed(r) PROVE StmtOK(r, Save(k, n, w))
  BY <1>0, <1>1, RowTypes DEF StmtOK, Statement, Save
<1>2. ASSUME k # "tenant" PROVE StmtOK(r, Delete(k, n))
  BY <1>0, <1>2 DEF StmtOK, Statement, Delete
<1>3. ASSUME NEW t \in Names \cup {Nobody}, NEW by \in Claims PROVE StmtOK(r, Audit(t, k, n, by))
  BY <1>0 DEF StmtOK, Statement, Audit, Claims
<1>4. ASSUME k = "user", NEW col \in {"actor", "resource"} PROVE StmtOK(r, Anonymize(col, n))
  BY <1>0, <1>4 DEF StmtOK, Statement, Anonymize
<1>5. QED BY <1>1, <1>2, <1>3, <1>4

\* Sequences of them.
LEMMA Sequences1to4 ==
    ASSUME NEW r, NEW a, NEW b, NEW c, NEW d, StmtOK(r, a)
    PROVE  /\ Good(r, <<a>>)
           /\ StmtOK(r, b) => Good(r, <<a, b>>)
           /\ StmtOK(r, b) /\ StmtOK(r, c) /\ StmtOK(r, d) => Good(r, <<a, b, c, d>>)
<1>1. Good(r, <<a>>) BY DEF Good, StmtOK
<1>2. ASSUME StmtOK(r, b) PROVE Good(r, <<a, b>>)
  <2>1. <<a, b>> \in Seq(Statement) /\ Len(<<a, b>>) = 2 BY <1>2 DEF StmtOK
  <2>2. \A k \in 1 .. 2 : k = 1 \/ k = 2 OBVIOUS
  <2>3. QED BY <1>2, <2>1, <2>2 DEF Good
<1>3. ASSUME StmtOK(r, b), StmtOK(r, c), StmtOK(r, d) PROVE Good(r, <<a, b, c, d>>)
  <2>1. <<a, b, c, d>> \in Seq(Statement) /\ Len(<<a, b, c, d>>) = 4 BY <1>3 DEF StmtOK
  <2>2. \A k \in 1 .. 4 : k = 1 \/ k = 2 \/ k = 3 \/ k = 4 OBVIOUS
  <2>3. QED BY <1>3, <2>1, <2>2 DEF Good
<1>4. QED BY <1>1, <1>2, <1>3

\* What is left of good statements is good.
LEMMA TailGood ==
    ASSUME NEW r, NEW t, Good(r, t), t # <<>>
    PROVE  Good(r, Tail(t)) /\ StmtOK(r, Head(t))
<1>1. Tail(t) \in Seq(Statement) /\ Len(t) \in Nat /\ Len(Tail(t)) = Len(t) - 1 /\ Len(t) > 0
      /\ \A k \in 1 .. Len(Tail(t)) : Tail(t)[k] = t[k + 1]
  BY HeadTailProperties, LenProperties, EmptySeq DEF Good
<1>2. \A k \in 1 .. Len(Tail(t)) : k + 1 \in 1 .. Len(t) BY <1>1
<1>3. Head(t) = t[1] /\ 1 \in 1 .. Len(t) BY <1>1 DEF Good
<1>4. QED BY <1>1, <1>2, <1>3 DEF Good

LEMMA NothingGood == \A r : Good(r, <<>>)
BY EmptySeq DEF Good

-----------------------------------------------------------------------------
LEMMA InitInv == Init => IInv
<1> SUFFICES ASSUME Init PROVE IInv
  OBVIOUS
<1>1. Tables
  BY SeededAssumption DEF Init, Tables, RowsOf, Row
<1>2. TypeOK
  BY SeededAssumption DEF Init, TypeOK
<1>3. Entries
  BY DEF Init, Entries
<1>4. ASSUME NEW r \in Requests PROVE Course(r)
  <2>1. todo[r] = <<>> /\ DOMAIN pending[r] = {} /\ at[r] = "idle" /\ logged[r] = Absent
    BY DEF Init
  <2>2. Plan(r)
    BY <2>1, NothingGood DEF Plan, Doomed
  <2>3. QED BY <2>1, <2>2 DEF Course
<1>5. QED BY <1>1, <1>2, <1>3, <1>4 DEF IInv

\* A request that does nothing stays on course when no row it may save gets
\* out of its reach.
LEMMA OthersKeep ==
    ASSUME NEW q \in Requests, Course(q),
           at'[q] = at[q], call'[q] = call[q], seen'[q] = seen[q], todo'[q] = todo[q],
           pending'[q] = pending[q], logged'[q] = logged[q],
           Backed(q) \subseteq Backed(q)' \/ at[q] \in {"idle", "done"}
    PROVE  Course(q)'
<1>1. CASE at[q] \in {"idle", "done"}
  <2>1. todo[q] = <<>> /\ DOMAIN pending[q] = {} /\ logged[q] \in Logs \cup {Absent}
    BY <1>1 DEF Course
  <2>2. Good(q, <<>>)' BY EmptySeq DEF Good
  <2>3. Plan(q)' BY <2>1, <2>2 DEF Plan, Doomed
  <2>4. QED BY <1>1, <2>1, <2>3 DEF Course, Logs
<1>2. CASE Backed(q) \subseteq Backed(q)'
  <2>1. ASSUME NEW s, StmtOK(q, s) PROVE StmtOK(q, s)'
    BY <1>2, <2>1 DEF StmtOK, Statement, RowsOf
  <2>2. Good(q, todo[q]) => Good(q, todo[q])'
    BY <2>1 DEF Good
  <2>3. Plan(q)'
    BY <2>2 DEF Course, Plan, Doomed, Good
  <2>4. QED BY <1>2, <2>3 DEF Course, Logs, RowsOf
<1>3. QED BY <1>1, <1>2

\* What TypeOK says of a request.
TypeOf(r) ==
    /\ at[r] \in {"idle", "looked", "open", "fetched", "done"}
    /\ call[r] \in Calling \cup {NoCall}
    /\ seen[r] \in Row \cup {Absent}
    /\ fetched[r] \in Row \cup {Absent}
    /\ DOMAIN pending[r] \subseteq Ids
    /\ \A i \in DOMAIN pending[r] : pending[r][i] \in Row \cup {Absent}
    /\ forgot[r] \subseteq {"actor", "resource"} \X Requests
    /\ overtaken[r] \subseteq Ids \cup ({"audit"} \X Requests)
    /\ answer[r] \in {"none", "ok", "refused", "error", "unstorable", "lost"}

\* The step changes what request r has, and nothing else.
OnlyOf(r) ==
    /\ UNCHANGED store
    /\ at' = [at EXCEPT ![r] = at'[r]] /\ call' = [call EXCEPT ![r] = call'[r]]
    /\ seen' = [seen EXCEPT ![r] = seen'[r]] /\ todo' = [todo EXCEPT ![r] = todo'[r]]
    /\ fetched' = [fetched EXCEPT ![r] = fetched'[r]]
    /\ pending' = [pending EXCEPT ![r] = pending'[r]]
    /\ logged' = [logged EXCEPT ![r] = logged'[r]] /\ forgot' = [forgot EXCEPT ![r] = forgot'[r]]
    /\ overtaken' = [overtaken EXCEPT ![r] = overtaken'[r]]
    /\ answer' = [answer EXCEPT ![r] = answer'[r]]

\* A step of request r that commits nothing: what is left to show is that r
\* stays on course.
LEMMA LocalStep ==
    ASSUME IInv, NEW r \in Requests, OnlyOf(r), TypeOf(r)', Course(r)'
    PROVE  IInv'
<1>2. ASSUME NEW q \in Requests, q # r
      PROVE  /\ at'[q] = at[q] /\ call'[q] = call[q] /\ seen'[q] = seen[q] /\ todo'[q] = todo[q]
             /\ pending'[q] = pending[q] /\ logged'[q] = logged[q] /\ overtaken'[q] = overtaken[q]
             /\ fetched'[q] = fetched[q] /\ forgot'[q] = forgot[q] /\ answer'[q] = answer[q]
  BY <1>2 DEF IInv, Entries, OnlyOf
<1>3. ASSUME NEW q \in Requests, q # r PROVE Course(q)'
  <2>1. Backed(q) = Backed(q)' BY <1>2, <1>3 DEF Backed, OnlyOf, store
  <2>2. QED BY <1>2, <1>3, <2>1, OthersKeep DEF IInv
<1>4. TypeOK'
  BY <1>2 DEF IInv, TypeOK, TypeOf, OnlyOf, store
<1>5. Entries'
  BY DEF IInv, Entries, OnlyOf, store
<1>6. Tables'
  BY DEF IInv, Tables, OnlyOf, store, RowsOf
<1>7. QED BY <1>3, <1>4, <1>5, <1>6 DEF IInv

\* What a variable has for r is all that an UNCHANGED leaves there.
LEMMA Same == ASSUME IInv, NEW r \in Requests PROVE call = [call EXCEPT ![r] = call[r]]
BY DEF IInv, Entries

\* A request that is over, whatever became of it, leaves nothing behind.
LEMMA Over0 ==
    ASSUME NEW r \in Requests, at'[r] = "done", todo'[r] = <<>>, pending'[r] = <<>>,
           logged'[r] = Absent
    PROVE  Course(r)'
<1>1. DOMAIN pending'[r] = {} OBVIOUS
<1>2. Good(r, <<>>)' BY EmptySeq DEF Good
<1>3. Plan(r)' BY <1>1, <1>2 DEF Plan, Doomed
<1>4. QED BY <1>1, <1>3 DEF Course

LEMMA RollsBackKeeps ==
    ASSUME IInv, NEW r \in Requests, NEW how \in {"refused", "error", "unstorable", "lost"},
           RollsBack(r, how)
    PROVE  IInv'
<1>1. /\ at'[r] = "done" /\ todo'[r] = <<>> /\ pending'[r] = <<>> /\ logged'[r] = Absent
      /\ call'[r] = NoCall /\ seen'[r] = Absent /\ fetched'[r] = Absent /\ forgot'[r] = {}
      /\ overtaken'[r] = {} /\ answer'[r] = how
  BY DEF IInv, Entries, RollsBack, Ends
<1>2. OnlyOf(r)
  BY <1>1 DEF OnlyOf, RollsBack, Ends
<1>3. TypeOf(r)'
  BY <1>1 DEF TypeOf
<1>4. QED BY <1>1, <1>2, <1>3, LocalStep, Over0

-----------------------------------------------------------------------------
(***************************************************************************)
(* The use cases.                                                          *)
(***************************************************************************)
\* Request r has read once, and goes on with call c and an entity.
Looks(r, c, row) ==
    /\ at' = [at EXCEPT ![r] = "looked"] /\ call' = [call EXCEPT ![r] = c]
    /\ seen' = [seen EXCEPT ![r] = row]
    /\ UNCHANGED <<store, trans, todo, fetched, overtaken, answer>>

\* Request r has decided on statements t.
Opens(r, c, t) ==
    /\ at' = [at EXCEPT ![r] = "open"] /\ call' = [call EXCEPT ![r] = c]
    /\ seen' = [seen EXCEPT ![r] = Absent] /\ todo' = [todo EXCEPT ![r] = t]
    /\ UNCHANGED <<store, trans, fetched, overtaken, answer>>

\* What the second read relies on.
Remembers(r, c, row) ==
    /\ c \in Calls /\ row \in Row \cup {Absent}
    /\ c.op = "UpdateTenant" => <<"tenant", c.on>> \in Backed(r)
    /\ c.op \in {"UpsertPolicy", "UpsertDomainPolicy"} => row \in Row

LEMMA LooksKeeps ==
    ASSUME IInv, NEW r \in Requests, NEW c, NEW row, at[r] = "idle", Looks(r, c, row),
           Remembers(r, c, row)
    PROVE  IInv'
<1>1. /\ at'[r] = "looked" /\ call'[r] = c /\ seen'[r] = row /\ todo'[r] = todo[r]
      /\ pending'[r] = pending[r] /\ logged'[r] = logged[r] /\ fetched'[r] = fetched[r]
      /\ forgot'[r] = forgot[r] /\ overtaken'[r] = overtaken[r] /\ answer'[r] = answer[r]
  BY DEF IInv, Entries, Looks, trans
<1>2. OnlyOf(r)
  BY <1>1 DEF OnlyOf, Looks, trans, IInv, Entries
<1>3. TypeOf(r)'
  BY <1>1 DEF TypeOf, IInv, TypeOK, Remembers, Calls
<1>4. todo[r] = <<>> /\ DOMAIN pending[r] = {} /\ logged[r] \in Logs \cup {Absent}
  BY DEF IInv, Course
<1>5. Plan(r)'
  <2>1. Good(r, <<>>)' BY EmptySeq DEF Good
  <2>2. QED BY <1>1, <1>4, <2>1 DEF Plan, Doomed
<1>6. Backed(r)' = Backed(r) BY <1>1 DEF Backed, Looks, store
<1>7. Course(r)'
  BY <1>1, <1>4, <1>5, <1>6 DEF Course, Remembers, Logs
<1>8. QED BY <1>2, <1>3, <1>7, LocalStep

LEMMA OpensKeeps ==
    ASSUME IInv, NEW r \in Requests, NEW c \in Calls, NEW t, at[r] \in {"idle", "looked"},
           Opens(r, c, t), PlanFor(r, t)
    PROVE  IInv'
<1>1. /\ at'[r] = "open" /\ call'[r] = c /\ seen'[r] = Absent /\ todo'[r] = t
      /\ pending'[r] = pending[r] /\ logged'[r] = logged[r] /\ fetched'[r] = fetched[r]
      /\ forgot'[r] = forgot[r] /\ overtaken'[r] = overtaken[r] /\ answer'[r] = answer[r]
  BY DEF IInv, Entries, Opens, trans
<1>2. OnlyOf(r)
  BY <1>1 DEF OnlyOf, Opens, trans, IInv, Entries
<1>3. TypeOf(r)'
  BY <1>1 DEF TypeOf, IInv, TypeOK, Calls
<1>4. DOMAIN pending[r] = {} /\ logged[r] \in Logs \cup {Absent}
  BY DEF IInv, Course
<1>5. Backed(r)' = Backed(r) BY <1>1 DEF Backed, Opens, store
<1>6. Plan(r)'
  <2>1. CASE Good(r, t)
    <3>1. Good(r, t)' BY <1>5, <2>1 DEF Good, StmtOK, Statement, RowsOf
    <3>2. QED BY <1>1, <1>4, <3>1 DEF Plan, Doomed
  <2>2. CASE \E n \in Names, by \in Claims : t = DeletesTenant(n, by)
    BY <1>1, <1>4, <2>2 DEF Plan
  <2>3. QED BY <2>1, <2>2 DEF PlanFor
<1>7. Course(r)'
  BY <1>1, <1>4, <1>6 DEF Course, Logs
<1>8. QED BY <1>2, <1>3, <1>7, LocalStep

\* The reads of a use case end in one of these.
LEMMA ReadsOnceKeeps ==
    ASSUME IInv, NEW r \in Requests, NEW c \in Calls, NEW ok, NEW t, at[r] = "idle",
           ReadsOnce(r, c, ok, t), ok => PlanFor(r, t)
    PROVE  IInv'
<1>1. CASE ok
  BY <1>1, OpensKeeps DEF ReadsOnce, Decides, Opens
<1>2. CASE ~ok
  BY <1>2, RollsBackKeeps DEF ReadsOnce, Decides
<1>3. QED BY <1>1, <1>2

LEMMA ReadsFirstKeeps ==
    ASSUME IInv, NEW r \in Requests, NEW c \in Calls, NEW ok, NEW row, at[r] = "idle",
           ReadsFirst(r, c, ok, row), ok => Remembers(r, c, row)
    PROVE  IInv'
<1>1. CASE ok
  BY <1>1, LooksKeeps DEF ReadsFirst, Looks
<1>2. CASE ~ok
  BY <1>2, RollsBackKeeps DEF ReadsFirst
<1>3. QED BY <1>1, <1>2

LEMMA ReadsAgainKeeps ==
    ASSUME IInv, NEW r \in Requests, NEW op, NEW ok, NEW t,
           ReadsAgain(r, op, ok, t), ok => PlanFor(r, t)
    PROVE  IInv'
<1>1. CASE ok
  <2>1. call[r] \in Calls BY DEF IInv, Course, ReadsAgain
  <2>2. Opens(r, call[r], t)
    BY <1>1, Same DEF ReadsAgain, Decides, Opens
  <2>3. QED BY <1>1, <2>1, <2>2, OpensKeeps DEF ReadsAgain
<1>2. CASE ~ok
  BY <1>2, RollsBackKeeps DEF ReadsAgain, Decides
<1>3. QED BY <1>1, <1>2

LEMMA CallFacts ==
    ASSUME NEW c \in Calls
    PROVE  /\ c.op \notin {"CreateTenant", "Register"} => c.on \in Names
           /\ c.op \in Keyed => c.key \in Keys
           /\ c.by \in Claims
BY CallersAssumption DEF Calls, Calling, Names, Keys

\* A row that is there.
LEMMA RowFacts ==
    ASSUME IInv, NEW r, NEW k \in Kinds, NEW n \in Names, db[k, n] # Absent
    PROVE  /\ db[k, n] \in RowsOf(k) /\ db[k, n].parent \in Names \cup {Nobody}
           /\ db[k, n] \in Row
           /\ <<k, n>> \in Backed(r)
<1>1. <<k, n>> \in Ids BY DEF Ids
<1>2. db[k, n] \in RowsOf(k) BY <1>1 DEF IInv, Tables
<1>3. QED BY <1>1, <1>2, RowTypes DEF RowsOf, Backed

\* A request may save a row of its own name in every table.
LEMMA OwnRow ==
    ASSUME NEW r \in Requests, NEW k \in Kinds
    PROVE  r \in Names /\ r \in Keys /\ <<k, r>> \in Backed(r)
BY DEF Names, Keys, Ids, Backed

LEMMA RowsMade ==
    ASSUME NEW p \in Names \cup {Nobody}, NEW y \in Keys, NEW n \in Names
    PROVE  /\ NewRow(p, y, ByName(n)) \in RowsOf("tenant") \cap RowsOf("domain") \cap RowsOf("route")
           /\ \A role \in {"admin", "member"} : NewUser(n, p, y, role) \in RowsOf("user")
BY DEF NewRow, NewUser, ByName, RowsOf, ColumnsOf, Content, UserColumns

\* An audit row follows what was saved, or deleted.
LEMMA SaveAndLog ==
    ASSUME NEW r, NEW k \in Kinds, NEW n \in Names, NEW w \in RowsOf(k), <<k, n>> \in Backed(r)
    PROVE  /\ \A t \in Names \cup {Nobody}, by \in Claims :
                 PlanFor(r, <<Save(k, n, w), Audit(t, k, n, by)>>)
           /\ PlanFor(r, <<Save(k, n, w)>>)
BY Statements, Sequences1to4 DEF PlanFor

LEMMA DeleteAndLog ==
    ASSUME NEW r, NEW k \in Kinds, k # "tenant", NEW n \in Names, NEW t \in Names \cup {Nobody},
           NEW by \in Claims
    PROVE  PlanFor(r, <<Delete(k, n), Audit(t, k, n, by)>>)
<1>1. StmtOK(r, Delete(k, n)) /\ StmtOK(r, Audit(t, k, n, by)) BY Statements
<1>2. QED BY <1>1, Sequences1to4 DEF PlanFor

LEMMA IssueKeeps ==
    ASSUME IInv, NEW r \in Requests, NEW c \in Calls, Issue(r, c)
    PROVE  IInv'
<1>0. c.by \in Claims BY CallFacts
<1>1. CASE CreateTenant(r, c)
  <2>1. at[r] = "idle" /\ c.key \in Keys
    BY <1>1, CallFacts DEF CreateTenant, Issued, Keyed
  <2>2. PlanFor(r, <<Save("tenant", r, NewRow(Nobody, c.key, ByName(r))), Audit(r, "tenant", r, c.by)>>)
    BY <1>0, <2>1, OwnRow, RowsMade, SaveAndLog DEF Kinds
  <2>3. QED BY <1>1, <2>1, <2>2, ReadsOnceKeeps DEF CreateTenant
<1>2. CASE UpdateTenant(r, c)
  <2> DEFINE row == db["tenant", c.on]
             ok == row # Absent /\ TenantAccess(c.by, c.on)
             stmts == <<Save("tenant", c.on, [row EXCEPT !.cols = ByName(r)]),
                        Audit(c.on, "tenant", c.on, c.by)>>
  <2>1. at[r] = "idle" /\ c.on \in Names /\ c.op = "UpdateTenant"
    BY <1>2, CallFacts DEF UpdateTenant, Issued
  <2>2. ASSUME ok PROVE PlanFor(r, stmts) /\ Remembers(r, c, row)
    <3>1. row \in RowsOf("tenant") /\ <<"tenant", c.on>> \in Backed(r) /\ row \in Row
      BY <2>1, <2>2, RowFacts DEF Kinds
    <3>2. [row EXCEPT !.cols = ByName(r)] \in RowsOf("tenant")
      BY <3>1, OwnRow DEF RowsOf, ColumnsOf, Content, ByName, Kinds
    <3>3. PlanFor(r, stmts)
      BY <1>0, <2>1, <3>1, <3>2, SaveAndLog DEF Kinds
    <3>4. QED BY <2>1, <3>1, <3>3 DEF Remembers
  <2>3. CASE ok /\ row.key = c.key
    <3>1. ReadsOnce(r, c, TRUE, stmts) BY <1>2, <2>3 DEF UpdateTenant
    <3>2. PlanFor(r, stmts) BY <2>2, <2>3
    <3> HIDE DEF stmts
    <3>3. QED BY <2>1, <3>1, <3>2, ReadsOnceKeeps
  <2>4. CASE ~(ok /\ row.key = c.key)
    <3>1. ReadsFirst(r, c, ok, row) BY <1>2, <2>4 DEF UpdateTenant
    <3>2. ok => Remembers(r, c, row) BY <2>2
    <3> HIDE DEF ok, row
    <3>3. QED BY <2>1, <3>1, <3>2, ReadsFirstKeeps
  <2>5. QED BY <2>3, <2>4
<1>3. CASE DeleteTenant(r, c)
  <2>1. at[r] = "idle" /\ c.on \in Names /\ c.op = "DeleteTenant"
    BY <1>3, CallFacts DEF DeleteTenant, Issued
  <2>2. db["tenant", c.on] # Absent => Remembers(r, c, db["tenant", c.on])
    BY <2>1, RowFacts DEF Remembers, Kinds
  <2>3. QED BY <1>3, <2>1, <2>2, ReadsFirstKeeps DEF DeleteTenant
<1>4. CASE CreateDomain(r, c)
  <2>1. at[r] = "idle" /\ Remembers(r, c, Absent)
    BY <1>4 DEF CreateDomain, Issued, Remembers
  <2>2. QED BY <1>4, <2>1, ReadsFirstKeeps DEF CreateDomain
<1>5. CASE DeleteDomain(r, c)
  <2> DEFINE row == db["domain", c.on]
             ok == row # Absent /\ TenantAccess(c.by, row.parent)
             stmts == <<Delete("domain", c.on), Audit(row.parent, "domain", c.on, c.by)>>
  <2>1. at[r] = "idle" /\ c.on \in Names /\ ReadsOnce(r, c, ok, stmts)
    BY <1>5, CallFacts DEF DeleteDomain, Issued
  <2>2. ok => PlanFor(r, stmts)
    BY <1>0, <2>1, RowFacts, DeleteAndLog DEF Kinds
  <2> HIDE DEF ok, stmts
  <2>3. QED BY <2>1, <2>2, ReadsOnceKeeps
<1>6. CASE CreateRoute(r, c)
  <2> DEFINE t == WriteScope(c.by, c.on)
             ok == db["tenant", t] # Absent
             stmts == <<Save("route", r, NewRow(t, r, ByName(r))), Audit(t, "route", r, c.by)>>
  <2>1. at[r] = "idle" /\ c.on \in Names /\ ReadsOnce(r, c, ok, stmts)
    BY <1>6, CallFacts DEF CreateRoute, Issued
  <2>2. t \in Names \cup {Nobody} BY <2>1, CallFacts DEF WriteScope, Claims
  <2> HIDE DEF t
  <2>3. PlanFor(r, stmts)
    BY <1>0, <2>2, OwnRow, RowsMade, SaveAndLog DEF Kinds
  <2> HIDE DEF ok, stmts
  <2>4. QED BY <2>1, <2>3, ReadsOnceKeeps
<1>7. CASE UpdateRoute(r, c)
  <2> DEFINE row == db["route", c.on]
             ok == row # Absent /\ TenantAccess(c.by, row.parent)
             stmts == <<Save("route", c.on, [row EXCEPT !.cols = ByName(r)]),
                        Audit(row.parent, "route", c.on, c.by)>>
  <2>1. at[r] = "idle" /\ c.on \in Names /\ ReadsOnce(r, c, ok, stmts)
    BY <1>7, CallFacts DEF UpdateRoute, Issued
  <2>2. ASSUME ok PROVE PlanFor(r, stmts)
    <3>1. /\ row \in RowsOf("route") /\ <<"route", c.on>> \in Backed(r)
          /\ row.parent \in Names \cup {Nobody}
      BY <2>1, <2>2, RowFacts DEF Kinds
    <3>2. [row EXCEPT !.cols = ByName(r)] \in RowsOf("route")
      BY <3>1, OwnRow DEF RowsOf, ColumnsOf, Content, ByName, Kinds
    <3>3. QED BY <1>0, <2>1, <3>1, <3>2, SaveAndLog DEF Kinds
  <2> HIDE DEF ok, stmts
  <2>3. QED BY <2>1, <2>2, ReadsOnceKeeps
<1>8. CASE DeleteRoute(r, c)
  <2> DEFINE row == db["route", c.on]
             ok == row # Absent /\ TenantAccess(c.by, row.parent)
             stmts == <<Delete("route", c.on), Audit(row.parent, "route", c.on, c.by)>>
  <2>1. at[r] = "idle" /\ c.on \in Names /\ ReadsOnce(r, c, ok, stmts)
    BY <1>8, CallFacts DEF DeleteRoute, Issued
  <2>2. ok => PlanFor(r, stmts)
    BY <1>0, <2>1, RowFacts, DeleteAndLog DEF Kinds
  <2> HIDE DEF ok, stmts
  <2>3. QED BY <2>1, <2>2, ReadsOnceKeeps
<1>9. CASE UpsertPolicy(r, c)
  <2> DEFINE row == db["route", c.on]
             ok == row # Absent /\ TenantAccess(c.by, row.parent)
  <2>1. at[r] = "idle" /\ c.on \in Names /\ c.op = "UpsertPolicy" /\ ReadsFirst(r, c, ok, row)
    BY <1>9, CallFacts DEF UpsertPolicy, LooksForTarget, Issued
  <2>2. ok => Remembers(r, c, row)
    BY <2>1, RowFacts DEF Kinds, Remembers
  <2> HIDE DEF ok, row
  <2>3. QED BY <2>1, <2>2, ReadsFirstKeeps
<1>10. CASE UpsertDomainPolicy(r, c)
  <2> DEFINE row == db["domain", c.on]
             ok == row # Absent /\ TenantAccess(c.by, row.parent)
  <2>1. at[r] = "idle" /\ c.on \in Names /\ c.op = "UpsertDomainPolicy" /\ ReadsFirst(r, c, ok, row)
    BY <1>10, CallFacts DEF UpsertDomainPolicy, LooksForTarget, Issued
  <2>2. ok => Remembers(r, c, row)
    BY <2>1, RowFacts DEF Kinds, Remembers
  <2> HIDE DEF ok, row
  <2>3. QED BY <2>1, <2>2, ReadsFirstKeeps
<1>11. CASE DeletePolicy(r, c)
  <2> DEFINE row == db["route", c.on]
             ok == row # Absent /\ TenantAccess(c.by, row.parent)
             stmts == <<Delete("policy", c.on), Audit(row.parent, "policy", c.on, c.by)>>
  <2>1. at[r] = "idle" /\ c.on \in Names /\ ReadsOnce(r, c, ok, stmts)
    BY <1>11, CallFacts DEF DeletePolicy, Issued
  <2>2. ok => PlanFor(r, stmts)
    BY <1>0, <2>1, RowFacts, DeleteAndLog DEF Kinds
  <2> HIDE DEF ok, stmts
  <2>3. QED BY <2>1, <2>2, ReadsOnceKeeps
<1>12. CASE DeleteDomainPolicy(r, c)
  <2> DEFINE row == db["domain", c.on]
             ok == row # Absent /\ TenantAccess(c.by, row.parent)
             stmts == <<Delete("domain_policy", c.on), Audit(row.parent, "domain_policy", c.on, c.by)>>
  <2>1. at[r] = "idle" /\ c.on \in Names /\ ReadsOnce(r, c, ok, stmts)
    BY <1>12, CallFacts DEF DeleteDomainPolicy, Issued
  <2>2. ok => PlanFor(r, stmts)
    BY <1>0, <2>1, RowFacts, DeleteAndLog DEF Kinds
  <2> HIDE DEF ok, stmts
  <2>3. QED BY <2>1, <2>2, ReadsOnceKeeps
<1>13. CASE CreateMember(r, c)
  <2>1. at[r] = "idle" /\ Remembers(r, c, Absent)
    BY <1>13 DEF CreateMember, Issued, Remembers
  <2>2. QED BY <1>13, <2>1, ReadsFirstKeeps DEF CreateMember
<1>14. CASE UpdatePermissions(r, c)
  <2> DEFINE row == db["user", c.on]
             ok == row # Absent /\ MayModifyMember(c.by, row)
             stmts == <<Save("user", c.on, [row EXCEPT !.cols.permissions = r]),
                        Audit(row.parent, "user", c.on, c.by)>>
  <2>1. at[r] = "idle" /\ c.on \in Names /\ ReadsOnce(r, c, ok, stmts)
    BY <1>14, CallFacts DEF UpdatePermissions, Issued
  <2>2. ASSUME ok PROVE PlanFor(r, stmts)
    <3>1. /\ row \in RowsOf("user") /\ <<"user", c.on>> \in Backed(r)
          /\ row.parent \in Names \cup {Nobody}
      BY <2>1, <2>2, RowFacts DEF Kinds
    <3>2. [row EXCEPT !.cols.permissions = r] \in RowsOf("user")
      BY <3>1, OwnRow DEF RowsOf, ColumnsOf, UserColumns, Kinds
    <3>3. QED BY <1>0, <2>1, <3>1, <3>2, SaveAndLog DEF Kinds
  <2> HIDE DEF ok, stmts
  <2>3. QED BY <2>1, <2>2, ReadsOnceKeeps
<1>15. CASE DeleteUser(r, c)
  <2> DEFINE row == db["user", c.on]
             ok == row # Absent /\ MayDeleteUser(c.by, c.on, row)
             stmts == <<Audit(row.parent, "user", c.on, c.by), Anonymize("actor", c.on),
                        Anonymize("resource", c.on), Delete("user", c.on)>>
  <2>1. at[r] = "idle" /\ c.on \in Names /\ ReadsOnce(r, c, ok, stmts)
    BY <1>15, CallFacts DEF DeleteUser, Issued
  <2>2. ASSUME ok PROVE PlanFor(r, stmts)
    <3>1. row.parent \in Names \cup {Nobody}
      BY <2>1, <2>2, RowFacts DEF Kinds
    <3>2. /\ StmtOK(r, Audit(row.parent, "user", c.on, c.by))
          /\ StmtOK(r, Anonymize("actor", c.on)) /\ StmtOK(r, Anonymize("resource", c.on))
          /\ StmtOK(r, Delete("user", c.on))
      BY <1>0, <2>1, <3>1, Statements DEF Kinds
    <3>3. QED BY <3>2, Sequences1to4 DEF PlanFor
  <2> HIDE DEF ok, stmts
  <2>3. QED BY <2>1, <2>2, ReadsOnceKeeps
<1>16. CASE Register(r, c)
  <2>1. at[r] = "idle" /\ Remembers(r, c, Absent)
    BY <1>16 DEF Register, Issued, Remembers
  <2>2. QED BY <1>16, <2>1, ReadsFirstKeeps DEF Register
<1>17. CASE ChangePassword(r, c)
  <2> DEFINE row == db["user", c.on]
             ok == row # Absent
             stmts == <<Save("user", c.on, [row EXCEPT !.cols.password = r])>>
  <2>1. at[r] = "idle" /\ c.on \in Names /\ ReadsOnce(r, c, ok, stmts)
    BY <1>17, CallFacts DEF ChangePassword, Issued
  <2>2. ASSUME ok PROVE PlanFor(r, stmts)
    <3>1. row \in RowsOf("user") /\ <<"user", c.on>> \in Backed(r)
      BY <2>1, <2>2, RowFacts DEF Kinds
    <3>2. [row EXCEPT !.cols.password = r] \in RowsOf("user")
      BY <3>1, OwnRow DEF RowsOf, ColumnsOf, UserColumns, Kinds
    <3>3. QED BY <1>0, <2>1, <3>1, <3>2, SaveAndLog DEF Kinds
  <2> HIDE DEF ok, stmts
  <2>3. QED BY <2>1, <2>2, ReadsOnceKeeps
<1>18. QED
  BY <1>1, <1>2, <1>3, <1>4, <1>5, <1>6, <1>7, <1>8, <1>9, <1>10, <1>11, <1>12, <1>13,
     <1>14, <1>15, <1>16, <1>17 DEF Issue

\* The second half of saving a policy.
LEMMA UpsertsKeep ==
    ASSUME IInv, NEW r \in Requests, NEW kind \in {"policy", "domain_policy"},
           NEW op \in {"UpsertPolicy", "UpsertDomainPolicy"}, Upserts(r, op, kind)
    PROVE  IInv'
<1> DEFINE c == call[r]
           found == Holders(db, kind, c.on)
           name == IF found = {} THEN r ELSE CHOOSE n \in found : TRUE
           existing == IF found = {} THEN Absent ELSE db[kind, name]
           ok == SigningMaterial(existing, c.body)
           row == NewRow(c.on, c.on, Policy(r, c.body))
           stmts == <<Save(kind, name, row), Audit(seen[r].parent, kind, name, c.by)>>
<1>1. ReadsAgain(r, op, ok, stmts) BY DEF Upserts
<1>2. at[r] = "looked" /\ c.op = op /\ c \in Calls /\ seen[r] \in Row /\ c.by \in Claims
  BY <1>1, CallFacts DEF ReadsAgain, IInv, Course
<1>3. c.on \in Names /\ c.on \in Keys /\ seen[r].parent \in Names \cup {Nobody}
  BY <1>2, CallFacts DEF Keys, Row
<1>4. kind \in Kinds BY DEF Kinds
<1>5. name \in Names /\ <<kind, name>> \in Backed(r)
  <2>1. CASE found = {} BY <2>1, <1>4, OwnRow
  <2>2. CASE found # {}
    <3>1. name \in found BY <2>2
    <3> HIDE DEF name
    <3>2. name \in Names /\ db[kind, name] # Absent BY <3>1 DEF Holders
    <3>3. QED BY <3>2, <1>4, RowFacts
  <2>3. QED BY <2>1, <2>2
<1>6. row \in RowsOf(kind)
  BY <1>3, OwnRow, <1>4 DEF NewRow, Policy, RowsOf, ColumnsOf, PolicyColumns
<1> HIDE DEF name, row
<1>7. PlanFor(r, stmts) BY <1>2, <1>3, <1>4, <1>5, <1>6, SaveAndLog
<1> HIDE DEF ok, stmts
<1>8. QED BY <1>1, <1>7, ReadsAgainKeeps

LEMMA DecideKeeps ==
    ASSUME IInv, NEW r \in Requests, Decide(r)
    PROVE  IInv'
<1> DEFINE c == call[r]
<1>0. /\ at[r] = "looked" => c \in Calls /\ c.by \in Claims
      /\ at[r] = "looked" /\ c.op = "UpdateTenant" => <<"tenant", c.on>> \in Backed(r)
  BY CallFacts DEF IInv, Course
<1>1. CASE UpdateTenantAlias(r)
  <2> DEFINE stmts == <<Save("tenant", c.on, NewRow(Nobody, c.key, ByName(r))),
                        Audit(c.on, "tenant", c.on, c.by)>>
  <2>1. /\ at[r] = "looked" /\ c.op = "UpdateTenant"
        /\ ReadsAgain(r, "UpdateTenant", Holders(db, "tenant", c.key) \subseteq {c.on}, stmts)
    BY <1>1 DEF UpdateTenantAlias, ReadsAgain
  <2>2. c.on \in Names /\ c.key \in Keys /\ <<"tenant", c.on>> \in Backed(r)
    BY <1>0, <2>1, CallFacts DEF Keyed
  <2> HIDE DEF c
  <2>3. PlanFor(r, stmts)
    BY <1>0, <2>1, <2>2, OwnRow, RowsMade, SaveAndLog DEF Kinds
  <2> HIDE DEF stmts
  <2>4. QED BY <2>1, <2>3, ReadsAgainKeeps
<1>2. CASE DeleteTenantUnlinked(r)
  <2> DEFINE ok == \A n \in Names : db["route", n] # Absent => db["route", n].parent # c.on
             stmts == <<Delete("tenant", c.on), Audit(c.on, "tenant", c.on, c.by)>>
  <2>1. at[r] = "looked" /\ c.op = "DeleteTenant" /\ ReadsAgain(r, "DeleteTenant", ok, stmts)
    BY <1>2 DEF DeleteTenantUnlinked, ReadsAgain
  <2>2. c.on \in Names BY <1>0, <2>1, CallFacts
  <2>3. PlanFor(r, stmts) BY <1>0, <2>1, <2>2 DEF PlanFor, DeletesTenant
  <2> HIDE DEF ok, stmts
  <2>4. QED BY <2>1, <2>3, ReadsAgainKeeps
<1>3. CASE CreateDomainHost(r)
  <2> DEFINE stmts == <<Save("domain", r, NewRow(c.on, c.key, ByName(r))),
                        Audit(c.on, "domain", r, c.by)>>
  <2>1. /\ at[r] = "looked" /\ c.op = "CreateDomain"
        /\ ReadsAgain(r, "CreateDomain", ~Taken("domain", c.key), stmts)
    BY <1>3 DEF CreateDomainHost, ReadsAgain
  <2>2. c.on \in Names /\ c.key \in Keys BY <1>0, <2>1, CallFacts DEF Keyed
  <2> HIDE DEF c
  <2>3. PlanFor(r, stmts)
    BY <1>0, <2>1, <2>2, OwnRow, RowsMade, SaveAndLog DEF Kinds
  <2> HIDE DEF stmts
  <2>4. QED BY <2>1, <2>3, ReadsAgainKeeps
<1>4. CASE UpsertPolicyMerge(r) BY <1>4, UpsertsKeep DEF UpsertPolicyMerge
<1>5. CASE UpsertDomainPolicyMerge(r) BY <1>5, UpsertsKeep DEF UpsertDomainPolicyMerge
<1>6. CASE CreateMemberEmail(r)
  <2> DEFINE stmts == <<Save("user", r, NewUser(r, c.on, c.key, "member")),
                        Audit(c.on, "user", r, c.by)>>
  <2>1. /\ at[r] = "looked" /\ c.op = "CreateMember"
        /\ ReadsAgain(r, "CreateMember", ~Taken("user", c.key), stmts)
    BY <1>6 DEF CreateMemberEmail, ReadsAgain
  <2>2. c.on \in Names /\ c.key \in Keys BY <1>0, <2>1, CallFacts DEF Keyed
  <2> HIDE DEF c
  <2>3. PlanFor(r, stmts)
    BY <1>0, <2>1, <2>2, OwnRow, RowsMade, SaveAndLog DEF Kinds
  <2> HIDE DEF stmts
  <2>4. QED BY <2>1, <2>3, ReadsAgainKeeps
<1>7. CASE RegisterAlias(r)
  <2> DEFINE tenant == Save("tenant", r, NewRow(Nobody, c.key, ByName(r)))
             user == Save("user", r, NewUser(r, r, c.key, "admin"))
  <2>1. /\ at[r] = "looked" /\ c.op = "Register"
        /\ ReadsAgain(r, "Register", ~Taken("tenant", c.key), <<tenant, user>>)
    BY <1>7 DEF RegisterAlias, ReadsAgain
  <2>2. c.key \in Keys BY <1>0, <2>1, CallFacts DEF Keyed
  <2> HIDE DEF c
  <2>3. StmtOK(r, tenant) /\ StmtOK(r, user)
    BY <2>2, OwnRow, RowsMade, Statements DEF Kinds
  <2> HIDE DEF tenant, user
  <2>4. PlanFor(r, <<tenant, user>>) BY <2>3, Sequences1to4 DEF PlanFor
  <2>5. QED BY <2>1, <2>4, ReadsAgainKeeps
<1>8. QED
  BY <1>1, <1>2, <1>3, <1>4, <1>5, <1>6, <1>7 DEF Decide

-----------------------------------------------------------------------------
(***************************************************************************)
(* The statements.                                                         *)
(***************************************************************************)
LEMMA ViewTyped ==
    ASSUME IInv, NEW r \in Requests, NEW i \in Ids
    PROVE  View(r)[i] = Absent \/ View(r)[i] \in RowsOf(i[1])
<1>1. db[i] = Absent \/ db[i] \in RowsOf(i[1]) BY DEF IInv, Tables
<1>2. i \in DOMAIN pending[r] => pending[r][i] = Absent \/ pending[r][i] \in RowsOf(i[1])
  BY DEF IInv, Course
<1>3. QED BY <1>1, <1>2 DEF View

LEMMA Doings ==
    \A k, n, t, by : Delete(k, n).do = "delete" /\ Audit(t, k, n, by).do = "audit"
BY DEF Delete, Audit

\* The next statement of a request that has not deleted a tenant.
LEMMA NextStatement ==
    ASSUME IInv, NEW r \in Requests, todo[r] # <<>>
    PROVE  \/ /\ Good(r, todo[r]) /\ Good(r, Tail(todo[r])) /\ StmtOK(r, Head(todo[r]))
              /\ Head(todo[r]).id[1] = "tenant" => Head(todo[r]).do # "delete"
              /\ Head(todo[r]).id \in Ids
              /\ \A n \in Names : ~Doomed(r, n)
           \/ /\ at[r] = "open"
              /\ \E n \in Names, by \in Claims :
                    /\ DOMAIN pending[r] = {} /\ todo[r] = DeletesTenant(n, by)
                    /\ Head(todo[r]) = Delete("tenant", n)
                    /\ Tail(todo[r]) = <<Audit(n, "tenant", n, by)>>
           \/ /\ at[r] = "open"
              /\ \E n \in Names, by \in Claims :
                    Doomed(r, n) /\ Head(todo[r]) = Audit(n, "tenant", n, by)
<1>1. Plan(r) BY DEF IInv, Course
<1>2. CASE Good(r, todo[r]) /\ \A n \in Names : ~Doomed(r, n)
  <2>1. Good(r, Tail(todo[r])) /\ StmtOK(r, Head(todo[r])) BY <1>2, TailGood
  <2>2. Head(todo[r]).id \in Ids BY <2>1 DEF StmtOK, Statement
  <2>3. QED BY <1>2, <2>1, <2>2 DEF StmtOK
<1>3. ASSUME NEW n \in Names, NEW by \in Claims, todo[r] = DeletesTenant(n, by)
      PROVE  /\ Head(todo[r]) = Delete("tenant", n)
             /\ Tail(todo[r]) = <<Audit(n, "tenant", n, by)>>
  BY <1>3 DEF DeletesTenant
<1>4. ASSUME NEW n \in Names, NEW by \in Claims, todo[r] = <<Audit(n, "tenant", n, by)>>
      PROVE  Head(todo[r]) = Audit(n, "tenant", n, by)
  BY <1>4
<1>5. QED BY <1>1, <1>2, <1>3, <1>4 DEF Plan

\* A transaction has one thing more to commit.
LEMMA WritesKeeps ==
    ASSUME IInv, NEW r \in Requests, NEW change, at[r] \in {"open", "fetched"},
           Writes(r, change), DOMAIN change \subseteq Ids,
           \A i \in DOMAIN change :
              change[i] = Absent \/ (i \in Backed(r) /\ change[i] \in RowsOf(i[1])),
           \/ /\ Good(r, Tail(todo[r])) /\ \A n \in Names : ~Doomed(r, n)
              /\ \A n \in Names : <<"tenant", n>> \in DOMAIN change => change[<<"tenant", n>>] # Absent
           \/ \E n \in Names, by \in Claims :
                 /\ Tail(todo[r]) = <<Audit(n, "tenant", n, by)>>
                 /\ <<"tenant", n>> \in DOMAIN change /\ change[<<"tenant", n>>] = Absent
    PROVE  IInv'
<1>1. CASE ~Legal(Over(View(r), change))
  BY <1>1, RollsBackKeeps DEF Writes
<1>2. CASE Legal(Over(View(r), change))
  <2> DEFINE p == [i \in DOMAIN pending[r] \cup DOMAIN change |->
                     IF i \in DOMAIN change THEN change[i] ELSE pending[r][i]]
  <2>1. Next1(r) /\ pending' = [pending EXCEPT ![r] = p]
        /\ fetched' = [fetched EXCEPT ![r] = Absent] /\ logged' = logged
    BY <1>2 DEF Writes
  <2>2. /\ at'[r] = "open" /\ call'[r] = call[r] /\ seen'[r] = seen[r]
        /\ todo'[r] = Tail(todo[r]) /\ pending'[r] = p /\ logged'[r] = logged[r]
        /\ fetched'[r] = Absent /\ forgot'[r] = forgot[r] /\ overtaken'[r] = overtaken[r]
        /\ answer'[r] = answer[r] /\ UNCHANGED store
    BY <2>1 DEF IInv, Entries, Next1
  <2>3. OnlyOf(r)
    <3> HIDE DEF p
    <3> QED BY <2>1, <2>2 DEF OnlyOf, Next1, IInv, Entries
  <2>4. /\ DOMAIN p = DOMAIN pending[r] \cup DOMAIN change
        /\ \A i \in DOMAIN change : p[i] = change[i]
        /\ \A i \in DOMAIN pending[r] \ DOMAIN change : p[i] = pending[r][i]
    OBVIOUS
  <2>5. Backed(r)' = Backed(r) BY <2>2 DEF Backed, store
  <2>6. \A i \in DOMAIN p : p[i] = Absent \/ (i \in Backed(r) /\ p[i] \in RowsOf(i[1]))
    <3>1. \A i \in DOMAIN pending[r] :
             pending[r][i] = Absent \/ (i \in Backed(r) /\ pending[r][i] \in RowsOf(i[1]))
      BY DEF IInv, Course
    <3> HIDE DEF p
    <3>2. QED BY <2>4, <3>1
  <2>7. DOMAIN p \subseteq Ids
    <3> HIDE DEF p
    <3> QED BY <2>4 DEF IInv, TypeOK
  <2> HIDE DEF p
  <2>8. TypeOf(r)'
    BY <2>2, <2>6, <2>7, RowTypes DEF TypeOf, IInv, TypeOK
  <2>9. Plan(r)'
    <3>1. CASE /\ Good(r, Tail(todo[r])) /\ \A n \in Names : ~Doomed(r, n)
               /\ \A n \in Names :
                     <<"tenant", n>> \in DOMAIN change => change[<<"tenant", n>>] # Absent
      <4>1. Good(r, todo[r])'
        BY <2>2, <2>5, <3>1 DEF Good, StmtOK, Statement, RowsOf
      <4>2. \A n \in Names : ~Doomed(r, n)'
        BY <2>2, <2>4, <3>1 DEF Doomed
      <4>3. QED BY <2>2, <4>1, <4>2 DEF Plan, Good
    <3>2. CASE \E n \in Names, by \in Claims :
                   /\ Tail(todo[r]) = <<Audit(n, "tenant", n, by)>>
                   /\ <<"tenant", n>> \in DOMAIN change /\ change[<<"tenant", n>>] = Absent
      BY <2>2, <2>4, <3>2 DEF Plan, Doomed
    <3>3. QED BY <3>1, <3>2
  <2>10. call[r] \in Calls /\ logged[r] \in Logs \cup {Absent}
    BY DEF IInv, Course
  <2>11. Course(r)'
    BY <2>2, <2>5, <2>6, <2>9, <2>10 DEF Course, Logs, RowsOf
  <2>12. QED BY <2>3, <2>8, <2>11, LocalStep
<1>3. QED BY <1>1, <1>2

\* An UPDATE leaves a row of its table.
LEMMA UpdatedTyped ==
    ASSUME NEW k \in Kinds, NEW row \in RowsOf(k), NEW new \in RowsOf(k), NEW old
    PROVE  Updated(row, old, new) \in RowsOf(k)
<1> DEFINE cols == [c \in DOMAIN row.cols |->
                      IF new.cols[c] = old.cols[c] \/ (c = "signing" /\ Keyless(new))
                      THEN row.cols[c] ELSE new.cols[c]]
           key == IF new.key = old.key THEN row.key ELSE new.key
<1>1. cols \in ColumnsOf(k)
  <2>1. CASE ColumnsOf(k) = Content
    BY <2>1 DEF RowsOf, Content
  <2>2. CASE ColumnsOf(k) = PolicyColumns
    BY <2>2 DEF RowsOf, PolicyColumns
  <2>3. CASE ColumnsOf(k) = UserColumns
    BY <2>3 DEF RowsOf, UserColumns
  <2>4. QED BY <2>1, <2>2, <2>3 DEF ColumnsOf
<1>2. key \in Keys BY DEF RowsOf
<1>3. Updated(row, old, new) = [parent |-> row.parent, key |-> key, cols |-> cols]
  <2>1. Updated(row, old, new) = [row EXCEPT !.key = key, !.cols = cols] BY DEF Updated
  <2> HIDE DEF key, cols
  <2>2. QED BY <2>1 DEF RowsOf
<1> HIDE DEF key, cols
<1>4. QED BY <1>1, <1>2, <1>3 DEF RowsOf

\* Neither the rows named nor those that go with them are tenants.
LEMMA CascadeSpares ==
    ASSUME NEW rows, NEW i \in Ids, i[1] # "tenant"
    PROVE  /\ Cascade(rows, Victims(rows, i)) \subseteq Ids
           /\ \A n \in Names : <<"tenant", n>> \notin Cascade(rows, Victims(rows, i))
<1>1. i = <<i[1], i[2]>> /\ i[1] \in Kinds BY DEF Ids
<1>2. Victims(rows, i) \subseteq Ids /\ \A j \in Victims(rows, i) : j[1] = i[1]
  <2>1. CASE i[1] \in {"policy", "domain_policy"}
    <3>1. Victims(rows, i) = {<<i[1], n>> : n \in Holders(rows, i[1], i[2])}
      BY <2>1 DEF Victims
    <3>2. Holders(rows, i[1], i[2]) \subseteq Names BY DEF Holders
    <3>3. QED BY <1>1, <3>1, <3>2 DEF Ids
  <2>2. CASE i[1] \notin {"policy", "domain_policy"}
    BY <2>2 DEF Victims
  <2>3. QED BY <2>1, <2>2
<1>3. \A n \in Names : <<"tenant", n>> \notin Victims(rows, i)
  BY <1>2
<1>4. \A S : Dependents(rows, S) \subseteq Ids
             /\ \A n \in Names : <<"tenant", n>> \notin Dependents(rows, S)
  BY DEF Dependents, Cascading
<1>5. QED BY <1>2, <1>3, <1>4 DEF Cascade

LEMMA SaveSelectsKeeps ==
    ASSUME IInv, NEW r \in Requests, SaveSelects(r)
    PROVE  IInv'
<1>1. at[r] = "open" /\ todo[r] # <<>> /\ Head(todo[r]).do = "save"
  BY DEF SaveSelects, At
<1>2. Good(r, todo[r]) /\ Head(todo[r]).id \in Ids /\ \A n \in Names : ~Doomed(r, n)
  BY <1>1, NextStatement, Doings
<1>3. /\ at'[r] = "fetched" /\ call'[r] = call[r] /\ seen'[r] = seen[r] /\ todo'[r] = todo[r]
      /\ pending'[r] = pending[r] /\ logged'[r] = logged[r]
      /\ fetched'[r] = View(r)[Head(todo[r]).id] /\ forgot'[r] = forgot[r]
      /\ overtaken'[r] = overtaken[r] /\ answer'[r] = answer[r] /\ UNCHANGED store
  BY DEF IInv, Entries, SaveSelects, trans
<1>4. OnlyOf(r)
  BY <1>3 DEF OnlyOf, SaveSelects, trans, IInv, Entries
<1>5. View(r)[Head(todo[r]).id] \in Row \cup {Absent}
  BY <1>2, ViewTyped, RowTypes
<1>6. TypeOf(r)'
  BY <1>3, <1>5 DEF TypeOf, IInv, TypeOK
<1>7. Backed(r)' = Backed(r) BY <1>3 DEF Backed, store
<1>8. Plan(r)'
  <2>1. Good(r, todo[r])'
    BY <1>2, <1>3, <1>7 DEF Good, StmtOK, Statement, RowsOf
  <2>2. QED BY <1>2, <1>3, <2>1 DEF Plan, Doomed
<1>9. /\ call[r] \in Calls /\ logged[r] \in Logs \cup {Absent}
      /\ \A i \in DOMAIN pending[r] :
            pending[r][i] = Absent \/ (i \in Backed(r) /\ pending[r][i] \in RowsOf(i[1]))
  BY <1>1 DEF IInv, Course
<1>10. Course(r)'
  BY <1>1, <1>3, <1>7, <1>8, <1>9 DEF Course, Logs, RowsOf
<1>11. QED BY <1>4, <1>6, <1>10, LocalStep

\* The save that a request has fetched its row for.
LEMMA SaveFacts ==
    ASSUME IInv, NEW r \in Requests, at[r] = "fetched"
    PROVE  /\ Good(r, Tail(todo[r])) /\ \A n \in Names : ~Doomed(r, n)
           /\ Head(todo[r]).id \in Ids /\ Head(todo[r]).id \in Backed(r)
           /\ Head(todo[r]).row \in RowsOf(Head(todo[r]).id[1])
<1>1. todo[r] # <<>> /\ Head(todo[r]).do = "save" BY DEF IInv, Course
<1>2. QED BY <1>1, NextStatement DEF StmtOK

\* A change of one row.
LEMMA WritesRow ==
    ASSUME IInv, NEW r \in Requests, at[r] = "fetched", NEW id, id = Head(todo[r]).id,
           NEW w \in RowsOf(id[1]), Writes(r, [i \in {id} |-> w])
    PROVE  IInv'
<1> DEFINE change == [i \in {id} |-> w]
<1>1. DOMAIN change = {id} /\ change[id] = w OBVIOUS
<1>2. id \in Ids /\ id \in Backed(r) /\ w # Absent BY SaveFacts, RowTypes
<1>3. Writes(r, change) OBVIOUS
<1> HIDE DEF change
<1>4. QED BY <1>1, <1>2, <1>3, SaveFacts, WritesKeeps

LEMMA SavesKeep ==
    ASSUME IInv, NEW r \in Requests, SaveInserts(r) \/ SaveUpdates(r)
    PROVE  IInv'
<1> DEFINE s == Head(todo[r])
<1>1. at[r] = "fetched" BY DEF SaveInserts, SaveUpdates
<1>2. s.id \in Ids /\ s.row \in RowsOf(s.id[1]) /\ s.id[1] \in Kinds
  BY <1>1, SaveFacts DEF Ids
<1>0. CASE Unstorable(r, LooseKinds) BY <1>0, RollsBackKeeps DEF Unstorable
<1>3. CASE SaveInserts(r) /\ ~Unstorable(r, LooseKinds)
  <2>1. CASE View(r)[s.id] # Absent BY <1>3, <2>1, RollsBackKeeps DEF SaveInserts
  <2>2. CASE View(r)[s.id] = Absent
    <3>1. Writes(r, [i \in {s.id} |-> s.row]) BY <1>3, <2>2 DEF SaveInserts
    <3> HIDE DEF s
    <3>2. s = Head(todo[r]) BY DEF s
    <3>3. QED BY <1>1, <1>2, <3>1, <3>2, WritesRow
  <2>3. QED BY <2>1, <2>2
<1>4. CASE SaveUpdates(r) /\ ~Unstorable(r, LooseKinds)
  <2> DEFINE row == View(r)[s.id]
  <2>1. CASE row = Absent BY <1>4, <2>1, RollsBackKeeps DEF SaveUpdates
  <2>2. CASE row # Absent
    <3>1. Writes(r, [i \in {s.id} |-> Updated(row, fetched[r], s.row)])
      BY <1>4, <2>2 DEF SaveUpdates
    <3>2. Updated(row, fetched[r], s.row) \in RowsOf(s.id[1])
      <4>1. row \in RowsOf(s.id[1]) BY <1>2, <2>2, ViewTyped
      <4> HIDE DEF row, s
      <4>2. QED BY <1>2, <4>1, UpdatedTyped
    <3>3. s = Head(todo[r]) OBVIOUS
    <3> HIDE DEF s, row
    <3>4. QED BY <1>1, <3>1, <3>2, <3>3, WritesRow
  <2>3. QED BY <2>1, <2>2
<1>5. QED BY <1>0, <1>3, <1>4

LEMMA DeletesKeeps ==
    ASSUME IInv, NEW r \in Requests, Deletes(r)
    PROVE  IInv'
<1> DEFINE i == Head(todo[r]).id
           victims == Victims(View(r), i)
           change == [j \in Cascade(View(r), victims) |-> Absent]
<1>1. at[r] = "open" /\ todo[r] # <<>> /\ Head(todo[r]).do = "delete"
  BY DEF Deletes, At
<1>2. CASE victims = {} /\ i[1] \notin {"route", "domain"}
  BY <1>2, RollsBackKeeps DEF Deletes
<1>3. CASE ~(victims = {} /\ i[1] \notin {"route", "domain"})
  <2>1. Writes(r, change) BY <1>3 DEF Deletes
  <2>2. DOMAIN change = Cascade(View(r), victims) /\ \A j \in DOMAIN change : change[j] = Absent
    OBVIOUS
  <2>3. CASE /\ Good(r, Tail(todo[r])) /\ i \in Ids /\ i[1] # "tenant"
             /\ \A n \in Names : ~Doomed(r, n)
    <3>1. /\ Cascade(View(r), victims) \subseteq Ids
          /\ \A n \in Names : <<"tenant", n>> \notin Cascade(View(r), victims)
      BY <2>3, CascadeSpares
    <3> HIDE DEF change, victims
    <3>2. QED BY <1>1, <2>1, <2>2, <2>3, <3>1, WritesKeeps
  <2>4. CASE \E n \in Names, by \in Claims :
               /\ DOMAIN pending[r] = {} /\ Head(todo[r]) = Delete("tenant", n)
               /\ Tail(todo[r]) = <<Audit(n, "tenant", n, by)>>
    <3>1. PICK n \in Names, by \in Claims :
             /\ DOMAIN pending[r] = {} /\ Head(todo[r]) = Delete("tenant", n)
             /\ Tail(todo[r]) = <<Audit(n, "tenant", n, by)>>
      BY <2>4
    <3>2. i = <<"tenant", n>> /\ i \in Ids BY <3>1 DEF Delete, Ids, Kinds
    <3>3. victims \in {{}, {i}} BY <3>2 DEF Victims
    <3>4. i \in victims BY <1>3, <3>2, <3>3
    <3>5. i \in Cascade(View(r), victims) BY <3>4 DEF Cascade
    <3>6. Cascade(View(r), victims) \subseteq Ids BY <3>2, <3>3 DEF Cascade, Dependents
    <3> HIDE DEF change, victims
    <3>7. <<"tenant", n>> \in DOMAIN change /\ change[<<"tenant", n>>] = Absent
      BY <2>2, <3>2, <3>5
    <3>8. QED BY <1>1, <2>1, <2>2, <3>1, <3>6, <3>7, WritesKeeps
  <2>5. QED BY <1>1, <2>3, <2>4, NextStatement, Doings
<1>4. QED BY <1>2, <1>3

\* A statement that writes no row.
LEMMA LogsKeep ==
    ASSUME IInv, NEW r \in Requests, at[r] = "open", at' = [at EXCEPT ![r] = "open"],
           Good(r, Tail(todo[r])), \A n \in Names : ~Doomed(r, n),
           todo' = [todo EXCEPT ![r] = Tail(@)],
           NEW l \in Logs \cup {Absent}, logged' = [logged EXCEPT ![r] = l],
           NEW g \in SUBSET ({"actor", "resource"} \X Requests), forgot' = [forgot EXCEPT ![r] = g],
           UNCHANGED <<store, call, seen, fetched, pending, overtaken, answer>>
    PROVE  IInv'
<1>1. /\ at'[r] = "open" /\ call'[r] = call[r] /\ seen'[r] = seen[r] /\ todo'[r] = Tail(todo[r])
      /\ pending'[r] = pending[r] /\ logged'[r] = l /\ fetched'[r] = fetched[r]
      /\ forgot'[r] = g /\ overtaken'[r] = overtaken[r] /\ answer'[r] = answer[r]
      /\ UNCHANGED store
  BY DEF IInv, Entries
<1>2. OnlyOf(r)
  BY <1>1 DEF OnlyOf, IInv, Entries
<1>3. TypeOf(r)'
  BY <1>1 DEF TypeOf, IInv, TypeOK
<1>4. Backed(r)' = Backed(r) BY <1>1 DEF Backed, store
<1>5. Plan(r)'
  <2>1. \A s : StmtOK(r, s) => StmtOK(r, s)' BY <1>4 DEF StmtOK, Statement, RowsOf
  <2>2. Statement' = Statement BY DEF Statement
  <2>3. todo'[r] = Tail(todo[r]) /\ Good(r, Tail(todo[r])) BY <1>1
  <2>4. Good(r, todo[r])' BY <2>1, <2>2, <2>3 DEF Good
  <2>5. QED BY <1>1, <2>4 DEF Plan, Doomed
<1>6. /\ call[r] \in Calls
      /\ \A i \in DOMAIN pending[r] :
            pending[r][i] = Absent \/ (i \in Backed(r) /\ pending[r][i] \in RowsOf(i[1]))
  BY DEF IInv, Course
<1>7. Course(r)'
  BY <1>1, <1>4, <1>5, <1>6 DEF Course, Logs, RowsOf
<1>8. QED BY <1>2, <1>3, <1>7, LocalStep

LEMMA AuditsKeeps ==
    ASSUME IInv, NEW r \in Requests, Audits(r)
    PROVE  IInv'
<1> DEFINE s == Head(todo[r])
<1>1. at[r] = "open" /\ todo[r] # <<>> /\ s.do = "audit"
  BY DEF Audits, At
<1>0. CASE Unstorable(r, {"policy"}) BY <1>0, RollsBackKeeps DEF Unstorable
<1>2. CASE ~Unstorable(r, {"policy"}) /\ View(r)["tenant", s.tenant] = Absent
  BY <1>2, RollsBackKeeps DEF Audits
<1>3. CASE ~Unstorable(r, {"policy"}) /\ View(r)["tenant", s.tenant] # Absent
  <2>1. ASSUME NEW n \in Names, NEW by, Doomed(r, n), s = Audit(n, "tenant", n, by) PROVE FALSE
    <3>1. s.tenant = n BY <2>1 DEF Audit
    <3>2. <<"tenant", n>> \in Ids BY DEF Ids, Kinds
    <3>3. QED BY <1>3, <2>1, <3>1, <3>2 DEF View, Doomed
  <2>2. Good(r, Tail(todo[r])) /\ StmtOK(r, s) /\ \A n \in Names : ~Doomed(r, n)
    BY <1>1, <2>1, NextStatement, Doings
  <2>3. s \in Logs \cup {Absent}
    <3> HIDE DEF s
    <3>1. s \in Statement BY <2>2 DEF StmtOK
    <3>2. QED BY <1>1, <3>1 DEF Statement, Logs
  <2>4. /\ Next1(r) /\ logged' = [logged EXCEPT ![r] = s] /\ UNCHANGED <<pending, fetched>>
    BY <1>3 DEF Audits
  <2>5. /\ forgot' = [forgot EXCEPT ![r] = forgot[r]]
        /\ forgot[r] \in SUBSET ({"actor", "resource"} \X Requests)
    BY <2>4 DEF Next1, IInv, Entries, TypeOK
  <2> HIDE DEF s
  <2>6. QED BY <1>1, <2>2, <2>3, <2>4, <2>5, LogsKeep DEF Next1
<1>4. QED BY <1>0, <1>2, <1>3

LEMMA AnonymousTyped ==
    ASSUME NEW log \in Logs, NEW columns
    PROVE  Anonymous(log, columns) \in Logs
BY DEF Anonymous, Logs

LEMMA AnonymizesKeeps ==
    ASSUME IInv, NEW r \in Requests, Anonymizes(r)
    PROVE  IInv'
<1> DEFINE s == Head(todo[r])
           l == IF Mentions(logged[r], s.column, s.id[2])
                THEN Anonymous(logged[r], {s.column}) ELSE logged[r]
           rows == {q \in Requests : Mentions(audit[q], s.column, s.id[2])}
           g == forgot[r] \cup ({s.column} \X rows)
<1>1. at[r] = "open" /\ todo[r] # <<>> /\ s.do = "anonymize"
  BY DEF Anonymizes, At
<1>2. Good(r, Tail(todo[r])) /\ StmtOK(r, s) /\ \A n \in Names : ~Doomed(r, n)
  BY <1>1, NextStatement, Doings
<1>3. l \in Logs \cup {Absent}
  <2>1. logged[r] \in Logs \cup {Absent} BY DEF IInv, Course
  <2>2. QED BY <2>1, AnonymousTyped DEF Mentions
<1>4. logged' = [logged EXCEPT ![r] = l] /\ forgot' = [forgot EXCEPT ![r] = g]
  BY DEF Anonymizes, IInv, Entries
<1>5. g \in SUBSET ({"actor", "resource"} \X Requests)
  <2>1. s.column \in {"actor", "resource"} BY <1>1, <1>2 DEF StmtOK, Statement
  <2>2. forgot[r] \subseteq {"actor", "resource"} \X Requests BY DEF IInv, TypeOK
  <2> HIDE DEF s
  <2>3. QED BY <2>1, <2>2
<1>6. /\ at' = [at EXCEPT ![r] = "open"] /\ todo' = [todo EXCEPT ![r] = Tail(@)]
      /\ UNCHANGED <<store, call, seen, fetched, pending, overtaken, answer>>
  BY <1>1 DEF Anonymizes, IInv, Entries
<1> HIDE DEF l, g
<1>7. QED BY <1>1, <1>2, <1>3, <1>4, <1>5, <1>6, LogsKeep

-----------------------------------------------------------------------------
(***************************************************************************)
(* The commit.                                                             *)
(***************************************************************************)
LEMMA CommitsKeeps ==
    ASSUME IInv, NEW r \in Requests, Commits(r)
    PROVE  IInv'
<1> DEFINE mine == pending[r]
<1>1. /\ \A i \in Ids : db'[i] = IF i \in DOMAIN mine THEN mine[i] ELSE db[i]
      /\ db' = [i \in Ids |-> db'[i]]
  BY DEF Commits, Over
<1>2. /\ at'[r] = "done" /\ todo'[r] = <<>> /\ pending'[r] = <<>> /\ logged'[r] = Absent
      /\ call'[r] = NoCall /\ seen'[r] = Absent /\ fetched'[r] = Absent /\ forgot'[r] = {}
      /\ overtaken'[r] = {} /\ answer'[r] = "ok"
  BY DEF IInv, Entries, Commits, Ends
<1>3. ASSUME NEW q \in Requests, q # r
      PROVE  /\ at'[q] = at[q] /\ call'[q] = call[q] /\ seen'[q] = seen[q] /\ todo'[q] = todo[q]
             /\ pending'[q] = pending[q] /\ logged'[q] = logged[q]
             /\ fetched'[q] = fetched[q] /\ forgot'[q] = forgot[q] /\ answer'[q] = answer[q]
             /\ overtaken'[q] = IF at[q] \in {"idle", "done"} THEN {}
                                ELSE overtaken[q] \cup DOMAIN mine
                                       \cup IF logged[r] = Absent THEN {} ELSE {<<"audit", r>>}
  BY <1>3 DEF IInv, Entries, Commits, Ends
<1>4. /\ DOMAIN mine \subseteq Ids /\ logged[r] \in Logs \cup {Absent}
      /\ \A i \in DOMAIN mine : mine[i] = Absent \/ mine[i] \in RowsOf(i[1])
  BY DEF IInv, TypeOK, Course
<1>5. Course(r)' BY <1>2, Over0
<1>6. ASSUME NEW q \in Requests, q # r PROVE Course(q)'
  <2>1. CASE at[q] \in {"idle", "done"}
    BY <1>3, <1>6, <2>1, OthersKeep DEF IInv
  <2>2. CASE at[q] \notin {"idle", "done"}
    <3>1. overtaken[q] \cup DOMAIN mine \subseteq overtaken'[q] BY <1>3, <1>6, <2>2
    <3> HIDE DEF mine
    <3>2. Backed(q) \subseteq Backed(q)' BY <1>1, <3>1 DEF Backed
    <3>3. QED BY <1>3, <1>6, <3>2, OthersKeep DEF IInv
  <2>3. QED BY <2>1, <2>2
<1>7. Tables'
  <2>1. \A i \in Ids : db[i] = Absent \/ db[i] \in RowsOf(i[1]) BY DEF IInv, Tables
  <2> HIDE DEF mine
  <2>2. \A i \in Ids : db'[i] = Absent \/ db'[i] \in RowsOf(i[1]) BY <1>1, <1>4, <2>1
  <2>3. QED BY <2>2 DEF Tables, RowsOf
<1>8. TypeOK'
  <2>1. \A i \in Ids : db'[i] \in Row \cup {Absent}
    BY <1>7, RowTypes DEF Tables, RowsOf
  <2>2. db' \in [Ids -> Row \cup {Absent}] BY <1>1, <2>1
  <2>3. ASSUME NEW q \in Requests PROVE audit'[q] \in Logs \cup {Absent}
    <3>1. audit[q] \in Logs \cup {Absent} BY DEF IInv, TypeOK
    <3>2. CASE q = r BY <1>4, <3>2 DEF Commits
    <3>3. CASE q # r
      BY <3>1, <3>3, AnonymousTyped DEF Commits
    <3>4. QED BY <3>2, <3>3
  <2>4. TypeOf(r)' BY <1>2 DEF TypeOf
  <2>5. ASSUME NEW q \in Requests, q # r PROVE TypeOf(q)'
    <3>1. TypeOf(q) BY DEF IInv, TypeOK, TypeOf
    <3>2. overtaken'[q] \subseteq Ids \cup ({"audit"} \X Requests)
      <4>1. <<"audit", r>> \in {"audit"} \X Requests OBVIOUS
      <4>2. overtaken[q] \subseteq Ids \cup ({"audit"} \X Requests) BY <3>1 DEF TypeOf
      <4>3. overtaken'[q] = {}
            \/ overtaken'[q] \subseteq overtaken[q] \cup DOMAIN mine \cup {<<"audit", r>>}
        BY <1>3, <2>5
      <4> HIDE DEF mine
      <4>4. QED BY <1>4, <4>1, <4>2, <4>3
    <3>3. QED BY <1>3, <2>5, <3>1, <3>2 DEF TypeOf
  <2>6. \A q \in Requests : TypeOf(q)' BY <2>4, <2>5
  <2>7. QED BY <2>2, <2>3, <2>6 DEF TypeOK, TypeOf
<1>9. Entries'
  BY DEF Commits, Ends, IInv, Entries
<1>10. QED BY <1>5, <1>6, <1>7, <1>8, <1>9 DEF IInv

LEMMA StepInv == IInv /\ [Next]_vars => IInv'
<1> SUFFICES ASSUME IInv, [Next]_vars PROVE IInv'
  OBVIOUS
<1>1. ASSUME NEW r \in Requests, NEW c \in Calls, Issue(r, c) PROVE IInv'
  BY <1>1, IssueKeeps
<1>2. ASSUME NEW r \in Requests, Decide(r) PROVE IInv'
  BY <1>2, DecideKeeps
<1>3. ASSUME NEW r \in Requests, Execute(r) PROVE IInv'
  BY <1>3, SaveSelectsKeeps, SavesKeep, DeletesKeeps, AuditsKeeps, AnonymizesKeeps,
     CommitsKeeps DEF Execute
<1>4. ASSUME NEW r \in Requests, Dies(r) PROVE IInv'
  BY <1>4, RollsBackKeeps DEF Dies
<1>5. ASSUME UNCHANGED vars PROVE IInv'
  <2>1. /\ UNCHANGED <<db, audit, at, call, seen, todo, fetched>>
        /\ UNCHANGED <<pending, logged, forgot, overtaken, answer>>
    BY <1>5 DEF vars, store, local, trans
  <2>2. TypeOK' /\ Tables' /\ Entries'
    BY <2>1 DEF IInv, TypeOK, Tables, Entries, RowsOf
  <2>3. ASSUME NEW q \in Requests PROVE Course(q)'
    <3>1. Backed(q) \subseteq Backed(q)' BY <2>1 DEF Backed
    <3>2. QED BY <2>1, <3>1, OthersKeep DEF IInv
  <2>4. QED BY <2>2, <2>3 DEF IInv
<1>6. QED
  BY <1>1, <1>2, <1>3, <1>4, <1>5 DEF Next, AllAnswered

\* Only a commit changes the tables.
LEMMA OnlyCommitsChange ==
    ASSUME [Next]_vars, db' # db
    PROVE  \E r \in Requests : Commits(r)
<1>1. \A r, how : RollsBack(r, how) => db' = db
  BY DEF RollsBack, store
<1>2. \A r, c, ok, t : ReadsOnce(r, c, ok, t) => db' = db
  BY <1>1 DEF ReadsOnce, Decides, store
<1>3. \A r, c, ok, row : ReadsFirst(r, c, ok, row) => db' = db
  BY <1>1 DEF ReadsFirst, store
<1>4. \A r, op, ok, t : ReadsAgain(r, op, ok, t) => db' = db
  BY <1>1 DEF ReadsAgain, Decides, store
<1>5. \A r, change : Writes(r, change) => db' = db
  BY <1>1 DEF Writes, Next1, store
<1>6. ASSUME NEW r \in Requests, NEW c \in Calls, Issue(r, c) PROVE db' = db
  BY <1>2, <1>3, <1>6 DEF Issue, CreateTenant, UpdateTenant, DeleteTenant, CreateDomain,
     DeleteDomain, CreateRoute, UpdateRoute, DeleteRoute, UpsertPolicy, DeletePolicy,
     UpsertDomainPolicy, DeleteDomainPolicy, LooksForTarget, CreateMember, UpdatePermissions,
     DeleteUser, Register, ChangePassword
<1>7. ASSUME NEW r \in Requests, Decide(r) PROVE db' = db
  BY <1>4, <1>7 DEF Decide, UpdateTenantAlias, DeleteTenantUnlinked, CreateDomainHost,
     UpsertPolicyMerge, UpsertDomainPolicyMerge, Upserts, CreateMemberEmail, RegisterAlias
<1>8. ASSUME NEW r \in Requests, Execute(r), ~Commits(r) PROVE db' = db
  BY <1>1, <1>5, <1>8 DEF Execute, SaveSelects, SaveInserts, SaveUpdates, Deletes, Audits,
     Anonymizes, Unstorable, Next1, store
<1>9. ASSUME NEW r \in Requests, Dies(r) PROVE db' = db
  BY <1>1, <1>9 DEF Dies
<1>10. UNCHANGED vars => db' = db
  BY DEF vars, store
<1>11. QED BY <1>6, <1>7, <1>8, <1>9, <1>10 DEF Next, AllAnswered

\* No commit deletes a tenant: who has deleted one has yet to log it, and
\* cannot.
LEMMA TenantsStayStep ==
    IInv /\ [Next]_vars =>
        \A n \in Names : db["tenant", n] # Absent => db'["tenant", n] # Absent
<1> SUFFICES ASSUME IInv, [Next]_vars, NEW n \in Names, db["tenant", n] # Absent,
                    db'["tenant", n] = Absent
             PROVE  FALSE
  OBVIOUS
<1>1. PICK r \in Requests : Commits(r) BY OnlyCommitsChange
<1>2. <<"tenant", n>> \in Ids BY DEF Ids, Kinds
<1>3. Doomed(r, n) BY <1>1, <1>2 DEF Commits, Over, Doomed
<1>4. todo[r] = <<>> BY <1>1 DEF Commits
<1>5. Plan(r) BY DEF IInv, Course
<1>6. \A a, b : <<a>> # <<>> /\ <<a, b>> # <<>> OBVIOUS
<1>7. QED BY <1>3, <1>4, <1>5, <1>6 DEF Plan, DeletesTenant

LEMMA OverlapStep ==
    IInv /\ [Next]_vars =>
        \A r \in Requests : Committing(r) =>
            \A i \in Ids : (db[i] = Absent /\ Changes(i)) => i[2] = r \/ i \in overtaken[r]
<1> SUFFICES ASSUME IInv, [Next]_vars, NEW r \in Requests, Committing(r), NEW i \in Ids,
                    db[i] = Absent, db'[i] # Absent
             PROVE  i[2] = r \/ i \in overtaken[r]
  BY DEF Changes
<1>1. PICK q \in Requests : Commits(q) BY OnlyCommitsChange
<1>2. q = r BY <1>1 DEF Commits, Ends, Committing, IInv, Entries
<1>3. i \in DOMAIN pending[r] /\ pending[r][i] # Absent
  BY <1>1, <1>2 DEF Commits, Over
<1>4. i \in Backed(r) BY <1>3 DEF IInv, Course
<1>5. QED BY <1>4 DEF Backed

-----------------------------------------------------------------------------
(***************************************************************************)
(* Where the rows come from.                                               *)
(***************************************************************************)
\* The rows that request q has decided to save under id i.
Saving(q, i) == {todo[q][k].row : k \in {k \in 1 .. Len(todo[q]) :
                                            todo[q][k].do = "save" /\ todo[q][k].id = i}}

\* Every version of row i: the committed one, those of open transactions,
\* and those that requests are about to save.
Copies(i) == ({db[i]} \cup {pending[q][i] : q \in {q \in Requests : i \in DOMAIN pending[q]}}
                 \cup UNION {Saving(q, i) : q \in Requests}) \ {Absent}

\* Two versions of a row have the same owner, and a user's the same role.
Kin(i, v, w) == v.parent = w.parent /\ (i[1] = "user" => v.cols.role = w.cols.role)

\* Row i is there from the beginning, or may be there by the request it is
\* named after.
Settled(i) == i[2] \in Seeds \/ at[i[2]] \notin {"idle", "looked"}

Versions(i) ==
    /\ \A v, w \in Copies(i) : Kin(i, v, w)
    /\ \A w \in Copies(i) : Fits(i, w)
    /\ Copies(i) # {} => Settled(i)

\* Tokens tell the tenant and the role of their users.
Tokens ==
    \A c \in Callers : c.role # "superuser" /\ c.sub \in Seeds =>
        \A w \in Copies(<<"user", c.sub>>) : w.parent = c.tenant /\ w.cols.role = c.role

Lineage == (\A i \in Ids : Versions(i)) /\ Tokens

-----------------------------------------------------------------------------
(***************************************************************************)
(* Constraints and locks.                                                  *)
(***************************************************************************)
\* Two open transactions have changed different rows, hold different
\* unique values, and neither references what the other has deleted.
Apart(r, q) ==
    /\ DOMAIN pending[r] \cap DOMAIN pending[q] = {}
    /\ \A i \in DOMAIN pending[r], j \in DOMAIN pending[q] :
          (i[1] = j[1] /\ pending[r][i] # Absent /\ pending[q][j] # Absent) =>
              pending[r][i].key # pending[q][j].key
    /\ \A i \in DOMAIN pending[r] :
          (db[i] = Absent /\ pending[r][i] # Absent /\ References(i, pending[r][i])) =>
              LET p == ParentId(i, pending[r][i])
              IN  p \in DOMAIN pending[q] => pending[q][p] # Absent

Constraints ==
    /\ Legal(db)
    /\ \A r \in Requests : Legal(View(r))
    /\ \A r, q \in Requests : r # q => Apart(r, q)

-----------------------------------------------------------------------------
(***************************************************************************)
(* What a request may do, and how far it is.                               *)
(***************************************************************************)
ParentIs(i, p) == \A w \in Copies(i) : w.parent = p

\* The kind of the row whose tenant an operation on row i checks.
Base(i) == IF i[1] \in {"policy", "domain_policy"} THEN ParentKind[i[1]] ELSE i[1]

\* The caller's role and permissions open row i.
Licensed(by, i) ==
    by.role = "member" =>
        \/ i[1] \in {"route", "policy"} /\ "routes" \in by.permissions
        \/ i[1] \in {"domain", "domain_policy"} /\ "domains" \in by.permissions
        \/ i = <<"user", by.sub>>

\* Call c may change version w of row i: it is of the caller's tenant, a
\* policy through the route or domain that the call names.
Rightful(c, i, w) ==
    /\ (c.op # "Register" /\ c.by.role # "superuser") =>
          /\ i[1] = "tenant" => i[2] = c.by.tenant
          /\ i[1] \in {"domain", "route", "user"} => w.parent = c.by.tenant
          /\ i[1] \in {"policy", "domain_policy"} =>
                w.parent = c.on /\ c.on \in Seeds /\ ParentIs(<<Base(i), c.on>>, c.by.tenant)
    /\ (i[1] = "user" /\ c.op # "Register") => i[2] = c.by.sub \/ w.cols.role # "superuser"
    /\ (i[1] = "user" /\ c.op = "DeleteUser") => w.cols.role # "superuser"

\* Request r, with call c, may change row i.
Rights(r, c, i) ==
    /\ Settled(i)
    /\ c.op = "Register" => i[2] = r
    /\ c.op # "Register" => Licensed(c.by, i)
    /\ \A w \in Copies(i) : Rightful(c, i, w)

\* The user's row keeps every column that the operation is not about.
Agrees(op, w, v) ==
    /\ w.parent = v.parent /\ w.key = v.key
    /\ \A x \in DOMAIN v.cols \ Purpose(op) : w.cols[x] = v.cols[x]

\* The committed tables accept w as row i, the tenant that registering has
\* written before its admin apart.
Writable(r, c, i, w) ==
    /\ Holders(db, i[1], w.key) \subseteq {i[2]}
    /\ References(i, w) =>
          \/ db[ParentId(i, w)] # Absent
          \/ c.op = "Register" /\ ParentId(i, w) = <<"tenant", r>>

\* The facts that outlast the reads on which a statement was decided: those
\* about a row until another commit changes it, those about the tables until
\* another commit changes any.
Faithful(r, c, i, w) ==
    /\ (i[1] = "user" /\ i \notin overtaken[r] /\ db[i] # Absent) => Agrees(c.op, w, db[i])
    /\ ~Overlapped(r) => Writable(r, c, i, w)

SoundDelete(r, c, i) ==
    /\ i[2] = c.on /\ i[2] \in Seeds
    /\ i[1] = "user" <=> c.op = "DeleteUser"
    /\ i[1] = "tenant" <=> c.op = "DeleteTenant"
    /\ i[1] = "tenant" => c.by.role = "superuser"
    /\ c.op \notin {"Register", "ChangePassword"}
    /\ Licensed(c.by, i)
    /\ c.by.role # "superuser" => ParentIs(<<Base(i), i[2]>>, c.by.tenant)
    /\ i[1] = "user" => \A w \in Copies(i) : w.cols.role # "superuser"
    /\ (i[1] \in {"route", "domain"} /\ i \notin overtaken[r]) => db[i] # Absent

SoundAudit(r, c, t) ==
    /\ t \in Names
    /\ \/ c.op = "DeleteTenant"
       \/ db["tenant", t] # Absent
       \/ c.op = "CreateTenant" /\ t = r

Sound(r, c, s) ==
    /\ s.do = "save" => Rights(r, c, s.id) /\ Faithful(r, c, s.id, s.row)
    /\ s.do = "delete" => SoundDelete(r, c, s.id)
    /\ s.do = "audit" => SoundAudit(r, c, s.tenant)

Unlogged == {"Register", "ChangePassword"}

\* The last statements of deleting a user.
Anonymizing(s, column, user) == s.do = "anonymize" /\ s.column = column /\ s.id = user
Removal(a, b, d, user) ==
    /\ Anonymizing(a, "actor", user) /\ Anonymizing(b, "resource", user)
    /\ d.do = "delete" /\ d.id = user

\* The plans of the use cases.
Begun(r, c, t) ==
    \/ /\ Len(t) = 2 /\ t[1].do \in {"save", "delete"} /\ t[2].do = "audit"
       /\ t[2].id[1] = "user" => t[1].do = "save" /\ t[1].id = t[2].id
       /\ c.op = "CreateTenant" => t[1].do = "save" /\ t[1].id = <<"tenant", r>>
       /\ c.op \notin Unlogged \cup {"DeleteUser"}
    \/ /\ Len(t) = 2 /\ t[1].do = "save" /\ t[2].do = "save" /\ c.op = "Register"
       /\ t[1].id = <<"tenant", r>> /\ t[2].id = <<"user", r>>
    \/ Len(t) = 1 /\ t[1].do = "save" /\ c.op = "ChangePassword"
    \/ /\ Len(t) = 4 /\ t[1].do = "audit" /\ Removal(t[2], t[3], t[4], <<"user", c.on>>)
       /\ c.op = "DeleteUser" /\ t[1].id = <<"user", c.on>>

\* Rows have been written for the audit row of id j.
Did(r, j) ==
    /\ DOMAIN pending[r] # {} \/ Overlapped(r)
    /\ j[1] = "user" => j \in DOMAIN pending[r]
    /\ \A n \in Names : <<"user", n>> \in DOMAIN pending[r] => pending[r][<<"user", n>>] # Absent
    /\ call[r].op = "CreateTenant" => <<"tenant", r>> \in DOMAIN pending[r]
    /\ call[r].op \notin Unlogged \cup {"DeleteUser"}

\* No audit row has user n in a column, but those that the transaction has
\* anonymized and those that others have committed since it began.
Hides(r, column, n) ==
    \A q \in Requests : Mentions(audit[q], column, n) =>
        <<column, q>> \in forgot[r] \/ <<"audit", q>> \in overtaken[r]
Forgets(r, column, n) == ~Mentions(logged[r], column, n) /\ Hides(r, column, n)

\* What is left of a plan, and what the transaction holds of the rest.
Begins(r) == DOMAIN pending[r] = {} /\ logged[r] = Absent /\ Begun(r, call[r], todo[r])
Wrote(r)  == /\ at[r] = "open" /\ logged[r] = Absent
             /\ Len(todo[r]) = 1 /\ todo[r][1].do = "audit" /\ Did(r, todo[r][1].id)
Told(r)   == at[r] = "open" /\ logged[r] # Absent /\ Len(todo[r]) = 0 /\ Did(r, logged[r].id)
Enrols(r) == /\ call[r].op = "Register" /\ logged[r] = Absent
             /\ Len(todo[r]) = 1 /\ todo[r][1].do = "save" /\ todo[r][1].id = <<"user", r>>
             /\ DOMAIN pending[r] = {<<"tenant", r>>} /\ pending[r][<<"tenant", r>>] # Absent
Quiet(r)  == /\ at[r] = "open" /\ call[r].op \in Unlogged /\ logged[r] = Absent
             /\ Len(todo[r]) = 0 /\ DOMAIN pending[r] # {}
             /\ \A i \in DOMAIN pending[r] : pending[r][i] # Absent
Parts(r)  == LET n == call[r].on
                 user == <<"user", n>> IN
             /\ at[r] = "open" /\ call[r].op = "DeleteUser" /\ logged[r] # Absent
             /\ \/ /\ Len(todo[r]) = 3 /\ Removal(todo[r][1], todo[r][2], todo[r][3], user)
                   /\ DOMAIN pending[r] = {}
                \/ /\ Len(todo[r]) = 2 /\ Anonymizing(todo[r][1], "resource", user)
                   /\ todo[r][2].do = "delete" /\ todo[r][2].id = user
                   /\ DOMAIN pending[r] = {} /\ Forgets(r, "actor", n)
                \/ /\ Len(todo[r]) = 1 /\ todo[r][1].do = "delete" /\ todo[r][1].id = user
                   /\ DOMAIN pending[r] = {} /\ Forgets(r, "actor", n) /\ Forgets(r, "resource", n)
                \/ /\ Len(todo[r]) = 0 /\ DOMAIN pending[r] = {user} /\ pending[r][user] = Absent
                   /\ Forgets(r, "actor", n) /\ Forgets(r, "resource", n)
Stage(r)  == Begins(r) \/ Wrote(r) \/ Told(r) \/ Enrols(r) \/ Quiet(r) \/ Parts(r)

\* The rows an open transaction has written.
Written(r, i) ==
    /\ Rights(r, call[r], i)
    /\ (i[1] = "user" /\ i \notin overtaken[r] /\ db[i] # Absent /\ pending[r][i] # Absent)
          => Agrees(call[r].op, pending[r][i], db[i])
    /\ (i[1] = "tenant" /\ pending[r][i] = Absent) => call[r].op = "DeleteTenant"

\* What the second read of call c relies on, row being what the first found.
Saw(r, c, row) ==
    LET kind == IF c.op = "UpsertPolicy" THEN "route" ELSE "domain"
    IN  /\ c.op \in {"UpdateTenant", "CreateDomain", "CreateMember"} =>
              TenantAccess(c.by, c.on) /\ db["tenant", c.on] # Absent
        /\ c.op \in {"UpsertPolicy", "UpsertDomainPolicy"} =>
              /\ row # Absent /\ TenantAccess(c.by, row.parent)
              /\ ParentIs(<<kind, c.on>>, row.parent)
              /\ row.parent \in Names /\ db["tenant", row.parent] # Absent
              /\ ~Overlapped(r) => db[kind, c.on] = row
        /\ (c.op = "Register" /\ ~Overlapped(r)) => ~Taken("user", c.key)

Running(r) ==
    /\ Stage(r)
    /\ \A k \in 1 .. Len(todo[r]) : Sound(r, call[r], todo[r][k])
    /\ \A i \in DOMAIN pending[r] : Written(r, i)
    /\ (at[r] = "fetched" /\ todo[r][1].id \notin overtaken[r]) => fetched[r] = View(r)[todo[r][1].id]

Conduct(r) ==
    /\ at[r] \in {"looked", "open", "fetched"} => Reaches(call[r])
    /\ at[r] \in {"idle", "looked"} => logged[r] = Absent
    /\ at[r] = "idle" => overtaken[r] = {}
    /\ at[r] = "looked" => Saw(r, call[r], seen[r])
    /\ at[r] \in {"open", "fetched"} => Running(r)

Whole == IInv /\ Lineage /\ Constraints /\ \A r \in Requests : Conduct(r)

-----------------------------------------------------------------------------
\* Request q is to save w as row i.
ToSave(q, i, w) ==
    \E k \in 1 .. Len(todo[q]) : todo[q][k].do = "save" /\ todo[q][k].id = i /\ w = todo[q][k].row

\* Row w is a version of i.
Held(i, w) ==
    /\ w # Absent
    /\ \/ w = db[i]
       \/ \E q \in Requests : i \in DOMAIN pending[q] /\ w = pending[q][i]
       \/ \E q \in Requests : ToSave(q, i, w)

LEMMA Copying ==
    ASSUME NEW i, NEW w
    PROVE  (w \in Copies(i) <=> Held(i, w)) /\ (w \in Copies(i)' <=> Held(i, w)')
<1>1. \A q : w \in Saving(q, i) <=> ToSave(q, i, w)
  BY DEF Saving, ToSave
<1>2. \A q \in Requests : w \in Saving(q, i)' <=> ToSave(q, i, w)'
  BY DEF Saving, ToSave
<1>3. w \in Copies(i) <=> Held(i, w)
  BY <1>1 DEF Copies, Held
<1>4. w \in Copies(i)' <=> Held(i, w)'
  BY <1>2 DEF Copies, Held
<1>5. QED BY <1>3, <1>4

\* A version of a row has the same owner after the step as before.
Steady ==
    \A i \in Ids : Settled(i) =>
        Settled(i)' /\ \A w \in Copies(i)' : \E v \in Copies(i) : Kin(i, v, w)

\* No request gets back to before its statements.
Onwards ==
    \A q \in Requests : at[q] \notin {"idle", "looked"} => at'[q] \notin {"idle", "looked"}

LEMMA KinFacts ==
    ASSUME NEW i, NEW u, NEW v, NEW w
    PROVE  /\ Kin(i, v, v) /\ (Kin(i, v, w) => Kin(i, w, v))
           /\ Kin(i, u, v) /\ Kin(i, v, w) => Kin(i, u, w)
BY DEF Kin

LEMMA LineageStep ==
    ASSUME Lineage, Onwards,
           \A i \in Ids : \A w \in Copies(i)' : Fits(i, w),
           \A i \in Ids : \/ \A w \in Copies(i)' : \E v \in Copies(i) : Kin(i, v, w)
                          \/ ~Settled(i) /\ Settled(i)' /\ \E x : Copies(i)' \subseteq {x}
    PROVE  Lineage' /\ Steady
<1>1. ASSUME NEW i \in Ids, Settled(i) PROVE Settled(i)'
  BY <1>1 DEF Settled, Onwards, Ids, Names
<1>2. ASSUME NEW i \in Ids PROVE Versions(i)'
  <2>1. \A v, w \in Copies(i) : Kin(i, v, w) BY DEF Lineage, Versions
  <2>2. Copies(i) # {} => Settled(i) BY DEF Lineage, Versions
  <2>3. \A v, w \in Copies(i)' : Kin(i, v, w)
    <3>1. CASE \A w \in Copies(i)' : \E v \in Copies(i) : Kin(i, v, w)
      <4> SUFFICES ASSUME NEW v \in Copies(i)', NEW w \in Copies(i)' PROVE Kin(i, v, w)
        OBVIOUS
      <4>1. PICK a \in Copies(i) : Kin(i, a, v) BY <3>1
      <4>2. PICK b \in Copies(i) : Kin(i, b, w) BY <3>1
      <4>3. Kin(i, a, b) BY <2>1
      <4>4. QED BY <4>1, <4>2, <4>3, KinFacts
    <3>2. CASE \E x : Copies(i)' \subseteq {x} BY <3>2, KinFacts
    <3>3. QED BY <3>1, <3>2
  <2>4. Copies(i)' # {} => Settled(i)' BY <1>1, <2>2
  <2>5. QED BY <2>3, <2>4 DEF Versions, Fits
<1>3. Tokens'
  <2> SUFFICES ASSUME NEW c \in Callers, c.role # "superuser", c.sub \in Seeds,
                      NEW w \in Copies(<<"user", c.sub>>)'
               PROVE  w.parent = c.tenant /\ w.cols.role = c.role
    BY DEF Tokens
  <2> DEFINE i == <<"user", c.sub>>
  <2>1. i \in Ids /\ Settled(i) /\ i[1] = "user" BY DEF Ids, Kinds, Names, Settled
  <2>2. \A v \in Copies(i) : v.parent = c.tenant /\ v.cols.role = c.role BY DEF Lineage, Tokens
  <2>3. PICK v \in Copies(i) : Kin(i, v, w) BY <2>1
  <2> HIDE DEF i
  <2>4. QED BY <2>1, <2>2, <2>3 DEF Kin
<1>4. Steady BY <1>1 DEF Steady
<1>5. QED BY <1>2, <1>3, <1>4 DEF Lineage

\* Most steps bring no new version of a row.
LEMMA NothingNew ==
    ASSUME Lineage, Onwards, \A i \in Ids : Copies(i)' \subseteq Copies(i)
    PROVE  Lineage' /\ Steady
<1>1. \A i \in Ids : \A w \in Copies(i)' : Fits(i, w) BY DEF Lineage, Versions
<1>2. \A i \in Ids : \A w \in Copies(i)' : \E v \in Copies(i) : Kin(i, v, w)
  BY KinFacts
<1>3. QED BY <1>1, <1>2, LineageStep

\* What the other requests have stays.
LEMMA OthersSame ==
    ASSUME IInv, NEW r \in Requests, OnlyOf(r), NEW q \in Requests, q # r
    PROVE  /\ at'[q] = at[q] /\ call'[q] = call[q] /\ seen'[q] = seen[q] /\ todo'[q] = todo[q]
           /\ pending'[q] = pending[q] /\ logged'[q] = logged[q] /\ overtaken'[q] = overtaken[q]
           /\ fetched'[q] = fetched[q] /\ forgot'[q] = forgot[q] /\ answer'[q] = answer[q]
BY DEF IInv, Entries, OnlyOf

LEMMA Sequential == ASSUME IInv, NEW r \in Requests PROVE todo[r] \in Seq(Statement)
<1>1. Plan(r) BY DEF IInv, Course
<1>2. CASE Good(r, todo[r]) BY <1>2 DEF Good
<1>3. ASSUME NEW n \in Names, NEW by \in Claims
      PROVE  /\ DeletesTenant(n, by) \in Seq(Statement)
             /\ <<Audit(n, "tenant", n, by)>> \in Seq(Statement)
  <2>1. <<"tenant", n>> \in Ids BY DEF Ids, Kinds
  <2>2. Delete("tenant", n) \in Statement BY <2>1 DEF Delete, Statement
  <2>3. Audit(n, "tenant", n, by) \in Statement BY <2>1 DEF Audit, Statement, Claims
  <2>4. QED BY <2>2, <2>3 DEF DeletesTenant
<1>4. QED BY <1>1, <1>2, <1>3 DEF Plan

\* The statements that are left are statements there were.
LEMMA Leftovers ==
    ASSUME IInv, NEW r \in Requests,
           todo'[r] \in {<<>>, todo[r]} \/ (todo[r] # <<>> /\ todo'[r] = Tail(todo[r]))
    PROVE  \A k \in 1 .. Len(todo'[r]) : \E m \in 1 .. Len(todo[r]) : todo'[r][k] = todo[r][m]
<1>1. CASE todo'[r] = <<>> BY <1>1
<1>2. CASE todo'[r] = todo[r] BY <1>2
<1>3. CASE todo[r] # <<>> /\ todo'[r] = Tail(todo[r])
  <2>1. todo[r] \in Seq(Statement) BY Sequential
  <2>2. Len(todo[r]) \in Nat /\ Len(Tail(todo[r])) = Len(todo[r]) - 1
        /\ \A k \in 1 .. Len(Tail(todo[r])) : Tail(todo[r])[k] = todo[r][k + 1]
    BY <1>3, <2>1, HeadTailProperties, LenProperties
  <2>3. \A k \in 1 .. Len(Tail(todo[r])) : k + 1 \in 1 .. Len(todo[r]) BY <2>2
  <2>4. QED BY <1>3, <2>2, <2>3
<1>4. QED BY <1>1, <1>2, <1>3

LEMMA LeftToSave ==
    ASSUME IInv, NEW r \in Requests,
           todo'[r] \in {<<>>, todo[r]} \/ (todo[r] # <<>> /\ todo'[r] = Tail(todo[r])),
           NEW i, NEW w, ToSave(r, i, w)'
    PROVE  ToSave(r, i, w)
<1>1. PICK k \in 1 .. Len(todo'[r]) :
             todo'[r][k].do = "save" /\ todo'[r][k].id = i /\ w = todo'[r][k].row
  BY DEF ToSave
<1>2. PICK m \in 1 .. Len(todo[r]) : todo'[r][k] = todo[r][m] BY Leftovers
<1>3. QED BY <1>1, <1>2 DEF ToSave

\* The versions of a row after a step of request r.
LEMMA CopiesOf ==
    ASSUME IInv, NEW r \in Requests, OnlyOf(r), NEW i, NEW w \in Copies(i)'
    PROVE  \/ w \in Copies(i)
           \/ w # Absent /\ i \in DOMAIN pending'[r] /\ w = pending'[r][i]
           \/ w # Absent /\ ToSave(r, i, w)'
<1>1. Held(i, w)' BY Copying
<1>2. db' = db BY DEF OnlyOf, store
<1>3. CASE w = db'[i] BY <1>1, <1>2, <1>3, Copying DEF Held
<1>4. ASSUME NEW q \in Requests, i \in DOMAIN pending'[q], w = pending'[q][i], q # r
      PROVE  w \in Copies(i)
  BY <1>1, <1>4, OthersSame, Copying DEF Held
<1>5. ASSUME NEW q \in Requests, q # r, ToSave(q, i, w)' PROVE w \in Copies(i)
  <2>1. ToSave(q, i, w) BY <1>5, OthersSame DEF ToSave
  <2>2. QED BY <1>1, <2>1, Copying DEF Held
<1>6. QED BY <1>1, <1>3, <1>4, <1>5 DEF Held

\* A step that gets on with the statements and writes only what it was
\* to save.
LEMMA CopiesShrink ==
    ASSUME IInv, NEW r \in Requests, OnlyOf(r), NEW i,
           todo'[r] \in {<<>>, todo[r]} \/ (todo[r] # <<>> /\ todo'[r] = Tail(todo[r])),
           i \in DOMAIN pending'[r] =>
              pending'[r][i] = Absent \/ (i \in DOMAIN pending[r] /\ pending'[r][i] = pending[r][i])
    PROVE  Copies(i)' \subseteq Copies(i)
<1> SUFFICES ASSUME NEW w \in Copies(i)' PROVE w \in Copies(i)
  OBVIOUS
<1>1. ASSUME w # Absent, i \in DOMAIN pending'[r], w = pending'[r][i] PROVE w \in Copies(i)
  BY <1>1, Copying DEF Held
<1>2. ASSUME w # Absent, ToSave(r, i, w)' PROVE w \in Copies(i)
  BY <1>2, LeftToSave, Copying DEF Held
<1>3. QED BY <1>1, <1>2, CopiesOf

-----------------------------------------------------------------------------
(***************************************************************************)
(* The kinds of steps, and what each leaves to its request.                *)
(***************************************************************************)
\* A statement of request r is done, and the tables accept what it changes.
Applies(r, change) ==
    ~Waits(r, change, Absent) /\ Legal(Over(View(r), change)) /\ Writes(r, change)

Put(r, w) == [i \in {Head(todo[r]).id} |-> w]

\* save() writes row w.
Puts(r, w) ==
    LET s == Head(todo[r])
        row == View(r)[s.id]
    IN  /\ at[r] = "fetched"
        /\ Applies(r, Put(r, w))
        /\ \/ fetched[r] = Absent /\ row = Absent /\ w = s.row
           \/ fetched[r] # Absent /\ row # Absent /\ w = Updated(row, fetched[r], s.row)

\* What delete() takes along.
Gone(r) == [j \in Cascade(View(r), Victims(View(r), Head(todo[r]).id)) |-> Absent]

Removes(r) ==
    /\ At(r, "delete") /\ Applies(r, Gone(r))
    /\ Victims(View(r), Head(todo[r]).id) = {} => Head(todo[r]).id[1] \in {"route", "domain"}

Records(r) ==
    LET s == Head(todo[r])
    IN  /\ At(r, "audit") /\ View(r)["tenant", s.tenant] # Absent /\ Next1(r)
        /\ logged' = [logged EXCEPT ![r] = s] /\ UNCHANGED <<pending, fetched>>

\* The other variables of request r stay.
Keeps(r) ==
    /\ call'[r] = call[r] /\ seen'[r] = seen[r] /\ overtaken'[r] = overtaken[r]
    /\ answer'[r] = answer[r]

LEMMA RollsBackFacts ==
    ASSUME IInv, NEW r \in Requests, NEW how, RollsBack(r, how)
    PROVE  /\ OnlyOf(r) /\ at'[r] = "done" /\ todo'[r] = <<>> /\ pending'[r] = <<>>
           /\ logged'[r] = Absent /\ overtaken'[r] = {} /\ answer'[r] = how
<1>1. /\ at'[r] = "done" /\ todo'[r] = <<>> /\ pending'[r] = <<>> /\ logged'[r] = Absent
      /\ call'[r] = NoCall /\ seen'[r] = Absent /\ fetched'[r] = Absent /\ forgot'[r] = {}
      /\ overtaken'[r] = {} /\ answer'[r] = how
  BY DEF IInv, Entries, RollsBack, Ends
<1>2. OnlyOf(r)
  BY <1>1 DEF OnlyOf, RollsBack, Ends
<1>3. QED BY <1>1, <1>2

LEMMA LooksFacts ==
    ASSUME IInv, NEW r \in Requests, NEW c, NEW row, Looks(r, c, row)
    PROVE  /\ OnlyOf(r) /\ at'[r] = "looked" /\ call'[r] = c /\ seen'[r] = row
           /\ todo'[r] = todo[r] /\ pending'[r] = pending[r] /\ logged'[r] = logged[r]
           /\ overtaken'[r] = overtaken[r] /\ answer'[r] = answer[r]
<1>1. /\ at'[r] = "looked" /\ call'[r] = c /\ seen'[r] = row /\ todo'[r] = todo[r]
      /\ pending'[r] = pending[r] /\ logged'[r] = logged[r] /\ fetched'[r] = fetched[r]
      /\ forgot'[r] = forgot[r] /\ overtaken'[r] = overtaken[r] /\ answer'[r] = answer[r]
  BY DEF IInv, Entries, Looks, trans
<1>2. OnlyOf(r)
  BY <1>1 DEF OnlyOf, Looks, trans, IInv, Entries
<1>3. QED BY <1>1, <1>2

LEMMA OpensFacts ==
    ASSUME IInv, NEW r \in Requests, NEW c, NEW t, Opens(r, c, t)
    PROVE  /\ OnlyOf(r) /\ at'[r] = "open" /\ call'[r] = c /\ todo'[r] = t
           /\ pending'[r] = pending[r] /\ logged'[r] = logged[r]
           /\ overtaken'[r] = overtaken[r] /\ answer'[r] = answer[r]
<1>1. /\ at'[r] = "open" /\ call'[r] = c /\ seen'[r] = Absent /\ todo'[r] = t
      /\ pending'[r] = pending[r] /\ logged'[r] = logged[r] /\ fetched'[r] = fetched[r]
      /\ forgot'[r] = forgot[r] /\ overtaken'[r] = overtaken[r] /\ answer'[r] = answer[r]
  BY DEF IInv, Entries, Opens, trans
<1>2. OnlyOf(r)
  BY <1>1 DEF OnlyOf, Opens, trans, IInv, Entries
<1>3. QED BY <1>1, <1>2

LEMMA SelectsFacts ==
    ASSUME IInv, NEW r \in Requests, SaveSelects(r)
    PROVE  /\ OnlyOf(r) /\ Keeps(r) /\ at'[r] = "fetched" /\ todo'[r] = todo[r]
           /\ pending'[r] = pending[r] /\ logged'[r] = logged[r] /\ forgot'[r] = forgot[r]
           /\ fetched'[r] = View(r)[Head(todo[r]).id]
<1>1. /\ at'[r] = "fetched" /\ call'[r] = call[r] /\ seen'[r] = seen[r] /\ todo'[r] = todo[r]
      /\ pending'[r] = pending[r] /\ logged'[r] = logged[r]
      /\ fetched'[r] = View(r)[Head(todo[r]).id] /\ forgot'[r] = forgot[r]
      /\ overtaken'[r] = overtaken[r] /\ answer'[r] = answer[r] /\ UNCHANGED store
  BY DEF IInv, Entries, SaveSelects, trans
<1>2. OnlyOf(r)
  BY <1>1 DEF OnlyOf, SaveSelects, trans, IInv, Entries
<1>3. QED BY <1>1, <1>2 DEF Keeps

LEMMA AppliesFacts ==
    ASSUME IInv, NEW r \in Requests, NEW change, Applies(r, change)
    PROVE  /\ OnlyOf(r) /\ Keeps(r) /\ at'[r] = "open" /\ todo'[r] = Tail(todo[r])
           /\ logged'[r] = logged[r] /\ forgot'[r] = forgot[r]
           /\ DOMAIN pending'[r] = DOMAIN pending[r] \cup DOMAIN change
           /\ \A i \in DOMAIN change : pending'[r][i] = change[i]
           /\ \A i \in DOMAIN pending[r] \ DOMAIN change : pending'[r][i] = pending[r][i]
<1> DEFINE p == [i \in DOMAIN pending[r] \cup DOMAIN change |->
                   IF i \in DOMAIN change THEN change[i] ELSE pending[r][i]]
<1>1. Next1(r) /\ pending' = [pending EXCEPT ![r] = p]
      /\ fetched' = [fetched EXCEPT ![r] = Absent] /\ logged' = logged
  BY DEF Applies, Writes
<1>2. /\ at'[r] = "open" /\ call'[r] = call[r] /\ seen'[r] = seen[r]
      /\ todo'[r] = Tail(todo[r]) /\ pending'[r] = p /\ logged'[r] = logged[r]
      /\ fetched'[r] = Absent /\ forgot'[r] = forgot[r] /\ overtaken'[r] = overtaken[r]
      /\ answer'[r] = answer[r] /\ UNCHANGED store
  BY <1>1 DEF IInv, Entries, Next1
<1>3. OnlyOf(r)
  <2> HIDE DEF p
  <2> QED BY <1>1, <1>2 DEF OnlyOf, Next1, IInv, Entries
<1>4. /\ DOMAIN p = DOMAIN pending[r] \cup DOMAIN change
      /\ \A i \in DOMAIN change : p[i] = change[i]
      /\ \A i \in DOMAIN pending[r] \ DOMAIN change : p[i] = pending[r][i]
  OBVIOUS
<1> HIDE DEF p
<1>5. QED BY <1>2, <1>3, <1>4 DEF Keeps

LEMMA RecordsFacts ==
    ASSUME IInv, NEW r \in Requests, Records(r)
    PROVE  /\ OnlyOf(r) /\ Keeps(r) /\ at'[r] = "open" /\ todo'[r] = Tail(todo[r])
           /\ pending'[r] = pending[r] /\ logged'[r] = Head(todo[r]) /\ forgot'[r] = forgot[r]
<1>1. /\ at'[r] = "open" /\ call'[r] = call[r] /\ seen'[r] = seen[r] /\ todo'[r] = Tail(todo[r])
      /\ pending'[r] = pending[r] /\ logged'[r] = Head(todo[r]) /\ fetched'[r] = fetched[r]
      /\ forgot'[r] = forgot[r] /\ overtaken'[r] = overtaken[r] /\ answer'[r] = answer[r]
      /\ UNCHANGED store
  BY DEF IInv, Entries, Records, Next1
<1>2. OnlyOf(r)
  BY <1>1 DEF OnlyOf, IInv, Entries, Records, Next1
<1>3. QED BY <1>1, <1>2 DEF Keeps

\* What an UPDATE of the audit rows leaves of the transaction's own, and the
\* ones it locks.
Blanked(r, s) ==
    IF Mentions(logged[r], s.column, s.id[2]) THEN Anonymous(logged[r], {s.column}) ELSE logged[r]
Hit(s) == {q \in Requests : Mentions(audit[q], s.column, s.id[2])}

LEMMA AnonymizesFacts ==
    ASSUME IInv, NEW r \in Requests, Anonymizes(r)
    PROVE  /\ OnlyOf(r) /\ Keeps(r) /\ at'[r] = "open" /\ todo'[r] = Tail(todo[r])
           /\ pending'[r] = pending[r] /\ logged'[r] = Blanked(r, Head(todo[r]))
           /\ forgot'[r] = forgot[r] \cup ({Head(todo[r]).column} \X Hit(Head(todo[r])))
<1> DEFINE l == Blanked(r, Head(todo[r]))
           g == forgot[r] \cup ({Head(todo[r]).column} \X Hit(Head(todo[r])))
<1>1. logged' = [logged EXCEPT ![r] = l] /\ forgot' = [forgot EXCEPT ![r] = g]
  BY DEF Anonymizes, Blanked, Hit, IInv, Entries
<1> HIDE DEF l, g
<1>2. /\ at'[r] = "open" /\ call'[r] = call[r] /\ seen'[r] = seen[r] /\ todo'[r] = Tail(todo[r])
      /\ pending'[r] = pending[r] /\ logged'[r] = l /\ fetched'[r] = fetched[r]
      /\ forgot'[r] = g /\ overtaken'[r] = overtaken[r]
      /\ answer'[r] = answer[r] /\ UNCHANGED store
  BY <1>1 DEF IInv, Entries, Anonymizes, At
<1>3. OnlyOf(r)
  BY <1>1, <1>2 DEF OnlyOf, IInv, Entries, Anonymizes
<1>4. QED BY <1>2, <1>3 DEF Keeps, l, g

LEMMA CommitsFacts ==
    ASSUME IInv, NEW r \in Requests, Commits(r)
    PROVE  /\ at[r] = "open" /\ todo[r] = <<>>
           /\ \A i \in Ids : db'[i] = IF i \in DOMAIN pending[r] THEN pending[r][i] ELSE db[i]
           /\ at'[r] = "done" /\ todo'[r] = <<>> /\ pending'[r] = <<>> /\ logged'[r] = Absent
           /\ overtaken'[r] = {} /\ answer'[r] = "ok"
           /\ \A q \in Requests \ {r} :
                 /\ at'[q] = at[q] /\ call'[q] = call[q] /\ seen'[q] = seen[q] /\ todo'[q] = todo[q]
                 /\ pending'[q] = pending[q] /\ logged'[q] = logged[q] /\ answer'[q] = answer[q]
                 /\ fetched'[q] = fetched[q] /\ forgot'[q] = forgot[q]
                 /\ overtaken'[q] = IF at[q] \in {"idle", "done"} THEN {}
                                    ELSE overtaken[q] \cup DOMAIN pending[r]
                                           \cup IF logged[r] = Absent THEN {} ELSE {<<"audit", r>>}
<1>1. /\ at[r] = "open" /\ todo[r] = <<>>
      /\ \A i \in Ids : db'[i] = IF i \in DOMAIN pending[r] THEN pending[r][i] ELSE db[i]
  BY DEF Commits, Over
<1>2. /\ at'[r] = "done" /\ todo'[r] = <<>> /\ pending'[r] = <<>> /\ logged'[r] = Absent
      /\ overtaken'[r] = {} /\ answer'[r] = "ok"
  BY DEF IInv, Entries, Commits, Ends
<1>3. ASSUME NEW q \in Requests \ {r}
      PROVE  /\ at'[q] = at[q] /\ call'[q] = call[q] /\ seen'[q] = seen[q] /\ todo'[q] = todo[q]
             /\ pending'[q] = pending[q] /\ logged'[q] = logged[q] /\ answer'[q] = answer[q]
             /\ fetched'[q] = fetched[q] /\ forgot'[q] = forgot[q]
             /\ overtaken'[q] = IF at[q] \in {"idle", "done"} THEN {}
                                ELSE overtaken[q] \cup DOMAIN pending[r]
                                       \cup IF logged[r] = Absent THEN {} ELSE {<<"audit", r>>}
  BY <1>3 DEF IInv, Entries, Commits, Ends
<1>4. QED BY <1>1, <1>2, <1>3

-----------------------------------------------------------------------------
(***************************************************************************)
(* Lineage.                                                                *)
(***************************************************************************)
\* Request r may decide, on its call c, to save w as row i: a row of its own,
\* or one that is there or has been.
Proposes(r, c, i, w) ==
    /\ i \in Ids /\ w \in RowsOf(i[1]) /\ Fits(i, w)
    /\ i[2] = r \/ \E v \in Copies(i) : Kin(i, v, w)
    /\ c.op = "Register" => i[2] = r
    /\ c.op # "Register" => Licensed(c.by, i)
    /\ Rightful(c, i, w)
    /\ Faithful(r, c, i, w)

\* What its use case has decided.
Opened(r, c, t) ==
    /\ Begun(r, c, t)
    /\ \A k \in 1 .. Len(t) :
          /\ t[k].do = "save" => Proposes(r, c, t[k].id, t[k].row)
          /\ t[k].do = "delete" => t[k].id \in Ids /\ SoundDelete(r, c, t[k].id)
          /\ t[k].do = "audit" => SoundAudit(r, c, t[k].tenant)

\* A plan saves a row once.
Once(t, i) ==
    \E x : \A k \in 1 .. Len(t) : (t[k].do = "save" /\ t[k].id = i) => t[k].row = x

LEMMA SavesOnce ==
    ASSUME NEW r, NEW c, NEW t, Begun(r, c, t), NEW i
    PROVE  Once(t, i)
<1> USE DEF Once
<1>0. \A k \in 1 .. 2 : k = 1 \/ k = 2 OBVIOUS
<1>1. CASE Len(t) = 2 /\ t[2].do = "audit"
  <2>1. \A k \in 1 .. Len(t) : (t[k].do = "save" /\ t[k].id = i) => t[k].row = t[1].row
    BY <1>0, <1>1
  <2>2. QED BY <2>1
<1>2. CASE Len(t) = 2 /\ t[1].id = <<"tenant", r>> /\ t[2].id = <<"user", r>>
  <2>1. t[1].id # t[2].id BY <1>2
  <2>2. CASE i = t[1].id
    <3>1. \A k \in 1 .. Len(t) : (t[k].do = "save" /\ t[k].id = i) => t[k].row = t[1].row
      BY <1>0, <1>2, <2>1, <2>2
    <3>2. QED BY <3>1
  <2>3. CASE i # t[1].id
    <3>1. \A k \in 1 .. Len(t) : (t[k].do = "save" /\ t[k].id = i) => t[k].row = t[2].row
      BY <1>0, <1>2, <2>3
    <3>2. QED BY <3>1
  <2>4. QED BY <2>2, <2>3
<1>3. CASE Len(t) = 1
  <2>1. \A k \in 1 .. Len(t) : (t[k].do = "save" /\ t[k].id = i) => t[k].row = t[1].row
    BY <1>3
  <2>2. QED BY <2>1
<1>4. CASE Len(t) = 4 /\ t[1].do = "audit" /\ Removal(t[2], t[3], t[4], <<"user", c.on>>)
  <2>0. t[2].do = "anonymize" /\ t[3].do = "anonymize" /\ t[4].do = "delete"
    BY <1>4 DEF Removal, Anonymizing
  <2>1. \A k \in 1 .. 4 : k = 1 \/ k = 2 \/ k = 3 \/ k = 4 OBVIOUS
  <2>2. \A k \in 1 .. Len(t) : t[k].do # "save" BY <1>4, <2>0, <2>1
  <2>3. QED BY <2>2
<1>5. QED BY <1>1, <1>2, <1>3, <1>4 DEF Begun

\* Requests get on.
LEMMA GetsOn ==
    ASSUME IInv, NEW r \in Requests, OnlyOf(r),
           at'[r] \notin {"idle", "looked"} \/ at[r] \in {"idle", "looked"}
    PROVE  Onwards
BY OthersSame DEF Onwards

LEMMA OpensLineage ==
    ASSUME IInv, Lineage, NEW r \in Requests, NEW c, NEW t, at[r] \in {"idle", "looked"},
           Opens(r, c, t), Opened(r, c, t)
    PROVE  Lineage' /\ Steady
<1>1. OnlyOf(r) /\ at'[r] = "open" /\ todo'[r] = t /\ pending'[r] = pending[r]
  BY OpensFacts
<1>2. DOMAIN pending[r] = {} BY DEF IInv, Course
<1>3. Onwards BY <1>1, GetsOn
<1>4. ASSUME NEW i \in Ids, NEW w \in Copies(i)', w \notin Copies(i)
      PROVE  /\ Proposes(r, c, i, w)
             /\ \E k \in 1 .. Len(t) : t[k].do = "save" /\ t[k].id = i /\ w = t[k].row
  <2>1. PICK k \in 1 .. Len(t) : t[k].do = "save" /\ t[k].id = i /\ w = t[k].row
    BY <1>1, <1>2, <1>4, CopiesOf DEF ToSave
  <2>2. QED BY <2>1 DEF Opened
<1>5. \A i \in Ids : \A w \in Copies(i)' : Fits(i, w)
  BY <1>4 DEF Proposes, Lineage, Versions
<1>6. ASSUME NEW i \in Ids
      PROVE  \/ \A w \in Copies(i)' : \E v \in Copies(i) : Kin(i, v, w)
             \/ ~Settled(i) /\ Settled(i)' /\ \E x : Copies(i)' \subseteq {x}
  <2>1. CASE Settled(i)
    <3>1. i[2] # r BY <2>1, FreshAssumption DEF Settled
    <3>2. QED BY <1>4, <3>1, KinFacts DEF Proposes
  <2>2. CASE ~Settled(i)
    <3>1. Copies(i) = {} BY <2>2 DEF Lineage, Versions
    <3>2. CASE Copies(i)' = {} BY <3>2
    <3>3. CASE Copies(i)' # {}
      <4>1. i[2] = r BY <1>4, <3>1, <3>3 DEF Proposes
      <4>2. Settled(i)' BY <1>1, <4>1 DEF Settled
      <4>3. Begun(r, c, t) BY DEF Opened
      <4>5. Once(t, i) BY <4>3, SavesOnce
      <4> PICK x : \A k \in 1 .. Len(t) : (t[k].do = "save" /\ t[k].id = i) => t[k].row = x
        BY <4>5 DEF Once
      <4>4. Copies(i)' \subseteq {x} BY <1>4, <3>1
      <4>6. QED BY <2>2, <4>2, <4>4
    <3>4. QED BY <3>2, <3>3
  <2>3. QED BY <2>1, <2>2
<1>7. QED BY <1>3, <1>5, <1>6, LineageStep

-----------------------------------------------------------------------------
\* The fields of an updated row.
LEMMA UpdatedFields ==
    ASSUME NEW k \in Kinds, NEW row \in RowsOf(k), NEW old, NEW new
    PROVE  /\ Updated(row, old, new).parent = row.parent
           /\ Updated(row, old, new).key = IF new.key = old.key THEN row.key ELSE new.key
           /\ DOMAIN Updated(row, old, new).cols = DOMAIN row.cols
           /\ \A x \in DOMAIN row.cols :
                 Updated(row, old, new).cols[x] =
                    IF new.cols[x] = old.cols[x] \/ (x = "signing" /\ Keyless(new))
                    THEN row.cols[x] ELSE new.cols[x]
<1> DEFINE cols == [c \in DOMAIN row.cols |->
                      IF new.cols[c] = old.cols[c] \/ (c = "signing" /\ Keyless(new))
                      THEN row.cols[c] ELSE new.cols[c]]
           key == IF new.key = old.key THEN row.key ELSE new.key
<1>1. Updated(row, old, new) = [row EXCEPT !.key = key, !.cols = cols] BY DEF Updated
<1>2. /\ DOMAIN cols = DOMAIN row.cols
      /\ \A x \in DOMAIN row.cols :
            cols[x] = IF new.cols[x] = old.cols[x] \/ (x = "signing" /\ Keyless(new))
                      THEN row.cols[x] ELSE new.cols[x]
  OBVIOUS
<1>3. key = IF new.key = old.key THEN row.key ELSE new.key OBVIOUS
<1> HIDE DEF key, cols
<1>4. /\ Updated(row, old, new).parent = row.parent
      /\ Updated(row, old, new).key = key /\ Updated(row, old, new).cols = cols
  BY <1>1 DEF RowsOf
<1>5. QED BY <1>2, <1>3, <1>4

\* An UPDATE changes neither a row's owner nor a user's role.
LEMMA UpdatedKin ==
    ASSUME NEW i \in Ids, NEW row \in RowsOf(i[1]), NEW new \in RowsOf(i[1]), NEW old,
           Kin(i, row, new), Fits(i, row), Fits(i, new)
    PROVE  Kin(i, row, Updated(row, old, new)) /\ Fits(i, Updated(row, old, new))
<1> DEFINE w == Updated(row, old, new)
<1>1. i[1] \in Kinds BY DEF Ids
<1>2. w.parent = row.parent /\ w.key \in {row.key, new.key} BY <1>1, UpdatedFields
<1>3. ASSUME i[1] = "user" PROVE w.cols.role = row.cols.role
  <2>1. "role" \in DOMAIN row.cols BY <1>3 DEF RowsOf, ColumnsOf, UserColumns
  <2>2. w.cols["role"] \in {row.cols["role"], new.cols["role"]} BY <1>1, <2>1, UpdatedFields
  <2>3. QED BY <1>3, <2>2 DEF Kin
<1> HIDE DEF w
<1>4. Kin(i, row, w) BY <1>2, <1>3 DEF Kin
<1>5. Fits(i, w) BY <1>2, <1>3 DEF Kin, Fits
<1>6. QED BY <1>4, <1>5 DEF w

\* What a request sees are versions.
LEMMA ViewCopies ==
    ASSUME NEW r \in Requests, NEW i \in Ids, View(r)[i] # Absent
    PROVE  View(r)[i] \in Copies(i)
BY Copying DEF View, Held

LEMMA HeadCopies ==
    ASSUME IInv, NEW r \in Requests, todo[r] # <<>>, Head(todo[r]).do = "save"
    PROVE  /\ Head(todo[r]).id \in Ids /\ Head(todo[r]).row \in RowsOf(Head(todo[r]).id[1])
           /\ Head(todo[r]).row \in Copies(Head(todo[r]).id)
           /\ Head(todo[r]) = todo[r][1] /\ 1 \in 1 .. Len(todo[r])
<1>1. StmtOK(r, Head(todo[r])) BY NextStatement, Doings
<1>2. Head(todo[r]) = todo[r][1] /\ 1 \in 1 .. Len(todo[r])
  <2>1. todo[r] \in Seq(Statement) BY Sequential
  <2>2. QED BY <2>1, LenProperties, EmptySeq
<1>3. Head(todo[r]).row # Absent BY <1>1, RowTypes DEF StmtOK
<1>4. QED BY <1>1, <1>2, <1>3, Copying DEF StmtOK, Held, ToSave, Statement

\* The row that save() writes.
LEMMA PutFacts ==
    ASSUME IInv, Lineage, NEW r \in Requests, NEW w, Puts(r, w)
    PROVE  LET i == Head(todo[r]).id
               s == Head(todo[r]).row
           IN  /\ i \in Ids /\ s \in Copies(i) /\ Kin(i, s, w) /\ Fits(i, w)
               /\ w \in RowsOf(i[1])
<1> DEFINE i == Head(todo[r]).id
           s == Head(todo[r]).row
           row == View(r)[i]
<1>1. todo[r] # <<>> /\ Head(todo[r]).do = "save" BY DEF Puts, IInv, Course
<1>2. i \in Ids /\ s \in Copies(i) /\ s \in RowsOf(i[1]) BY <1>1, HeadCopies
<1>3. (\A u, v \in Copies(i) : Kin(i, u, v)) /\ (\A v \in Copies(i) : Fits(i, v))
  BY <1>2 DEF Lineage, Versions
<1>4. CASE w = s BY <1>2, <1>3, <1>4
<1>5. CASE row # Absent /\ w = Updated(row, fetched[r], s)
  <2>1. row \in Copies(i) /\ row \in RowsOf(i[1]) BY <1>2, <1>5, ViewCopies, ViewTyped
  <2>2. Kin(i, row, s) /\ Kin(i, s, row) /\ Fits(i, s) /\ Fits(i, row) BY <1>2, <1>3, <2>1
  <2> HIDE DEF row, s, i
  <2>3. Kin(i, row, w) /\ Fits(i, w) BY <1>2, <1>5, <2>1, <2>2, UpdatedKin
  <2>4. i[1] \in Kinds BY <1>2 DEF Ids
  <2>5. w \in RowsOf(i[1]) BY <1>2, <1>5, <2>1, <2>4, UpdatedTyped
  <2>6. QED BY <1>2, <2>2, <2>3, <2>5, KinFacts DEF i, s
<1>6. (w = s) \/ (row # Absent /\ w = Updated(row, fetched[r], s)) BY DEF Puts
<1>7. QED BY <1>4, <1>5, <1>6

LEMMA PutsLineage ==
    ASSUME IInv, Lineage, NEW r \in Requests, NEW w, Puts(r, w)
    PROVE  Lineage' /\ Steady
<1> PICK i : i = Head(todo[r]).id OBVIOUS
<1>1. /\ OnlyOf(r) /\ at'[r] = "open" /\ todo'[r] = Tail(todo[r])
      /\ DOMAIN pending'[r] = DOMAIN pending[r] \cup DOMAIN Put(r, w)
      /\ \A j \in DOMAIN Put(r, w) : pending'[r][j] = Put(r, w)[j]
      /\ \A j \in DOMAIN pending[r] \ DOMAIN Put(r, w) : pending'[r][j] = pending[r][j]
  BY AppliesFacts DEF Puts
<1>2. DOMAIN Put(r, w) = {i} /\ Put(r, w)[i] = w BY DEF Put
<1>3. PICK s \in Copies(i) : Kin(i, s, w) /\ Fits(i, w) BY PutFacts
<1>4. todo[r] # <<>> BY DEF Puts, IInv, Course
<1>5. Onwards BY <1>1, GetsOn
<1>6. ASSUME NEW j \in Ids, j # i PROVE Copies(j)' \subseteq Copies(j)
  BY <1>1, <1>2, <1>4, <1>6, CopiesShrink
<1>7. ASSUME NEW v \in Copies(i)' PROVE v \in Copies(i) \/ v = w
  <2>0. \/ v \in Copies(i)
        \/ v # Absent /\ i \in DOMAIN pending'[r] /\ v = pending'[r][i]
        \/ v # Absent /\ ToSave(r, i, v)'
    BY <1>1, CopiesOf
  <2>1. CASE v # Absent /\ i \in DOMAIN pending'[r] /\ v = pending'[r][i] BY <1>1, <1>2, <2>1
  <2>2. ASSUME v # Absent, ToSave(r, i, v)' PROVE v \in Copies(i)
    BY <1>1, <1>4, <2>2, LeftToSave, Copying DEF Held
  <2>3. QED BY <2>0, <2>1, <2>2
<1>8. ASSUME NEW j \in Ids
      PROVE  \A v \in Copies(j)' : Fits(j, v) /\ \E u \in Copies(j) : Kin(j, u, v)
  <2>1. \A v \in Copies(j) : Fits(j, v) /\ Kin(j, v, v) BY KinFacts DEF Lineage, Versions
  <2>2. CASE j = i BY <1>3, <1>7, <2>1, <2>2
  <2>3. CASE j # i BY <1>6, <2>1, <2>3
  <2>4. QED BY <2>2, <2>3
<1>9. QED BY <1>5, <1>8, LineageStep

\* A step of request r that writes no row.
LEMMA LocalLineage ==
    ASSUME IInv, Lineage, NEW r \in Requests, OnlyOf(r),
           todo'[r] \in {<<>>, todo[r]} \/ (todo[r] # <<>> /\ todo'[r] = Tail(todo[r])),
           at'[r] \notin {"idle", "looked"} \/ at[r] \in {"idle", "looked"},
           \A i \in DOMAIN pending'[r] :
              pending'[r][i] = Absent \/ (i \in DOMAIN pending[r] /\ pending'[r][i] = pending[r][i])
    PROVE  Lineage' /\ Steady
<1>1. Onwards BY GetsOn
<1>2. \A i \in Ids : Copies(i)' \subseteq Copies(i) BY CopiesShrink
<1>3. QED BY <1>1, <1>2, NothingNew

\* What is committed was a version already.
LEMMA CommitsLineage ==
    ASSUME IInv, Lineage, NEW r \in Requests, Commits(r)
    PROVE  Lineage' /\ Steady
<1>1. Onwards BY CommitsFacts DEF Onwards
<1>2. ASSUME NEW i \in Ids, NEW w \in Copies(i)' PROVE w \in Copies(i)
  <2>1. Held(i, w)' BY Copying
  <2>2. CASE w = db'[i] BY <2>1, <2>2, CommitsFacts, Copying DEF Held
  <2>3. ASSUME NEW q \in Requests, i \in DOMAIN pending'[q], w = pending'[q][i]
        PROVE  w \in Copies(i)
    <3>1. q # r BY <2>3, CommitsFacts
    <3>2. pending'[q] = pending[q] BY <3>1, CommitsFacts
    <3>3. QED BY <2>1, <2>3, <3>2, Copying DEF Held
  <2>4. ASSUME NEW q \in Requests, ToSave(q, i, w)' PROVE w \in Copies(i)
    <3>1. todo'[q] = todo[q] BY CommitsFacts
    <3>2. ToSave(q, i, w) BY <2>4, <3>1 DEF ToSave
    <3>3. QED BY <2>1, <3>2, Copying DEF Held
  <2>5. QED BY <2>1, <2>2, <2>3, <2>4 DEF Held
<1>3. QED BY <1>1, <1>2, NothingNew

-----------------------------------------------------------------------------
(***************************************************************************)
(* Constraints and locks: what one transaction may commit stays so while   *)
(* others write.                                                           *)
(***************************************************************************)
LEMMA LegalNext ==
    ASSUME NEW q, Legal(View(q)')
    PROVE  Legal(View(q))'
BY DEF Legal, Referenced, KeysUnique, References, ParentId, View

LEMMA SameView ==
    ASSUME NEW q, db' = db, pending'[q] = pending[q]
    PROVE  View(q)' = View(q)
BY DEF View

LEMMA SameApart ==
    ASSUME NEW p, NEW q, db' = db, pending'[p] = pending[p], pending'[q] = pending[q], Apart(p, q)
    PROVE  Apart(p, q)'
BY DEF Apart

LEMMA LocalConstraints ==
    ASSUME IInv, Constraints, NEW r \in Requests, OnlyOf(r), pending'[r] \in {pending[r], <<>>}
    PROVE  Constraints'
<1>1. db' = db BY DEF OnlyOf, store
<1>2. ASSUME NEW q \in Requests PROVE Legal(View(q))'
  <2>1. CASE pending'[q] = pending[q]
    <3>1. View(q)' = View(q) BY <1>1, <2>1, SameView
    <3>2. Legal(View(q)) BY DEF Constraints
    <3>3. QED BY <3>1, <3>2, LegalNext
  <2>2. CASE pending'[q] = <<>>
    <3>1. View(q)' = db BY <1>1, <2>2 DEF View, IInv, TypeOK
    <3>2. Legal(db) BY DEF Constraints
    <3>3. QED BY <3>1, <3>2, LegalNext
  <2>3. QED BY <2>1, <2>2, OthersSame
<1>3. ASSUME NEW p \in Requests, NEW q \in Requests, p # q PROVE Apart(p, q)'
  <2>1. Apart(p, q) BY <1>3 DEF Constraints
  <2>2. CASE pending'[p] = pending[p] /\ pending'[q] = pending[q] BY <1>1, <2>1, <2>2, SameApart
  <2>3. CASE pending'[p] = <<>> \/ pending'[q] = <<>>
    BY <2>3 DEF Apart
  <2>4. QED BY <2>2, <2>3, OthersSame
<1>4. Legal(db)' BY <1>1 DEF Constraints, Legal, Referenced, KeysUnique, References, ParentId
<1>5. QED BY <1>2, <1>3, <1>4 DEF Constraints

\* A lock for each conflict of transaction r, about to make a change, with
\* another one.
LEMMA NoConflict ==
    ASSUME NEW r \in Requests, NEW change, ~Waits(r, change, Absent), NEW q \in Requests, q # r
    PROVE  /\ DOMAIN change \cap DOMAIN pending[q] = {}
           /\ \A i \in DOMAIN change : \A j \in DOMAIN pending[q] :
                 i[1] = j[1] /\ change[i] # Absent /\ pending[q][j] # Absent =>
                     change[i].key # pending[q][j].key
           /\ \A i \in DOMAIN change :
                 db[i] = Absent /\ change[i] # Absent /\ References(i, change[i]) =>
                     LET p == ParentId(i, change[i])
                     IN  p \in DOMAIN pending[q] /\ db[p] # Absent => pending[q][p] # Absent
           /\ \A i \in DOMAIN pending[q] :
                 db[i] = Absent /\ pending[q][i] # Absent /\ References(i, pending[q][i]) =>
                     LET p == ParentId(i, pending[q][i])
                     IN  p \in DOMAIN change /\ db[p] # Absent => change[p] # Absent
<1>1. DOMAIN change \cap DOMAIN pending[q] = {} BY DEF Waits
<1>2. ASSUME NEW i \in DOMAIN change, NEW j \in DOMAIN pending[q],
             i[1] = j[1], change[i] # Absent, pending[q][j] # Absent
      PROVE  change[i].key # pending[q][j].key
  BY <1>2 DEF Waits, SameValue, KeyOf
<1>3. ASSUME NEW i \in DOMAIN change, NEW p, db[i] = Absent, change[i] # Absent,
             References(i, change[i]), p = ParentId(i, change[i]),
             p \in DOMAIN pending[q], db[p] # Absent
      PROVE  pending[q][p] # Absent
  <2>1. p \in Shared(change, Absent) BY <1>3 DEF Shared
  <2>2. p \notin Exclusive(pending[q]) BY <2>1 DEF Waits
  <2>3. KeyOf(pending[q][p]) = KeyOf(db[p]) BY <1>3, <2>2 DEF Exclusive
  <2>4. QED BY <1>3, <2>3 DEF KeyOf
<1>4. ASSUME NEW i \in DOMAIN pending[q], NEW p, db[i] = Absent, pending[q][i] # Absent,
             References(i, pending[q][i]), p = ParentId(i, pending[q][i]),
             p \in DOMAIN change, db[p] # Absent
      PROVE  change[p] # Absent
  <2>1. p \in Shared(pending[q], logged[q]) BY <1>4 DEF Shared
  <2>2. p \notin Exclusive(change) BY <2>1 DEF Waits
  <2>3. KeyOf(change[p]) = KeyOf(db[p]) BY <1>4, <2>2 DEF Exclusive
  <2>4. QED BY <1>4, <2>3 DEF KeyOf
<1>5. QED BY <1>1, <1>2, <1>3, <1>4

LEMMA AppliesConstraints ==
    ASSUME IInv, Constraints, NEW r \in Requests, NEW change, Applies(r, change),
           DOMAIN change \subseteq Ids
    PROVE  Constraints'
<1>1. /\ OnlyOf(r)
      /\ DOMAIN pending'[r] = DOMAIN pending[r] \cup DOMAIN change
      /\ \A i \in DOMAIN change : pending'[r][i] = change[i]
      /\ \A i \in DOMAIN pending[r] \ DOMAIN change : pending'[r][i] = pending[r][i]
  BY AppliesFacts
<1>2. db' = db BY <1>1 DEF OnlyOf, store
<1>3. View(r)' = Over(View(r), change) BY <1>1, <1>2 DEF View, Over
<1>4. Legal(View(r))'
  <2>1. Legal(Over(View(r), change)) BY DEF Applies
  <2>2. QED BY <1>3, <2>1, LegalNext
<1>5. ASSUME NEW q \in Requests, q # r PROVE Legal(View(q)) /\ Legal(View(q))' /\ pending'[q] = pending[q]
  <2>1. View(q)' = View(q) /\ pending'[q] = pending[q] BY <1>1, <1>2, <1>5, SameView, OthersSame
  <2>2. Legal(View(q)) BY DEF Constraints
  <2>3. QED BY <2>1, <2>2, LegalNext
<1>6. \A q \in Requests : DOMAIN pending[q] \subseteq Ids BY DEF IInv, TypeOK
<1>7. ASSUME NEW q \in Requests, q # r PROVE Apart(r, q)' /\ Apart(q, r)'
  <2>1. Apart(r, q) /\ Apart(q, r) BY <1>7 DEF Constraints
  <2>2. ~Waits(r, change, Absent) BY DEF Applies
  <2>3. DOMAIN pending'[r] \cap DOMAIN pending'[q] = {}
    BY <1>1, <1>5, <1>7, <2>1, <2>2, NoConflict DEF Apart
  <2>4. ASSUME NEW i \in DOMAIN pending'[r], NEW j \in DOMAIN pending'[q],
               i[1] = j[1], pending'[r][i] # Absent, pending'[q][j] # Absent
        PROVE  pending'[r][i].key # pending'[q][j].key
    <3>1. CASE i \in DOMAIN change BY <1>1, <1>5, <1>7, <2>2, <2>4, <3>1, NoConflict
    <3>2. CASE i \notin DOMAIN change BY <1>1, <1>5, <1>7, <2>1, <2>4, <3>2 DEF Apart
    <3>3. QED BY <3>1, <3>2
  <2>5. ASSUME NEW i \in DOMAIN pending'[r], NEW p, db[i] = Absent, pending'[r][i] # Absent,
               References(i, pending'[r][i]), p = ParentId(i, pending'[r][i]),
               p \in DOMAIN pending'[q]
        PROVE  pending'[q][p] # Absent
    <3>1. CASE i \in DOMAIN change /\ db[p] # Absent
      BY <1>1, <1>5, <1>7, <2>2, <2>5, <3>1, NoConflict
    <3>2. CASE db[p] = Absent
      <4>1. i \in Ids /\ View(r)'[i] = pending'[r][i] BY <1>1, <1>6, <2>5 DEF View
      <4>2. View(r)'[p] # Absent BY <1>4, <2>5, <4>1 DEF Legal, Referenced
      <4>3. p \in Ids /\ p \notin DOMAIN pending'[r] BY <1>5, <1>6, <1>7, <2>3, <2>5
      <4>4. View(r)'[p] = db[p] BY <1>2, <4>3 DEF View
      <4>5. QED BY <3>2, <4>2, <4>4
    <3>3. CASE i \notin DOMAIN change BY <1>1, <1>5, <1>7, <2>1, <2>5, <3>3 DEF Apart
    <3>4. QED BY <3>1, <3>2, <3>3
  <2>6. ASSUME NEW i \in DOMAIN pending'[q], NEW p, db[i] = Absent, pending'[q][i] # Absent,
               References(i, pending'[q][i]), p = ParentId(i, pending'[q][i]),
               p \in DOMAIN pending'[r]
        PROVE  pending'[r][p] # Absent
    <3>1. CASE p \in DOMAIN change /\ db[p] # Absent
      BY <1>1, <1>5, <1>7, <2>2, <2>6, <3>1, NoConflict
    <3>2. CASE db[p] = Absent
      <4>1. i \in Ids /\ View(q)[i] = pending[q][i] BY <1>5, <1>6, <1>7, <2>6 DEF View
      <4>2. View(q)[p] # Absent BY <1>5, <1>7, <2>6, <4>1 DEF Legal, Referenced
      <4>3. p \in Ids /\ p \notin DOMAIN pending[q] BY <1>1, <1>5, <1>6, <1>7, <2>3, <2>6
      <4>4. View(q)[p] = db[p] BY <4>3 DEF View
      <4>5. QED BY <3>2, <4>2, <4>4
    <3>3. CASE p \notin DOMAIN change BY <1>1, <1>5, <1>7, <2>1, <2>6, <3>3 DEF Apart
    <3>4. QED BY <3>1, <3>2, <3>3
  <2>7. Apart(r, q)' BY <1>2, <2>3, <2>4, <2>5 DEF Apart, References, ParentId
  <2>8. Apart(q, r)' BY <1>2, <2>3, <2>4, <2>6 DEF Apart, References, ParentId
  <2>9. QED BY <2>7, <2>8
<1>8. ASSUME NEW p \in Requests, NEW q \in Requests, p # q PROVE Apart(p, q)'
  <2>1. CASE p = r \/ q = r BY <1>7, <1>8, <2>1
  <2>2. CASE p # r /\ q # r
    <3>1. Apart(p, q) BY <1>8 DEF Constraints
    <3>2. QED BY <1>2, <1>5, <2>2, <3>1, SameApart
  <2>3. QED BY <2>1, <2>2
<1>9. Legal(db)' BY <1>2 DEF Constraints, Legal, Referenced, KeysUnique, References, ParentId
<1>10. QED BY <1>4, <1>5, <1>8, <1>9 DEF Constraints

\* The row that a row references has an id.
LEMMA ParentIds ==
    ASSUME NEW i \in Ids, NEW w \in RowsOf(i[1]), References(i, w)
    PROVE  ParentId(i, w) \in Ids /\ ParentId(i, w)[1] # i[1]
<1>1. i[1] \in Kinds /\ i[1] # "tenant" BY DEF Ids, References
<1>2. w.parent \in Names BY DEF RowsOf, References
<1>3. ParentKind[i[1]] \in Kinds /\ ParentKind[i[1]] # i[1] BY <1>1 DEF ParentKind, Kinds
<1>4. QED BY <1>2, <1>3 DEF ParentId, Ids

\* The tables with the changes of transactions x and y.
LEMMA HalfMerge ==
    ASSUME IInv, Lineage, Constraints, NEW x \in Requests, NEW y \in Requests, x # y, NEW rows,
           \A j \in Ids : rows[j] = IF j \in DOMAIN pending[y] THEN pending[y][j] ELSE View(x)[j],
           NEW i \in Ids, i \notin DOMAIN pending[y], rows[i] # Absent, References(i, rows[i])
    PROVE  rows[ParentId(i, rows[i])] # Absent
<1> DEFINE w == rows[i]
           p == ParentId(i, w)
<1>1. w = View(x)[i] /\ w \in RowsOf(i[1]) BY ViewTyped
<1>2. p \in Ids BY <1>1, ParentIds
<1>3. View(x)[p] # Absent BY <1>1 DEF Constraints, Legal, Referenced
<1>4. CASE p \notin DOMAIN pending[y] BY <1>2, <1>3, <1>4
<1>5. CASE p \in DOMAIN pending[y]
  <2>1. rows[p] = pending[y][p] /\ View(y)[p] = pending[y][p] BY <1>2, <1>5 DEF View
  <2>2. View(y)[i] = db[i] BY DEF View
  <2>3. CASE db[i] = Absent
    <3>1. i \in DOMAIN pending[x] /\ w = pending[x][i] BY <1>1, <2>3 DEF View
    <3>2. Apart(x, y) BY DEF Constraints
    <3>3. QED BY <1>5, <2>1, <2>3, <3>1, <3>2 DEF Apart
  <2>4. CASE db[i] # Absent
    <3>1. db[i] \in Copies(i) BY <2>4, Copying DEF Held
    <3>2. w \in Copies(i) BY <1>1, ViewCopies
    <3>3. db[i].parent = w.parent BY <3>1, <3>2 DEF Lineage, Versions, Kin
    <3>4. References(i, db[i]) /\ ParentId(i, db[i]) = p BY <3>3 DEF References, ParentId
    <3>5. View(y)[p] # Absent BY <2>2, <2>4, <3>4 DEF Constraints, Legal, Referenced
    <3>6. QED BY <2>1, <3>5
  <2>5. QED BY <2>3, <2>4
<1>6. QED BY <1>4, <1>5

LEMMA Merging ==
    ASSUME IInv, Lineage, Constraints, NEW r \in Requests, NEW q \in Requests, q # r, NEW rows,
           \A j \in Ids : rows[j] = IF j \in DOMAIN pending[q] THEN pending[q][j] ELSE View(r)[j]
    PROVE  Legal(rows)
<1>0. Apart(q, r) /\ Legal(View(r)) /\ Legal(View(q)) BY DEF Constraints
<1>1. \A j \in Ids : rows[j] = IF j \in DOMAIN pending[r] THEN pending[r][j] ELSE View(q)[j]
  BY <1>0 DEF View, Apart
<1>2. Referenced(rows)
  <2> SUFFICES ASSUME NEW i \in Ids, rows[i] # Absent, References(i, rows[i])
               PROVE  rows[ParentId(i, rows[i])] # Absent
    BY DEF Referenced
  <2>1. CASE i \notin DOMAIN pending[q] BY <2>1, HalfMerge
  <2>2. CASE i \notin DOMAIN pending[r] BY <1>1, <2>2, HalfMerge
  <2>3. QED BY <2>1, <2>2, <1>0 DEF Apart
<1>3. KeysUnique(rows)
  <2> SUFFICES ASSUME NEW k \in Kinds, NEW m \in Names, NEW n \in Names,
                      rows[<<k, m>>] # Absent, rows[<<k, n>>] # Absent,
                      rows[<<k, m>>].key = rows[<<k, n>>].key
               PROVE  m = n
    BY DEF KeysUnique
  <2> DEFINE i == <<k, m>>
             j == <<k, n>>
  <2>1. i \in Ids /\ j \in Ids /\ i[1] = j[1] BY DEF Ids
  <2>2. CASE i \notin DOMAIN pending[q] /\ j \notin DOMAIN pending[q]
    BY <1>0, <2>1, <2>2 DEF Legal, KeysUnique
  <2>3. CASE i \notin DOMAIN pending[r] /\ j \notin DOMAIN pending[r]
    <3>1. rows[i] = View(q)[i] /\ rows[j] = View(q)[j] BY <1>1, <2>1, <2>3
    <3>2. QED BY <1>0, <3>1 DEF Legal, KeysUnique
  <2>4. ASSUME NEW a \in Ids, NEW b \in Ids, a[1] = b[1], rows[a] # Absent, rows[b] # Absent,
               a \in DOMAIN pending[q], b \in DOMAIN pending[r]
        PROVE  rows[a].key # rows[b].key
    <3>1. rows[a] = pending[q][a] /\ rows[b] = pending[r][b] BY <1>1, <2>4
    <3>2. QED BY <1>0, <2>4, <3>1 DEF Apart
  <2> HIDE DEF i, j
  <2>5. CASE i \in DOMAIN pending[q] /\ j \in DOMAIN pending[r] BY <2>1, <2>4, <2>5 DEF i, j
  <2>6. CASE i \in DOMAIN pending[r] /\ j \in DOMAIN pending[q] BY <2>1, <2>4, <2>6 DEF i, j
  <2>7. DOMAIN pending[q] \cap DOMAIN pending[r] = {} BY <1>0 DEF Apart
  <2>8. QED BY <2>2, <2>3, <2>5, <2>6, <2>7
<1>4. QED BY <1>2, <1>3 DEF Legal

LEMMA CommitsConstraints ==
    ASSUME IInv, Lineage, Constraints, NEW r \in Requests, Commits(r)
    PROVE  Constraints'
<1>1. db' = View(r) BY DEF Commits, Over, View
<1>2. Legal(db)'
  <2>1. Legal(View(r)) BY DEF Constraints
  <2>2. Legal(db') BY <1>1, <2>1
  <2>3. QED BY <2>2 DEF Legal, Referenced, KeysUnique, References, ParentId
<1>3. ASSUME NEW q \in Requests PROVE Legal(View(q))'
  <2>1. CASE q = r
    <3>1. pending'[q] = <<>> BY <2>1, CommitsFacts
    <3>2. View(q)' = View(r) BY <1>1, <3>1 DEF View
    <3>3. Legal(View(r)) BY DEF Constraints
    <3>4. QED BY <3>2, <3>3, LegalNext
  <2>2. CASE q # r
    <3>1. pending'[q] = pending[q] BY <2>2, CommitsFacts
    <3>2. \A j \in Ids : View(q)'[j] = IF j \in DOMAIN pending[q] THEN pending[q][j] ELSE View(r)[j]
      BY <1>1, <3>1 DEF View
    <3>3. Legal(View(q)') BY <2>2, <3>2, Merging
    <3>4. QED BY <3>3, LegalNext
  <2>3. QED BY <2>1, <2>2
<1>4. ASSUME NEW p \in Requests, NEW q \in Requests, p # q PROVE Apart(p, q)'
  <2>1. CASE p = r \/ q = r
    <3>1. pending'[r] = <<>> BY CommitsFacts
    <3>2. QED BY <2>1, <3>1 DEF Apart
  <2>2. CASE p # r /\ q # r
    <3>1. pending'[p] = pending[p] /\ pending'[q] = pending[q] BY <2>2, CommitsFacts
    <3>2. \A i \in DOMAIN pending[p] : db'[i] = db[i]
      <4>1. DOMAIN pending[p] \subseteq Ids BY DEF IInv, TypeOK
      <4>2. Apart(p, r) BY <2>2 DEF Constraints
      <4>3. QED BY <4>1, <4>2, CommitsFacts DEF Apart
    <3>3. Apart(p, q) BY <1>4 DEF Constraints
    <3>4. QED BY <3>1, <3>2, <3>3 DEF Apart
  <2>3. QED BY <2>1, <2>2
<1>5. QED BY <1>2, <1>3, <1>4 DEF Constraints

-----------------------------------------------------------------------------
(***************************************************************************)
(* What a request relies on outlasts the steps of others.                  *)
(***************************************************************************)
\* What others may do to request q in a step.
Calm(q) ==
    /\ overtaken[q] \subseteq overtaken'[q]
    /\ \A i \in Ids : db'[i] = db[i] \/ i \in overtaken'[q]
    /\ \A n \in Names : db["tenant", n] # Absent => db'["tenant", n] # Absent
    /\ \A x \in Requests :
          \/ <<"audit", x>> \in overtaken'[q]
          \/ \A column \in {"actor", "resource"}, n \in Names :
                Mentions(audit'[x], column, n) => Mentions(audit[x], column, n)

LEMMA Untouched ==
    ASSUME NEW q, Calm(q), ~Overlapped(q)'
    PROVE  ~Overlapped(q) /\ \A i \in Ids : db'[i] = db[i]
BY DEF Calm, Overlapped

LEMMA ParentStays ==
    ASSUME Steady, NEW i \in Ids, Settled(i), NEW p, ParentIs(i, p)
    PROVE  ParentIs(i, p)'
BY DEF Steady, ParentIs, Kin

LEMMA BaseIds == ASSUME NEW i \in Ids, NEW n \in Seeds PROVE <<Base(i), n>> \in Ids /\ Settled(<<Base(i), n>>)
<1>1. Base(i) \in Kinds BY DEF Base, ParentKind, Ids, Kinds
<1>2. QED BY <1>1 DEF Ids, Names, Settled

LEMMA RightfulStays ==
    ASSUME Steady, NEW c, NEW i \in Ids, NEW v, NEW w, Rightful(c, i, v), Kin(i, v, w)
    PROVE  Rightful(c, i, w)'
<1>1. ASSUME c.on \in Seeds, ParentIs(<<Base(i), c.on>>, c.by.tenant)
      PROVE  ParentIs(<<Base(i), c.on>>, c.by.tenant)'
  BY <1>1, BaseIds, ParentStays
<1>2. QED BY <1>1 DEF Rightful, Kin, Base

LEMMA RightfulKin ==
    ASSUME NEW c, NEW i, NEW v, NEW w, Rightful(c, i, v), Kin(i, v, w)
    PROVE  Rightful(c, i, w)
BY DEF Rightful, Kin

LEMMA RightsStay ==
    ASSUME Steady, NEW q, NEW c, NEW i \in Ids, Rights(q, c, i)
    PROVE  Rights(q, c, i)'
<1>1. Settled(i)' BY DEF Steady, Rights
<1>2. ASSUME NEW w \in Copies(i)' PROVE Rightful(c, i, w)'
  <2>1. PICK v \in Copies(i) : Kin(i, v, w) BY DEF Steady, Rights
  <2>2. Rightful(c, i, v) BY DEF Rights
  <2>3. QED BY <2>1, <2>2, RightfulStays
<1>3. QED BY <1>1, <1>2 DEF Rights, Licensed

LEMMA FaithfulStays ==
    ASSUME NEW q, Calm(q), NEW c, NEW i \in Ids, NEW w \in RowsOf(i[1]), Faithful(q, c, i, w)
    PROVE  Faithful(q, c, i, w)'
<1>1. ASSUME i[1] = "user", i \notin overtaken'[q], db'[i] # Absent PROVE Agrees(c.op, w, db'[i])
  BY <1>1 DEF Faithful, Calm
<1>2. ASSUME ~Overlapped(q)' PROVE Writable(q, c, i, w)'
  <2>1. \A j \in Ids : db'[j] = db[j] BY <1>2, Untouched
  <2>2. Writable(q, c, i, w) BY <1>2, Untouched DEF Faithful
  <2>3. i[1] \in Kinds /\ \A n \in Names : <<i[1], n>> \in Ids BY DEF Ids
  <2>4. Holders(db', i[1], w.key) \subseteq Holders(db, i[1], w.key) BY <2>1, <2>3 DEF Holders
  <2>5. References(i, w) => db'[ParentId(i, w)] = db[ParentId(i, w)] BY <2>1, ParentIds
  <2>6. QED BY <2>2, <2>4, <2>5 DEF Writable, References, ParentId, Holders
<1>3. QED BY <1>1, <1>2 DEF Faithful, Agrees

LEMMA SoundDeleteStays ==
    ASSUME Steady, NEW q, Calm(q), NEW c, NEW i \in Ids, SoundDelete(q, c, i)
    PROVE  SoundDelete(q, c, i)'
<1>1. i[2] \in Seeds /\ Settled(i) BY DEF SoundDelete, Settled
<1>2. ParentIs(<<Base(i), i[2]>>, c.by.tenant) => ParentIs(<<Base(i), i[2]>>, c.by.tenant)'
  BY <1>1, BaseIds, ParentStays
<1>3. ASSUME i[1] = "user", NEW w \in Copies(i)' PROVE w.cols.role # "superuser"
  BY <1>1, <1>3 DEF Steady, SoundDelete, Kin
<1>4. (i \notin overtaken'[q] /\ db[i] # Absent) => db'[i] # Absent BY DEF Calm
<1>5. i \notin overtaken'[q] => i \notin overtaken[q] BY DEF Calm
<1>6. QED BY <1>2, <1>3, <1>4, <1>5 DEF SoundDelete, Licensed, Base

LEMMA SoundAuditStays ==
    ASSUME NEW q, Calm(q), NEW c, NEW t, SoundAudit(q, c, t)
    PROVE  SoundAudit(q, c, t)'
BY DEF SoundAudit, Calm

LEMMA SoundStays ==
    ASSUME Steady, NEW q, Calm(q), NEW c, NEW s \in Statement,
           s.do = "save" => s.row \in RowsOf(s.id[1]), Sound(q, c, s)
    PROVE  Sound(q, c, s)'
<1>1. s.id \in Ids BY DEF Statement
<1>2. ASSUME s.do = "save" PROVE Rights(q, c, s.id)' /\ Faithful(q, c, s.id, s.row)'
  <2>1. Rights(q, c, s.id) /\ Faithful(q, c, s.id, s.row) BY <1>2 DEF Sound
  <2>2. QED BY <1>1, <1>2, <2>1, RightsStay, FaithfulStays
<1>3. ASSUME s.do = "delete" PROVE SoundDelete(q, c, s.id)'
  BY <1>1, <1>3, SoundDeleteStays DEF Sound
<1>4. ASSUME s.do = "audit" PROVE SoundAudit(q, c, s.tenant)'
  BY <1>4, SoundAuditStays DEF Sound
<1>5. QED BY <1>2, <1>3, <1>4 DEF Sound

LEMMA WrittenStays ==
    ASSUME Steady, NEW q \in Requests, Calm(q), call'[q] = call[q],
           NEW i \in Ids, pending'[q][i] = pending[q][i], Written(q, i)
    PROVE  Written(q, i)'
<1>1. Rights(q, call[q], i)' BY RightsStay DEF Written
<1>2. QED BY <1>1 DEF Written, Calm, Agrees

LEMMA TodoTyped ==
    ASSUME IInv, NEW q \in Requests, NEW k \in 1 .. Len(todo[q])
    PROVE  todo[q][k] \in Statement
           /\ (todo[q][k].do = "save" => todo[q][k].row \in RowsOf(todo[q][k].id[1]))
<1>1. todo[q][k] \in Statement BY Sequential
<1>2. Plan(q) BY DEF IInv, Course
<1>3. CASE Good(q, todo[q]) BY <1>1, <1>3 DEF Good, StmtOK
<1>4. ASSUME NEW n \in Names, NEW by, todo[q] = DeletesTenant(n, by)
      PROVE  todo[q][k].do # "save"
  <2>1. /\ Len(todo[q]) = 2 /\ todo[q][1] = Delete("tenant", n)
        /\ todo[q][2] = Audit(n, "tenant", n, by)
    BY <1>4 DEF DeletesTenant
  <2>2. k = 1 \/ k = 2 BY <2>1
  <2>3. QED BY <2>1, <2>2, Doings
<1>5. ASSUME NEW n \in Names, NEW by, todo[q] = <<Audit(n, "tenant", n, by)>>
      PROVE  todo[q][k].do # "save"
  <2>1. k = 1 /\ todo[q][1] = Audit(n, "tenant", n, by) BY <1>5
  <2>2. QED BY <2>1, Doings
<1>6. QED BY <1>1, <1>2, <1>3, <1>4, <1>5 DEF Plan

\* The calls that name a row.
LEMMA CallsName ==
    ASSUME NEW c \in Calls, c.op \notin {"CreateTenant", "Register"}
    PROVE  c.on \in Seeds /\ c.on # Nobody
BY DEF Calls, Calling

LEMMA SawStays ==
    ASSUME Steady, NEW q \in Requests, Calm(q), NEW c \in Calls, NEW row, Saw(q, c, row)
    PROVE  Saw(q, c, row)'
<1> DEFINE kind == IF c.op = "UpsertPolicy" THEN "route" ELSE "domain"
<1>1. ASSUME c.op \in {"UpdateTenant", "CreateDomain", "CreateMember"}
      PROVE  TenantAccess(c.by, c.on) /\ db'["tenant", c.on] # Absent
  BY <1>1, CallsName DEF Saw, Calm, Names
<1>2. ASSUME c.op \in {"UpsertPolicy", "UpsertDomainPolicy"}
      PROVE  /\ row # Absent /\ TenantAccess(c.by, row.parent)
             /\ ParentIs(<<kind, c.on>>, row.parent)'
             /\ row.parent \in Names /\ db'["tenant", row.parent] # Absent
             /\ ~Overlapped(q)' => db'[kind, c.on] = row
  <2>1. /\ row # Absent /\ TenantAccess(c.by, row.parent)
        /\ ParentIs(<<kind, c.on>>, row.parent)
        /\ row.parent \in Names /\ db["tenant", row.parent] # Absent
        /\ ~Overlapped(q) => db[kind, c.on] = row
    BY <1>2 DEF Saw
  <2>2. c.on \in Seeds BY <1>2, CallsName
  <2>3. <<kind, c.on>> \in Ids BY <2>2 DEF Ids, Kinds, Names
  <2>4. Settled(<<kind, c.on>>) BY <2>2 DEF Settled
  <2> HIDE DEF kind
  <2>5. ParentIs(<<kind, c.on>>, row.parent)' BY <2>1, <2>3, <2>4, ParentStays
  <2>6. QED BY <2>1, <2>3, <2>5, Untouched DEF Calm
<1>3. ASSUME c.op = "Register", ~Overlapped(q)' PROVE ~Taken("user", c.key)'
  <2>1. \A n \in Names : <<"user", n>> \in Ids BY DEF Ids, Kinds
  <2>2. ~Taken("user", c.key) /\ \A n \in Names : db'["user", n] = db["user", n]
    BY <1>3, <2>1, Untouched DEF Saw
  <2>3. QED BY <2>2 DEF Taken, Holders
<1>4. QED BY <1>1, <1>2, <1>3 DEF Saw, TenantAccess

\* What request q has, others leave alone.
Idles(q) ==
    /\ at'[q] = at[q] /\ call'[q] = call[q] /\ seen'[q] = seen[q] /\ todo'[q] = todo[q]
    /\ pending'[q] = pending[q] /\ logged'[q] = logged[q] /\ fetched'[q] = fetched[q]
    /\ forgot'[q] = forgot[q]

LEMMA DidStays ==
    ASSUME NEW q, Calm(q), pending'[q] = pending[q], call'[q] = call[q], NEW j, Did(q, j)
    PROVE  Did(q, j)'
BY DEF Did, Calm, Overlapped

LEMMA ForgetsStays ==
    ASSUME NEW q, Calm(q), NEW column \in {"actor", "resource"}, NEW n \in Names,
           Forgets(q, column, n), forgot'[q] = forgot[q], logged'[q] = logged[q]
    PROVE  Forgets(q, column, n)'
<1>1. ASSUME NEW x \in Requests, Mentions(audit'[x], column, n)
      PROVE  <<column, x>> \in forgot'[q] \/ <<"audit", x>> \in overtaken'[q]
  <2>1. CASE <<"audit", x>> \in overtaken'[q] BY <2>1
  <2>2. CASE <<"audit", x>> \notin overtaken'[q]
    <3>1. Mentions(audit[x], column, n) BY <1>1, <2>2 DEF Calm
    <3>2. <<column, x>> \in forgot[q] \/ <<"audit", x>> \in overtaken[q]
      BY <3>1 DEF Forgets, Hides
    <3>3. QED BY <3>2 DEF Calm
  <2>3. QED BY <2>1, <2>2
<1>2. ~Mentions(logged'[q], column, n) BY DEF Forgets
<1>3. QED BY <1>1, <1>2 DEF Forgets, Hides, Mentions

LEMMA StageStays ==
    ASSUME IInv, NEW q \in Requests, Calm(q), Idles(q), Stage(q),
           at[q] \in {"open", "fetched"}
    PROVE  Stage(q)'
<1>1. Begins(q) => Begins(q)' BY DEF Begins, Idles, Begun, Removal, Anonymizing
<1>2. Wrote(q) => Wrote(q)' BY DidStays DEF Wrote, Idles
<1>3. Told(q) => Told(q)' BY DidStays DEF Told, Idles
<1>4. Enrols(q) => Enrols(q)' BY DEF Enrols, Idles
<1>5. Quiet(q) => Quiet(q)' BY DEF Quiet, Idles
<1>6. Parts(q) => Parts(q)'
  <2> SUFFICES ASSUME Parts(q) PROVE Parts(q)'
    OBVIOUS
  <2>1. call[q] \in Calls BY DEF IInv, Course
  <2>2. call[q].on \in Names BY <2>1, CallsName DEF Parts, Names
  <2>3. \A column \in {"actor", "resource"} :
           Forgets(q, column, call[q].on) => Forgets(q, column, call[q].on)'
    BY <2>2, ForgetsStays DEF Idles
  <2>4. QED BY <2>3 DEF Parts, Idles, Removal, Anonymizing
<1>7. QED BY <1>1, <1>2, <1>3, <1>4, <1>5, <1>6 DEF Stage

LEMMA RunningStays ==
    ASSUME IInv, Steady, NEW q \in Requests, Calm(q), Idles(q), Running(q),
           at[q] \in {"open", "fetched"}
    PROVE  Running(q)'
<1>1. Stage(q)' BY StageStays DEF Running
<1>2. ASSUME NEW k \in 1 .. Len(todo[q]) PROVE Sound(q, call[q], todo[q][k])'
  <2>1. Sound(q, call[q], todo[q][k]) BY DEF Running
  <2>2. PICK c, s : c = call[q] /\ s = todo[q][k] OBVIOUS
  <2>3. s \in Statement /\ (s.do = "save" => s.row \in RowsOf(s.id[1])) BY <2>2, TodoTyped
  <2>4. Sound(q, c, s)' BY <2>1, <2>2, <2>3, SoundStays
  <2>5. QED BY <2>2, <2>4 DEF Idles
<1>3. ASSUME NEW i \in DOMAIN pending[q] PROVE Written(q, i)'
  <2>1. i \in Ids BY DEF IInv, TypeOK
  <2>2. QED BY <2>1, WrittenStays DEF Running, Idles
<1>4. ASSUME at'[q] = "fetched", todo'[q][1].id \notin overtaken'[q]
      PROVE  fetched'[q] = View(q)'[todo'[q][1].id]
  <2>1. at[q] = "fetched" /\ todo[q][1].id \notin overtaken[q] BY <1>4 DEF Idles, Calm
  <2>2. todo[q][1].id \in Ids
    BY <2>1, HeadCopies DEF IInv, Course
  <2>3. fetched[q] = View(q)[todo[q][1].id] BY <2>1 DEF Running
  <2>4. db'[todo[q][1].id] = db[todo[q][1].id] BY <1>4, <2>2 DEF Idles, Calm
  <2>5. QED BY <2>2, <2>3, <2>4 DEF View, Idles
<1>5. QED BY <1>1, <1>2, <1>3, <1>4 DEF Running, Idles

LEMMA ConductStays ==
    ASSUME IInv, Steady, NEW q \in Requests, Conduct(q), Idles(q),
           Calm(q) \/ at[q] \in {"idle", "done"}, at[q] = "idle" => overtaken'[q] = {}
    PROVE  Conduct(q)'
<1>1. Reaches(call[q]) => Reaches(call[q])'
  BY DEF Idles, Reaches, TenantEndpoint, RouteEndpoint, PolicyEndpoint, SubUserEndpoint,
     AuthEndpoint, IsAdminLike, RequirePermission
<1>2. CASE at[q] \in {"idle", "done"}
  BY <1>2 DEF Conduct, Idles
<1>3. CASE at[q] = "looked"
  <2>1. PICK c, row : c = call[q] /\ row = seen[q] OBVIOUS
  <2>2. c \in Calls BY <1>3, <2>1 DEF IInv, Course
  <2>3. Saw(q, c, row)' BY <1>3, <2>1, <2>2, SawStays DEF Conduct
  <2>4. Saw(q, call[q], seen[q])' BY <2>1, <2>3 DEF Idles
  <2>5. QED BY <1>1, <1>3, <2>4 DEF Conduct, Idles
<1>4. CASE at[q] \in {"open", "fetched"}
  <2>1. Running(q)' BY <1>4, RunningStays DEF Conduct
  <2>2. QED BY <1>1, <1>4, <2>1 DEF Conduct, Idles
<1>5. at[q] \in {"idle", "looked", "open", "fetched", "done"} BY DEF IInv, TypeOK
<1>6. QED BY <1>2, <1>3, <1>4, <1>5

-----------------------------------------------------------------------------
(***************************************************************************)
(* What a request does itself.                                             *)
(***************************************************************************)
LEMMA CalmLocal ==
    ASSUME NEW r, OnlyOf(r), NEW q, overtaken'[q] = overtaken[q]
    PROVE  Calm(q)
BY DEF OnlyOf, store, Calm, Mentions

LEMMA ReachesStays ==
    ASSUME NEW r \in Requests, NEW c, call'[r] = c, Reaches(c)
    PROVE  Reaches(call[r])'
BY DEF Reaches, TenantEndpoint, RouteEndpoint, PolicyEndpoint, SubUserEndpoint,
       AuthEndpoint, IsAdminLike, RequirePermission

LEMMA LooksConduct ==
    ASSUME IInv, Steady, NEW r \in Requests, Conduct(r), NEW c \in Calls, NEW row, at[r] = "idle",
           Looks(r, c, row), Reaches(c), Saw(r, c, row)
    PROVE  Conduct(r)'
<1>1. /\ OnlyOf(r) /\ at'[r] = "looked" /\ call'[r] = c /\ seen'[r] = row
      /\ logged'[r] = logged[r] /\ overtaken'[r] = overtaken[r]
  BY LooksFacts
<1>2. Calm(r) BY <1>1, CalmLocal
<1>3. Saw(r, c, row)' BY <1>2, SawStays
<1>4. Saw(r, call[r], seen[r])' BY <1>1, <1>3
<1>5. Reaches(call[r])' BY <1>1, ReachesStays
<1>6. logged[r] = Absent BY DEF Conduct
<1>7. QED BY <1>1, <1>4, <1>5, <1>6 DEF Conduct

\* A row that is proposed may be saved.
LEMMA RightsGiven ==
    ASSUME Steady, Lineage', NEW r, NEW c, NEW i, NEW w, Proposes(r, c, i, w), w \in Copies(i)'
    PROVE  Rights(r, c, i)'
<1>0. i \in Ids /\ Rightful(c, i, w) BY DEF Proposes
<1>1. Settled(i)' /\ \A x \in Copies(i)' : Kin(i, w, x)
  BY <1>0 DEF Lineage, Versions, Kin
<1>2. ASSUME NEW x \in Copies(i)' PROVE Rightful(c, i, x)'
  BY <1>0, <1>1, RightfulStays
<1>3. QED BY <1>1, <1>2 DEF Rights, Proposes, Licensed

LEMMA OpensConduct ==
    ASSUME IInv, Steady, Lineage', NEW r \in Requests, Conduct(r), NEW c \in Calls, NEW t,
           at[r] \in {"idle", "looked"}, Opens(r, c, t), Opened(r, c, t), Reaches(c)
    PROVE  Conduct(r)'
<1>1. /\ OnlyOf(r) /\ at'[r] = "open" /\ call'[r] = c /\ todo'[r] = t
      /\ pending'[r] = pending[r] /\ logged'[r] = logged[r] /\ overtaken'[r] = overtaken[r]
  BY OpensFacts
<1>2. Calm(r) BY <1>1, CalmLocal
<1>3. DOMAIN pending[r] = {} /\ logged[r] = Absent BY DEF IInv, Course, Conduct
<1>4. Begun(r, c, t) BY DEF Opened
<1>5. Begins(r)' BY <1>1, <1>3, <1>4 DEF Begins, Begun, Removal, Anonymizing
<1>6. ASSUME NEW k \in 1 .. Len(t) PROVE Sound(r, c, t[k])'
  <2>1. PICK s : s = t[k] OBVIOUS
  <2>2. /\ s.do = "save" => Proposes(r, c, s.id, s.row)
        /\ s.do = "delete" => s.id \in Ids /\ SoundDelete(r, c, s.id)
        /\ s.do = "audit" => SoundAudit(r, c, s.tenant)
    BY <2>1 DEF Opened
  <2>3. ASSUME s.do = "save" PROVE Rights(r, c, s.id)' /\ Faithful(r, c, s.id, s.row)'
    <3>1. s.id \in Ids /\ s.row \in RowsOf(s.id[1]) /\ Faithful(r, c, s.id, s.row)
      BY <2>2, <2>3 DEF Proposes
    <3>2. ToSave(r, s.id, s.row)' BY <1>1, <2>1, <2>3 DEF ToSave
    <3>3. s.row # Absent BY <3>1, RowTypes
    <3>4. s.row \in Copies(s.id)' BY <3>2, <3>3, Copying DEF Held
    <3>5. Rights(r, c, s.id)' BY <2>2, <2>3, <3>4, RightsGiven
    <3>6. QED BY <1>2, <3>1, <3>5, FaithfulStays
  <2>4. s.do = "delete" => SoundDelete(r, c, s.id)' BY <1>2, <2>2, SoundDeleteStays
  <2>5. s.do = "audit" => SoundAudit(r, c, s.tenant)' BY <1>2, <2>2, SoundAuditStays
  <2>6. Sound(r, c, s)' BY <2>3, <2>4, <2>5 DEF Sound
  <2>7. QED BY <2>1, <2>6
<1>7. Running(r)' BY <1>1, <1>3, <1>5, <1>6 DEF Running, Stage
<1>8. Reaches(call[r])' BY <1>1, ReachesStays
<1>9. QED BY <1>1, <1>7, <1>8 DEF Conduct

\* The statements that are left stay sound.
LEMMA SoundLeft ==
    ASSUME IInv, Steady, NEW r \in Requests, Calm(r), Running(r), call'[r] = call[r],
           todo'[r] = todo[r] \/ (todo[r] # <<>> /\ todo'[r] = Tail(todo[r]))
    PROVE  \A k \in 1 .. Len(todo'[r]) : Sound(r, call[r], todo[r][k])'
<1> SUFFICES ASSUME NEW k \in 1 .. Len(todo'[r]) PROVE Sound(r, call[r], todo[r][k])'
  OBVIOUS
<1>1. PICK m \in 1 .. Len(todo[r]) : todo'[r][k] = todo[r][m] BY Leftovers
<1>2. PICK c, s : c = call[r] /\ s = todo[r][m] OBVIOUS
<1>3. s \in Statement /\ (s.do = "save" => s.row \in RowsOf(s.id[1])) BY <1>2, TodoTyped
<1>4. Sound(r, c, s) BY <1>2 DEF Running
<1>5. Sound(r, c, s)' BY <1>3, <1>4, SoundStays
<1>6. QED BY <1>1, <1>2, <1>5

\* What is left of a plan.
LEMMA TailIs ==
    ASSUME IInv, NEW r \in Requests, todo[r] # <<>>, todo'[r] = Tail(todo[r])
    PROVE  /\ Head(todo[r]) = todo[r][1] /\ Len(todo[r]) \in Nat /\ Len(todo[r]) >= 1
           /\ Len(todo'[r]) = Len(todo[r]) - 1
           /\ Len(todo[r]) >= 2 => todo'[r][1] = todo[r][2]
           /\ Len(todo[r]) >= 3 => todo'[r][2] = todo[r][3]
           /\ Len(todo[r]) >= 4 => todo'[r][3] = todo[r][4]
<1>1. todo[r] \in Seq(Statement) BY Sequential
<1>2. Len(todo[r]) \in Nat /\ Len(Tail(todo[r])) = Len(todo[r]) - 1 /\ Len(todo[r]) # 0
      /\ \A k \in 1 .. Len(Tail(todo[r])) : Tail(todo[r])[k] = todo[r][k + 1]
  BY <1>1, HeadTailProperties, LenProperties, EmptySeq
<1>3. Head(todo[r]) = todo[r][1] BY <1>1
<1>4. Len(todo[r]) >= 2 => 1 \in 1 .. Len(Tail(todo[r])) BY <1>2
<1>5. Len(todo[r]) >= 3 => 2 \in 1 .. Len(Tail(todo[r])) BY <1>2
<1>6. Len(todo[r]) >= 4 => 3 \in 1 .. Len(Tail(todo[r])) BY <1>2
<1>7. QED BY <1>2, <1>3, <1>4, <1>5, <1>6

\* A request that is running goes on.
LEMMA GoesOn ==
    ASSUME NEW r \in Requests, Conduct(r), at[r] \in {"open", "fetched"},
           Keeps(r), at'[r] \in {"open", "fetched"}, Running(r)'
    PROVE  Conduct(r)'
<1>1. Reaches(call[r])' BY ReachesStays DEF Keeps, Conduct
<1>2. QED BY <1>1 DEF Conduct

\* No statement is left to a plan of length 0.
LEMMA SomethingLeft ==
    ASSUME IInv, NEW r \in Requests, todo[r] # <<>>
    PROVE  Len(todo[r]) # 0 /\ Head(todo[r]) = todo[r][1]
<1>1. todo[r] \in Seq(Statement) BY Sequential
<1>2. QED BY <1>1, EmptySeq

LEMMA SelectsConduct ==
    ASSUME IInv, Steady, NEW r \in Requests, Conduct(r), SaveSelects(r)
    PROVE  Conduct(r)'
<1>1. /\ OnlyOf(r) /\ Keeps(r) /\ at'[r] = "fetched" /\ todo'[r] = todo[r]
      /\ pending'[r] = pending[r] /\ logged'[r] = logged[r]
      /\ fetched'[r] = View(r)[Head(todo[r]).id]
  BY SelectsFacts
<1>2. Calm(r) BY <1>1, CalmLocal DEF Keeps
<1>3. at[r] = "open" /\ todo[r] # <<>> /\ Head(todo[r]).do = "save" BY DEF SaveSelects, At
<1>4. Running(r) BY <1>3 DEF Conduct
<1>5. Head(todo[r]) = todo[r][1] /\ Len(todo[r]) # 0 BY <1>3, SomethingLeft
<1>6. Stage(r)'
  <2>1. Begins(r) \/ Enrols(r)
    BY <1>3, <1>4, <1>5 DEF Running, Stage, Wrote, Told, Quiet, Parts, Removal, Anonymizing
  <2>2. Begins(r) => Begins(r)' BY <1>1 DEF Begins, Keeps, Begun, Removal, Anonymizing
  <2>3. Enrols(r) => Enrols(r)' BY <1>1 DEF Enrols, Keeps
  <2>4. QED BY <2>1, <2>2, <2>3 DEF Stage
<1>7. \A k \in 1 .. Len(todo'[r]) : Sound(r, call[r], todo[r][k])'
  BY <1>1, <1>2, <1>4, SoundLeft DEF Keeps
<1>8. ASSUME NEW i \in DOMAIN pending[r] PROVE Written(r, i)'
  <2>1. i \in Ids BY DEF IInv, TypeOK
  <2>2. QED BY <1>1, <1>2, <1>4, <2>1, WrittenStays DEF Running, Keeps
<1>9. fetched'[r] = View(r)'[todo'[r][1].id]
  <2>1. View(r)' = View(r) BY <1>1, SameView DEF OnlyOf, store
  <2>2. QED BY <1>1, <1>5, <2>1
<1>10. Running(r)' BY <1>1, <1>6, <1>7, <1>8, <1>9 DEF Running
<1>11. QED BY <1>1, <1>3, <1>10, GoesOn

\* What save() writes keeps what its entity keeps.
LEMMA PutAgrees ==
    ASSUME IInv, Lineage, NEW r \in Requests, Running(r), NEW w, Puts(r, w), NEW i,
           i = Head(todo[r]).id, i[1] = "user", i \notin overtaken[r], db[i] # Absent
    PROVE  Agrees(call[r].op, w, db[i])
<1> DEFINE s == Head(todo[r]).row
           v == View(r)[i]
<1>1. at[r] = "fetched" /\ todo[r] # <<>> /\ Head(todo[r]).do = "save"
  BY DEF Puts, IInv, Course
<1>2. /\ i \in Ids /\ s \in RowsOf(i[1]) /\ s \in Copies(i)
      /\ Head(todo[r]) = todo[r][1] /\ 1 \in 1 .. Len(todo[r])
  BY <1>1, HeadCopies
<1>3. Agrees(call[r].op, s, db[i])
  <2>1. Sound(r, call[r], Head(todo[r])) BY <1>2 DEF Running
  <2>2. Faithful(r, call[r], i, s) BY <1>1, <2>1 DEF Sound
  <2>3. QED BY <2>2 DEF Faithful
<1>4. CASE w = s BY <1>3, <1>4
<1>5. CASE v # Absent /\ w = Updated(v, fetched[r], s)
  <2>1. fetched[r] = v BY <1>1, <1>2 DEF Running
  <2>2. v \in RowsOf("user") /\ v \in Copies(i) BY <1>2, <1>5, ViewTyped, ViewCopies
  <2>3. v.parent = s.parent BY <1>2, <2>2 DEF Lineage, Versions, Kin
  <2>4. db[i] \in RowsOf("user") BY <1>2 DEF IInv, Tables
  <2>5. DOMAIN v.cols = {"role", "password", "permissions"}
        /\ DOMAIN db[i].cols = {"role", "password", "permissions"}
    BY <2>2, <2>4 DEF RowsOf, ColumnsOf, UserColumns
  <2>6. w = Updated(v, v, s) BY <1>5, <2>1
  <2>7. "user" \in Kinds BY DEF Kinds
  <2> HIDE DEF v, s
  <2>8. /\ w.parent = v.parent /\ w.key = s.key
        /\ \A x \in DOMAIN v.cols : w.cols[x] = s.cols[x]
    BY <2>2, <2>5, <2>6, <2>7, UpdatedFields
  <2>9. QED BY <1>3, <2>3, <2>5, <2>8 DEF Agrees
<1>6. QED BY <1>4, <1>5 DEF Puts

LEMMA PutsStage ==
    ASSUME IInv, NEW r \in Requests, Stage(r), NEW w, w # Absent, Puts(r, w)
    PROVE  Stage(r)'
<1> PICK i : i = Head(todo[r]).id OBVIOUS
<1>1. /\ Keeps(r) /\ at'[r] = "open" /\ todo'[r] = Tail(todo[r]) /\ logged'[r] = logged[r]
      /\ DOMAIN pending'[r] = DOMAIN pending[r] \cup {i} /\ pending'[r][i] = w
      /\ \A j \in DOMAIN pending[r] \ {i} : pending'[r][j] = pending[r][j]
  <2>1. DOMAIN Put(r, w) = {i} /\ Put(r, w)[i] = w BY DEF Put
  <2> HIDE DEF Put
  <2>2. QED BY <2>1, AppliesFacts DEF Puts
<1>2. at[r] = "fetched" /\ todo[r] # <<>> /\ Head(todo[r]).do = "save"
  BY DEF Puts, IInv, Course
<1>3. /\ Head(todo[r]) = todo[r][1] /\ Len(todo'[r]) = Len(todo[r]) - 1 /\ Len(todo[r]) \in Nat
      /\ Len(todo[r]) >= 2 => todo'[r][1] = todo[r][2]
  BY <1>1, <1>2, TailIs
<1>4. CASE Enrols(r)
  <2>1. DOMAIN pending'[r] # {} /\ \A j \in DOMAIN pending'[r] : pending'[r][j] # Absent
    BY <1>1, <1>4 DEF Enrols
  <2>2. Quiet(r)' BY <1>1, <1>3, <1>4, <2>1 DEF Quiet, Enrols, Keeps, Unlogged
  <2>3. QED BY <2>2 DEF Stage
<1>5. CASE Begins(r)
  <2>1. DOMAIN pending[r] = {} /\ logged[r] = Absent /\ Begun(r, call[r], todo[r])
    BY <1>5 DEF Begins
  <2>2. DOMAIN pending'[r] = {i} BY <1>1, <2>1
  <2>3. CASE /\ Len(todo[r]) = 2 /\ todo[r][2].do = "audit"
             /\ todo[r][2].id[1] = "user" => todo[r][1].id = todo[r][2].id
             /\ call[r].op = "CreateTenant" => todo[r][1].id = <<"tenant", r>>
             /\ call[r].op \notin Unlogged \cup {"DeleteUser"}
    <3> PICK j : j = todo[r][2].id OBVIOUS
    <3>1. j[1] = "user" => j = i BY <1>3, <2>3
    <3>2. call[r].op = "CreateTenant" => i = <<"tenant", r>> BY <1>3, <2>3
    <3>3. Did(r, j)' BY <1>1, <2>2, <2>3, <3>1, <3>2 DEF Did, Keeps, Unlogged
    <3>4. todo'[r][1].id = j /\ Len(todo'[r]) = 1 /\ todo'[r][1].do = "audit" BY <1>3, <2>3
    <3>5. Wrote(r)' BY <1>1, <2>1, <3>3, <3>4 DEF Wrote
    <3>6. QED BY <3>5 DEF Stage
  <2>4. CASE /\ Len(todo[r]) = 2 /\ todo[r][2].do = "save" /\ call[r].op = "Register"
             /\ todo[r][1].id = <<"tenant", r>> /\ todo[r][2].id = <<"user", r>>
    <3>1. Enrols(r)' BY <1>1, <1>3, <2>1, <2>2, <2>4 DEF Enrols, Keeps
    <3>2. QED BY <3>1 DEF Stage
  <2>5. CASE Len(todo[r]) = 1 /\ call[r].op = "ChangePassword"
    <3>1. Quiet(r)' BY <1>1, <1>3, <2>1, <2>2, <2>5 DEF Quiet, Keeps, Unlogged
    <3>2. QED BY <3>1 DEF Stage
  <2>6. QED BY <1>2, <1>3, <2>1, <2>3, <2>4, <2>5 DEF Begun
<1>6. QED
  BY <1>2, <1>3, <1>4, <1>5 DEF Stage, Wrote, Told, Quiet, Parts, Removal, Anonymizing

LEMMA PutsConduct ==
    ASSUME IInv, Lineage, Steady, NEW r \in Requests, Conduct(r), NEW w, Puts(r, w)
    PROVE  Conduct(r)'
<1> PICK i : i = Head(todo[r]).id OBVIOUS
<1>1. /\ OnlyOf(r) /\ Keeps(r) /\ at'[r] = "open" /\ todo'[r] = Tail(todo[r])
      /\ DOMAIN pending'[r] = DOMAIN pending[r] \cup {i} /\ pending'[r][i] = w
      /\ \A j \in DOMAIN pending[r] \ {i} : pending'[r][j] = pending[r][j]
  <2>1. DOMAIN Put(r, w) = {i} /\ Put(r, w)[i] = w BY DEF Put
  <2> HIDE DEF Put
  <2>2. QED BY <2>1, AppliesFacts DEF Puts
<1>2. at[r] = "fetched" /\ todo[r] # <<>> /\ Head(todo[r]).do = "save"
  BY DEF Puts, IInv, Course
<1>3. Calm(r) BY <1>1, CalmLocal DEF Keeps
<1>4. Running(r) BY <1>2 DEF Conduct
<1>5. w # Absent /\ i \in Ids BY PutFacts, RowTypes
<1>6. Stage(r)' BY <1>4, <1>5, PutsStage DEF Running
<1>7. \A k \in 1 .. Len(todo'[r]) : Sound(r, call[r], todo[r][k])'
  BY <1>1, <1>2, <1>3, <1>4, SoundLeft DEF Keeps
<1>8. ASSUME NEW j \in DOMAIN pending[r], j # i PROVE Written(r, j)'
  <2>1. j \in Ids BY DEF IInv, TypeOK
  <2>2. QED BY <1>1, <1>3, <1>4, <1>8, <2>1, WrittenStays DEF Running, Keeps
<1>9. Written(r, i)'
  <2>1. Sound(r, call[r], Head(todo[r])) BY <1>2, <1>4, HeadCopies DEF Running
  <2>2. PICK c : c = call[r] OBVIOUS
  <2>3. Rights(r, c, i)' BY <1>2, <1>5, <2>1, <2>2, RightsStay DEF Sound
  <2>4. Rights(r, call[r], i)' BY <1>1, <2>2, <2>3 DEF Keeps
  <2>5. (i[1] = "user" /\ i \notin overtaken'[r] /\ db'[i] # Absent) =>
           Agrees(call'[r].op, pending'[r][i], db'[i])
    BY <1>1, <1>4, PutAgrees DEF Keeps, OnlyOf, store
  <2>6. QED BY <1>1, <1>5, <2>4, <2>5 DEF Written, Agrees
<1>10. Running(r)' BY <1>1, <1>6, <1>7, <1>8, <1>9 DEF Running
<1>11. QED BY <1>1, <1>2, <1>10, GoesOn

\* The rows that a deletion takes along.
LEMMA CascadeKinds ==
    ASSUME NEW rows, NEW i \in Ids, NEW j \in Cascade(rows, Victims(rows, i))
    PROVE  /\ j \in Ids /\ rows[j] # Absent
           /\ \/ j = i /\ i[1] \notin {"policy", "domain_policy"}
              \/ i[1] \in {"policy", "domain_policy"} /\ j[1] = i[1] /\ rows[j].key = i[2]
              \/ i[1] = "route" /\ j[1] = "policy" /\ rows[j].parent = i[2]
              \/ i[1] = "domain" /\ j[1] = "domain_policy" /\ rows[j].parent = i[2]
              \/ i[1] = "tenant" /\ j[1] \in {"domain", "domain_policy"}
<1>0. i = <<i[1], i[2]>> /\ i[1] \in Kinds BY DEF Ids
<1>1. ASSUME NEW a \in Victims(rows, i)
      PROVE  /\ a \in Ids /\ rows[a] # Absent /\ a[1] = i[1]
             /\ \/ a = i /\ i[1] \notin {"policy", "domain_policy"}
                \/ i[1] \in {"policy", "domain_policy"} /\ rows[a].key = i[2]
  <2>1. CASE i[1] \in {"policy", "domain_policy"}
    <3>1. Victims(rows, i) = {<<i[1], n>> : n \in Holders(rows, i[1], i[2])}
      BY <2>1 DEF Victims
    <3>2. PICK n \in Holders(rows, i[1], i[2]) : a = <<i[1], n>> BY <3>1
    <3>3. n \in Names /\ rows[a] # Absent /\ rows[a].key = i[2] BY <3>2 DEF Holders
    <3>4. QED BY <1>0, <2>1, <3>2, <3>3 DEF Ids
  <2>2. CASE i[1] \notin {"policy", "domain_policy"}
    <3>1. Victims(rows, i) = IF rows[i] # Absent THEN {i} ELSE {} BY <2>2 DEF Victims
    <3>2. QED BY <2>2, <3>1
  <2>3. QED BY <2>1, <2>2
<1>2. ASSUME NEW S, NEW a \in Dependents(rows, S)
      PROVE  /\ a \in Ids /\ rows[a] # Absent /\ a[1] \in Cascading
             /\ <<ParentKind[a[1]], rows[a].parent>> \in S
  BY DEF Dependents, ParentId
<1>3. \A a \in Ids : a[1] \in Cascading =>
          \/ a[1] = "domain" /\ ParentKind[a[1]] = "tenant"
          \/ a[1] = "policy" /\ ParentKind[a[1]] = "route"
          \/ a[1] = "domain_policy" /\ ParentKind[a[1]] = "domain"
  BY DEF Cascading, ParentKind
<1> DEFINE V == Victims(rows, i)
           T == V \cup Dependents(rows, V)
<1>4. ASSUME NEW a \in Dependents(rows, V)
      PROVE  /\ a \in Ids /\ rows[a] # Absent
             /\ \/ i[1] = "route" /\ a[1] = "policy" /\ rows[a].parent = i[2]
                \/ i[1] = "domain" /\ a[1] = "domain_policy" /\ rows[a].parent = i[2]
                \/ i[1] = "tenant" /\ a[1] = "domain"
  <2>1. PICK p \in V : p = <<ParentKind[a[1]], rows[a].parent>> BY <1>2
  <2>2. p[1] = i[1] /\ (p = i \/ i[1] \in {"policy", "domain_policy"}) BY <1>1, <2>1
  <2>3. p[1] = ParentKind[a[1]] /\ p[2] = rows[a].parent BY <2>1
  <2> HIDE DEF V
  <2>4. QED BY <1>2, <1>3, <2>2, <2>3
<1>5. ASSUME NEW a \in Dependents(rows, T)
      PROVE  a \in Dependents(rows, V) \/
             (a \in Ids /\ rows[a] # Absent /\ i[1] = "tenant" /\ a[1] = "domain_policy")
  <2>1. PICK p \in T : p = <<ParentKind[a[1]], rows[a].parent>> BY <1>2
  <2>2. CASE p \in V
    BY <1>2, <2>1, <2>2 DEF Dependents, ParentId
  <2>3. CASE p \in Dependents(rows, V)
    <3>1. p[1] \in {"policy", "domain_policy", "domain"} /\ (p[1] = "domain" => i[1] = "tenant")
      BY <1>4, <2>3
    <3>2. p[1] = ParentKind[a[1]] BY <2>1
    <3>3. QED BY <1>2, <1>3, <3>1, <3>2
  <2>4. QED BY <2>2, <2>3
<1>6. j \in V \/ j \in Dependents(rows, V) \/ j \in Dependents(rows, T) BY DEF Cascade
<1> HIDE DEF V, T
<1>7. CASE j \in V
  <2>1. j \in Victims(rows, i) BY <1>7 DEF V
  <2>2. QED BY <1>1, <2>1
<1>8. CASE j \in Dependents(rows, V) BY <1>4, <1>8
<1>9. CASE j \in Dependents(rows, T) BY <1>4, <1>5, <1>9
<1>10. QED BY <1>6, <1>7, <1>8, <1>9

\* Who may delete a row may delete what goes with it.
LEMMA RightsGone ==
    ASSUME IInv, Lineage, NEW r \in Requests, NEW c, NEW i \in Ids, SoundDelete(r, c, i),
           NEW j \in Cascade(View(r), Victims(View(r), i))
    PROVE  Rights(r, c, j) /\ (j[1] \in {"user", "tenant"} => j = i)
<1> PICK v : v = View(r)[j] OBVIOUS
<1>1. /\ j \in Ids /\ v # Absent
      /\ \/ j = i /\ i[1] \notin {"policy", "domain_policy"}
         \/ i[1] \in {"policy", "domain_policy"} /\ j[1] = i[1] /\ v.key = i[2]
         \/ i[1] = "route" /\ j[1] = "policy" /\ v.parent = i[2]
         \/ i[1] = "domain" /\ j[1] = "domain_policy" /\ v.parent = i[2]
         \/ i[1] = "tenant" /\ j[1] \in {"domain", "domain_policy"}
  BY CascadeKinds
<1>2. v \in Copies(j) BY <1>1, ViewCopies
<1>3. Settled(j) /\ Fits(j, v) /\ \A w \in Copies(j) : Kin(j, v, w)
  BY <1>1, <1>2 DEF Lineage, Versions
<1>4. (j[1] \in {"policy", "domain_policy"} /\ i[1] # "tenant") => v.parent = i[2] BY <1>1, <1>3 DEF Fits
<1>5. j[1] \in {"user", "tenant", "route"} => j = i BY <1>1
<1>6. i[1] # "tenant" => (j = i \/ j[1] \in {"policy", "domain_policy"}) BY <1>1
<1>7. i[1] # "tenant" => Base(j) = Base(i) BY <1>1 DEF Base, ParentKind
<1>8. Licensed(c.by, j)
  <2>1. Licensed(c.by, i) /\ (i[1] = "tenant" => c.by.role = "superuser") BY DEF SoundDelete
  <2>2. CASE j = i BY <2>1, <2>2
  <2>3. CASE i[1] = "tenant" BY <2>1, <2>3 DEF Licensed
  <2>4. CASE i[1] \in {"route", "policy"} /\ j[1] = "policy" BY <2>1, <2>4 DEF Licensed
  <2>5. CASE i[1] \in {"domain", "domain_policy"} /\ j[1] = "domain_policy"
    BY <2>1, <2>5 DEF Licensed
  <2>6. QED BY <1>1, <2>2, <2>3, <2>4, <2>5
<1>9. Rightful(c, j, v)
  <2>1. ASSUME c.by.role # "superuser"
        PROVE  /\ j[1] # "tenant"
               /\ j[1] \in {"domain", "route", "user"} => v.parent = c.by.tenant
               /\ j[1] \in {"policy", "domain_policy"} =>
                     v.parent = c.on /\ c.on \in Seeds /\ ParentIs(<<Base(j), c.on>>, c.by.tenant)
    <3>1. /\ i[1] # "tenant" /\ i[2] = c.on /\ i[2] \in Seeds
          /\ ParentIs(<<Base(i), i[2]>>, c.by.tenant)
      BY <2>1 DEF SoundDelete
    <3>2. ASSUME j[1] \in {"domain", "route", "user"} PROVE v.parent = c.by.tenant
      <4>1. j = i BY <1>6, <3>1, <3>2
      <4>2. <<Base(i), i[2]>> = i BY <3>2, <4>1 DEF Base, Ids
      <4>3. QED BY <1>2, <3>1, <4>1, <4>2 DEF ParentIs
    <3>3. QED BY <1>4, <1>5, <1>7, <3>1, <3>2
  <2>2. j[1] = "user" => v.cols.role # "superuser"
    BY <1>2, <1>5 DEF SoundDelete
  <2>3. QED BY <2>1, <2>2 DEF Rightful
<1>10. \A w \in Copies(j) : Rightful(c, j, w) BY <1>3, <1>9, RightfulKin
<1>11. c.op # "Register" BY DEF SoundDelete
<1>12. QED BY <1>3, <1>5, <1>8, <1>10, <1>11 DEF Rights

\* What delete() is about.
LEMMA RemovesFacts ==
    ASSUME IInv, NEW r \in Requests, Conduct(r), Removes(r), NEW i, i = Head(todo[r]).id
    PROVE  /\ at[r] = "open" /\ todo[r] # <<>> /\ Head(todo[r]).do = "delete"
           /\ i \in Ids /\ SoundDelete(r, call[r], i)
           /\ DOMAIN Gone(r) = Cascade(View(r), Victims(View(r), i)) /\ DOMAIN Gone(r) \subseteq Ids
           /\ OnlyOf(r) /\ Keeps(r) /\ at'[r] = "open" /\ todo'[r] = Tail(todo[r])
           /\ logged'[r] = logged[r] /\ forgot'[r] = forgot[r]
           /\ DOMAIN pending'[r] = DOMAIN pending[r] \cup DOMAIN Gone(r)
           /\ \A j \in DOMAIN Gone(r) : pending'[r][j] = Absent
           /\ \A j \in DOMAIN pending[r] \ DOMAIN Gone(r) : pending'[r][j] = pending[r][j]
<1>1. at[r] = "open" /\ todo[r] # <<>> /\ Head(todo[r]).do = "delete" BY DEF Removes, At
<1>2. Len(todo[r]) # 0 /\ Head(todo[r]) = todo[r][1] /\ Len(todo[r]) \in Nat
  BY <1>1, SomethingLeft, Sequential, LenProperties
<1>3. 1 \in 1 .. Len(todo[r]) BY <1>2
<1>4. Running(r) BY <1>1 DEF Conduct
<1>5. Head(todo[r]) \in Statement /\ Sound(r, call[r], Head(todo[r]))
  BY <1>2, <1>3, <1>4, TodoTyped DEF Running
<1>6. i \in Ids /\ SoundDelete(r, call[r], i) BY <1>1, <1>5 DEF Statement, Sound
<1>7. DOMAIN Gone(r) = Cascade(View(r), Victims(View(r), i)) /\ \A j \in DOMAIN Gone(r) : Gone(r)[j] = Absent
  BY DEF Gone
<1>8. DOMAIN Gone(r) \subseteq Ids BY <1>6, <1>7, CascadeKinds
<1>9. Applies(r, Gone(r)) BY DEF Removes
<1>10. /\ OnlyOf(r) /\ Keeps(r) /\ at'[r] = "open" /\ todo'[r] = Tail(todo[r])
       /\ logged'[r] = logged[r] /\ forgot'[r] = forgot[r]
       /\ DOMAIN pending'[r] = DOMAIN pending[r] \cup DOMAIN Gone(r)
       /\ \A j \in DOMAIN Gone(r) : pending'[r][j] = Gone(r)[j]
       /\ \A j \in DOMAIN pending[r] \ DOMAIN Gone(r) : pending'[r][j] = pending[r][j]
  BY <1>9, AppliesFacts
<1>11. QED BY <1>1, <1>6, <1>7, <1>8, <1>10

LEMMA RemovesStage ==
    ASSUME IInv, Lineage, NEW r \in Requests, Conduct(r), Removes(r)
    PROVE  Stage(r)'
<1> PICK i : i = Head(todo[r]).id OBVIOUS
<1>1. /\ at[r] = "open" /\ todo[r] # <<>> /\ Head(todo[r]).do = "delete"
      /\ i \in Ids /\ SoundDelete(r, call[r], i)
      /\ DOMAIN Gone(r) = Cascade(View(r), Victims(View(r), i))
      /\ OnlyOf(r) /\ Keeps(r) /\ at'[r] = "open" /\ todo'[r] = Tail(todo[r])
      /\ logged'[r] = logged[r] /\ forgot'[r] = forgot[r]
      /\ DOMAIN pending'[r] = DOMAIN pending[r] \cup DOMAIN Gone(r)
      /\ \A j \in DOMAIN Gone(r) : pending'[r][j] = Absent
  BY RemovesFacts
<1>2. /\ Head(todo[r]) = todo[r][1] /\ Len(todo'[r]) = Len(todo[r]) - 1 /\ Len(todo[r]) \in Nat
      /\ Len(todo[r]) >= 1 /\ Len(todo[r]) >= 2 => todo'[r][1] = todo[r][2]
  BY <1>1, TailIs
<1>3. Stage(r) BY <1>1 DEF Conduct, Running
<1>4. CASE Begins(r)
  <2>1. /\ DOMAIN pending[r] = {} /\ logged[r] = Absent
        /\ Len(todo[r]) = 2 /\ todo[r][2].do = "audit"
        /\ todo[r][2].id[1] # "user" /\ call[r].op # "CreateTenant"
        /\ call[r].op \notin Unlogged \cup {"DeleteUser"}
    BY <1>1, <1>2, <1>4 DEF Begins, Begun
  <2> PICK j : j = todo[r][2].id OBVIOUS
  <2>2. DOMAIN pending'[r] = DOMAIN Gone(r) BY <1>1, <2>1
  <2>3. DOMAIN pending'[r] # {} \/ Overlapped(r)
    <3>1. CASE Victims(View(r), i) = {}
      <4>1. i[1] \in {"route", "domain"} BY <3>1 DEF Removes
      <4>2. View(r)[i] = Absent BY <3>1, <4>1 DEF Victims
      <4>3. db[i] = Absent BY <1>1, <2>1, <4>2 DEF View
      <4>4. i \in overtaken[r] BY <1>1, <4>1, <4>3 DEF SoundDelete
      <4>5. QED BY <1>1, <4>4 DEF Overlapped
    <3>2. CASE Victims(View(r), i) # {}
      <4>1. Cascade(View(r), Victims(View(r), i)) # {} BY <3>2 DEF Cascade
      <4>2. QED BY <1>1, <2>2, <4>1
    <3>3. QED BY <3>1, <3>2
  <2>4. \A n \in Names : <<"user", n>> \notin DOMAIN pending'[r]
    <3>1. i[1] # "user" BY <1>1, <2>1 DEF SoundDelete
    <3>2. \A k \in DOMAIN Gone(r) : k[1] # "user" BY <1>1, <3>1, RightsGone
    <3>3. \A n : <<"user", n>>[1] = "user" OBVIOUS
    <3>4. QED BY <2>2, <3>2, <3>3
  <2>5. Did(r, j)' BY <1>1, <2>1, <2>3, <2>4 DEF Did, Keeps, Overlapped
  <2>6. todo'[r][1].id = j /\ Len(todo'[r]) = 1 /\ todo'[r][1].do = "audit" BY <1>2, <2>1
  <2>7. Wrote(r)' BY <1>1, <2>1, <2>5, <2>6 DEF Wrote
  <2>8. QED BY <2>7 DEF Stage
<1>5. CASE Parts(r)
  <2> PICK n, u : n = call[r].on /\ u = <<"user", n>> OBVIOUS
  <2>1. /\ Len(todo[r]) = 1 /\ todo[r][1].id = u /\ logged[r] # Absent /\ DOMAIN pending[r] = {}
        /\ Forgets(r, "actor", n) /\ Forgets(r, "resource", n) /\ call[r].op = "DeleteUser"
    BY <1>1, <1>2, <1>5 DEF Parts, Removal, Anonymizing
  <2>2. i = u /\ i[1] = "user" BY <1>2, <2>1
  <2>3. Victims(View(r), i) # {} BY <2>2 DEF Removes
  <2>4. Victims(View(r), i) = {i} BY <2>2, <2>3 DEF Victims
  <2>5. i \in DOMAIN Gone(r) BY <1>1, <2>4 DEF Cascade
  <2>6. DOMAIN Gone(r) \subseteq {i} BY <1>1, <2>2, CascadeKinds
  <2>7. DOMAIN pending'[r] = {u} /\ pending'[r][u] = Absent BY <1>1, <2>1, <2>2, <2>5, <2>6
  <2>8. Forgets(r, "actor", n)' /\ Forgets(r, "resource", n)'
    BY <1>1, <2>1 DEF Forgets, Hides, Mentions, OnlyOf, store, Keeps
  <2>9. n = call'[r].on BY <1>1 DEF Keeps
  <2>10. Parts(r)'
    BY <1>1, <1>2, <2>1, <2>7, <2>8, <2>9 DEF Parts, Keeps
  <2>11. QED BY <2>10 DEF Stage
<1>6. QED BY <1>1, <1>2, <1>3, <1>4, <1>5 DEF Stage, Wrote, Told, Enrols, Quiet

LEMMA RemovesConduct ==
    ASSUME IInv, Lineage, Steady, NEW r \in Requests, Conduct(r), Removes(r)
    PROVE  Conduct(r)'
<1> PICK i : i = Head(todo[r]).id OBVIOUS
<1>1. /\ at[r] = "open" /\ todo[r] # <<>>
      /\ i \in Ids /\ SoundDelete(r, call[r], i)
      /\ DOMAIN Gone(r) = Cascade(View(r), Victims(View(r), i)) /\ DOMAIN Gone(r) \subseteq Ids
      /\ OnlyOf(r) /\ Keeps(r) /\ at'[r] = "open" /\ todo'[r] = Tail(todo[r])
      /\ DOMAIN pending'[r] = DOMAIN pending[r] \cup DOMAIN Gone(r)
      /\ \A j \in DOMAIN Gone(r) : pending'[r][j] = Absent
      /\ \A j \in DOMAIN pending[r] \ DOMAIN Gone(r) : pending'[r][j] = pending[r][j]
  BY RemovesFacts
<1>2. Calm(r) BY <1>1, CalmLocal DEF Keeps
<1>3. Running(r) BY <1>1 DEF Conduct
<1>4. Stage(r)' BY RemovesStage
<1>5. \A k \in 1 .. Len(todo'[r]) : Sound(r, call[r], todo[r][k])'
  BY <1>1, <1>2, <1>3, SoundLeft DEF Keeps
<1>6. ASSUME NEW j \in DOMAIN pending[r], j \notin DOMAIN Gone(r) PROVE Written(r, j)'
  <2>1. j \in Ids BY DEF IInv, TypeOK
  <2>2. QED BY <1>1, <1>2, <1>3, <1>6, <2>1, WrittenStays DEF Running, Keeps
<1>7. ASSUME NEW j \in DOMAIN Gone(r) PROVE Written(r, j)'
  <2>1. PICK c : c = call[r] OBVIOUS
  <2>2. j \in Ids /\ Rights(r, c, j) /\ (j[1] \in {"user", "tenant"} => j = i)
    BY <1>1, <2>1, RightsGone
  <2>3. Rights(r, c, j)' BY <2>2, RightsStay
  <2>4. Rights(r, call[r], j)' BY <1>1, <2>1, <2>3 DEF Keeps
  <2>5. j[1] = "tenant" => call'[r].op = "DeleteTenant"
    BY <1>1, <2>2 DEF SoundDelete, Keeps
  <2>6. pending'[r][j] = Absent BY <1>1
  <2>7. QED BY <2>4, <2>5, <2>6 DEF Written
<1>8. Running(r)' BY <1>1, <1>4, <1>5, <1>6, <1>7 DEF Running
<1>9. QED BY <1>1, <1>8, GoesOn

\* The head of the statements, typed and sound.
LEMMA HeadSound ==
    ASSUME IInv, NEW r \in Requests, Running(r), todo[r] # <<>>
    PROVE  Head(todo[r]) \in Statement /\ Sound(r, call[r], Head(todo[r]))
<1>1. Len(todo[r]) # 0 /\ Head(todo[r]) = todo[r][1] /\ Len(todo[r]) \in Nat
  BY SomethingLeft, Sequential, LenProperties
<1>2. 1 \in 1 .. Len(todo[r]) BY <1>1
<1>3. QED BY <1>1, <1>2, TodoTyped DEF Running

LEMMA LogIsThere ==
    /\ \A s \in Statement : s.do = "audit" => s # Absent
    /\ \A l \in Logs : l.do = "audit" /\ l # Absent
<1>1. ASSUME NEW s \in Statement, s.do = "audit" PROVE s \in Logs
  BY <1>1 DEF Statement, Logs
<1>2. \A l \in Logs : l.do = "audit" /\ l # Absent BY NamesAssumption DEF Logs
<1>3. QED BY <1>1, <1>2

\* A step of a running request that writes no row and goes on to the next
\* statement.
LEMMA ProceedsConduct ==
    ASSUME IInv, Steady, NEW r \in Requests, Conduct(r), at[r] = "open", todo[r] # <<>>,
           OnlyOf(r), Keeps(r), at'[r] = "open", todo'[r] = Tail(todo[r]),
           pending'[r] = pending[r], Stage(r)'
    PROVE  Conduct(r)'
<1>1. Calm(r) BY CalmLocal DEF Keeps
<1>2. Running(r) BY DEF Conduct
<1>3. \A k \in 1 .. Len(todo'[r]) : Sound(r, call[r], todo[r][k])'
  BY <1>1, <1>2, SoundLeft DEF Keeps
<1>4. ASSUME NEW j \in DOMAIN pending[r] PROVE Written(r, j)'
  <2>1. j \in Ids BY DEF IInv, TypeOK
  <2>2. QED BY <1>1, <1>2, <2>1, WrittenStays DEF Running, Keeps
<1>5. Running(r)' BY <1>3, <1>4 DEF Running
<1>6. QED BY <1>5, GoesOn

LEMMA RecordsConduct ==
    ASSUME IInv, Steady, NEW r \in Requests, Conduct(r), Records(r)
    PROVE  Conduct(r)'
<1>1. /\ OnlyOf(r) /\ Keeps(r) /\ at'[r] = "open" /\ todo'[r] = Tail(todo[r])
      /\ pending'[r] = pending[r] /\ logged'[r] = Head(todo[r]) /\ forgot'[r] = forgot[r]
  BY RecordsFacts
<1>2. at[r] = "open" /\ todo[r] # <<>> /\ Head(todo[r]).do = "audit" BY DEF Records, At
<1>3. /\ Head(todo[r]) = todo[r][1] /\ Len(todo'[r]) = Len(todo[r]) - 1 /\ Len(todo[r]) \in Nat
      /\ Len(todo[r]) >= 1 /\ Len(todo[r]) >= 2 => todo'[r][1] = todo[r][2]
      /\ Len(todo[r]) >= 3 => todo'[r][2] = todo[r][3]
      /\ Len(todo[r]) >= 4 => todo'[r][3] = todo[r][4]
  BY <1>1, <1>2, TailIs
<1>4. Running(r) BY <1>2 DEF Conduct
<1>5. logged'[r] # Absent BY <1>1, <1>2, <1>4, HeadSound, LogIsThere
<1>6. Stage(r)'
  <2>1. CASE Wrote(r)
    <3> PICK j : j = todo[r][1].id OBVIOUS
    <3>1. Did(r, j) /\ Len(todo[r]) = 1 BY <2>1 DEF Wrote
    <3>2. Calm(r) BY <1>1, CalmLocal DEF Keeps
    <3>3. Did(r, j)' BY <1>1, <3>1, <3>2, DidStays DEF Keeps
    <3>4. logged'[r].id = j BY <1>1, <1>3
    <3>5. Told(r)' BY <1>1, <1>3, <1>5, <3>1, <3>3, <3>4 DEF Told
    <3>6. QED BY <3>5 DEF Stage
  <2>2. CASE Begins(r)
    <3> PICK u : u = <<"user", call[r].on>> OBVIOUS
    <3>1. /\ DOMAIN pending[r] = {} /\ Len(todo[r]) = 4
          /\ Removal(todo[r][2], todo[r][3], todo[r][4], u) /\ call[r].op = "DeleteUser"
      BY <1>2, <1>3, <2>2 DEF Begins, Begun
    <3>2. u = <<"user", call'[r].on>> BY <1>1 DEF Keeps
    <3>3. /\ Len(todo'[r]) = 3 /\ todo'[r][1] = todo[r][2] /\ todo'[r][2] = todo[r][3]
          /\ todo'[r][3] = todo[r][4]
      BY <1>3, <3>1
    <3>4. Removal(todo'[r][1], todo'[r][2], todo'[r][3], u) BY <3>1, <3>3
    <3>5. Removal(todo[r][1], todo[r][2], todo[r][3], <<"user", call[r].on>>)'
      BY <3>2, <3>4 DEF Removal, Anonymizing
    <3>6. Parts(r)' BY <1>1, <1>5, <3>1, <3>3, <3>5 DEF Parts, Keeps
    <3>7. QED BY <3>6 DEF Stage
  <2>3. Stage(r) BY <1>4 DEF Running
  <2>4. QED
    BY <1>2, <1>3, <2>1, <2>2, <2>3 DEF Stage, Told, Enrols, Quiet, Parts, Removal, Anonymizing
<1>7. QED BY <1>1, <1>2, <1>6, ProceedsConduct

\* After its UPDATE no audit row that is visible has user n in the column,
\* and an UPDATE of the other column does not put it back.
LEMMA BlanksForgets ==
    ASSUME IInv, NEW r \in Requests, OnlyOf(r), Keeps(r), NEW s, NEW n \in Names,
           s.column \in {"actor", "resource"}, s.id = <<"user", n>>,
           logged[r] \in Logs, logged'[r] = Blanked(r, s),
           forgot'[r] = forgot[r] \cup ({s.column} \X Hit(s))
    PROVE  /\ logged'[r] # Absent /\ Forgets(r, s.column, n)'
           /\ Forgets(r, "actor", n) => Forgets(r, "actor", n)'
<1> DEFINE l == logged[r]
<1>1. n # Nobody /\ Forgotten # <<"user", n>> BY NamesAssumption DEF Keys, Forgotten
<1>2. s.id[2] = n BY DEF Mentions
<1>3. audit' = audit /\ overtaken'[r] = overtaken[r] BY DEF OnlyOf, store, Keeps
<1>4. l # Absent /\ l \in [do : {"audit"}, tenant : Names \cup {Nobody}, id : Ids \cup {Forgotten},
                            by : Names \cup {Nobody}]
  BY LogIsThere DEF Logs
<1>5. ASSUME s.column = "actor"
      PROVE  logged'[r] # Absent /\ ~Mentions(logged'[r], "actor", n)
  <2>1. CASE ~Mentions(l, "actor", n) BY <1>2, <1>4, <1>5, <2>1 DEF Blanked
  <2>2. CASE Mentions(l, "actor", n)
    <3>1. logged'[r] = Anonymous(l, {"actor"}) BY <1>2, <1>5, <2>2 DEF Blanked
    <3>2. logged'[r] \in Logs /\ logged'[r].by = Nobody BY <1>4, <3>1 DEF Anonymous, Logs
    <3>3. QED BY <1>1, <3>2, LogIsThere DEF Mentions
  <2>3. QED BY <2>1, <2>2
<1>6. ASSUME s.column = "resource"
      PROVE  /\ logged'[r] # Absent /\ ~Mentions(logged'[r], "resource", n)
             /\ ~Mentions(l, "actor", n) => ~Mentions(logged'[r], "actor", n)
  <2>1. CASE ~Mentions(l, "resource", n) BY <1>2, <1>4, <1>6, <2>1 DEF Blanked
  <2>2. CASE Mentions(l, "resource", n)
    <3>1. logged'[r] = Anonymous(l, {"resource"}) BY <1>2, <1>6, <2>2 DEF Blanked
    <3>2. logged'[r] \in Logs /\ logged'[r].id = Forgotten /\ logged'[r].by = l.by
      BY <1>4, <3>1 DEF Anonymous, Logs
    <3>3. QED BY <1>1, <1>4, <3>2, LogIsThere DEF Mentions
  <2>3. QED BY <2>1, <2>2
<1>7. Hides(r, s.column, n)'
  <2>1. \A q \in Requests : Mentions(audit[q], s.column, n) => <<s.column, q>> \in forgot'[r]
    BY <1>2 DEF Hit
  <2>2. QED BY <1>3, <2>1 DEF Hides, Mentions
<1>8. Hides(r, "actor", n) => Hides(r, "actor", n)' BY <1>3 DEF Hides, Mentions
<1>9. CASE s.column = "actor"
  <2>1. Forgets(r, "actor", n)' BY <1>5, <1>7, <1>9 DEF Forgets, Mentions
  <2>2. QED BY <1>5, <1>9, <2>1
<1>10. CASE s.column = "resource"
  <2>1. Forgets(r, "resource", n)' BY <1>6, <1>7, <1>10 DEF Forgets, Mentions
  <2>2. Forgets(r, "actor", n) => Forgets(r, "actor", n)'
    BY <1>6, <1>8, <1>10 DEF Forgets, Mentions
  <2>3. QED BY <1>6, <1>10, <2>1, <2>2
<1>11. QED BY <1>9, <1>10

LEMMA AnonymizesConduct ==
    ASSUME IInv, Steady, NEW r \in Requests, Conduct(r), Anonymizes(r)
    PROVE  Conduct(r)'
<1> PICK s : s = Head(todo[r]) OBVIOUS
<1>1. /\ OnlyOf(r) /\ Keeps(r) /\ at'[r] = "open" /\ todo'[r] = Tail(todo[r])
      /\ pending'[r] = pending[r] /\ logged'[r] = Blanked(r, s)
      /\ forgot'[r] = forgot[r] \cup ({s.column} \X Hit(s))
  BY AnonymizesFacts
<1>2. at[r] = "open" /\ todo[r] # <<>> /\ s.do = "anonymize" BY DEF Anonymizes, At
<1>3. /\ s = todo[r][1] /\ Len(todo'[r]) = Len(todo[r]) - 1 /\ Len(todo[r]) \in Nat
      /\ Len(todo[r]) >= 1 /\ Len(todo[r]) >= 2 => todo'[r][1] = todo[r][2]
      /\ Len(todo[r]) >= 3 => todo'[r][2] = todo[r][3]
  BY <1>1, <1>2, TailIs
<1>4. Running(r) BY <1>2 DEF Conduct
<1>5. Parts(r)
  BY <1>2, <1>3, <1>4 DEF Running, Stage, Begins, Begun, Wrote, Told, Enrols, Quiet
<1> PICK n, u : n = call[r].on /\ u = <<"user", n>> OBVIOUS
<1>6. /\ call[r].op = "DeleteUser" /\ logged[r] # Absent /\ DOMAIN pending[r] = {}
      /\ \/ /\ Len(todo[r]) = 3 /\ Removal(todo[r][1], todo[r][2], todo[r][3], u)
         \/ /\ Len(todo[r]) = 2 /\ Anonymizing(todo[r][1], "resource", u)
            /\ todo[r][2].do = "delete" /\ todo[r][2].id = u /\ Forgets(r, "actor", n)
  BY <1>2, <1>3, <1>5 DEF Parts
<1>7. s.id = u /\ s.column \in {"actor", "resource"}
  BY <1>3, <1>6 DEF Removal, Anonymizing
<1>8. n \in Names
  <2>1. call[r] \in Calls BY <1>2 DEF IInv, Course
  <2>2. QED BY <1>6, <2>1, CallsName DEF Names
<1>9. logged[r] \in Logs BY <1>6 DEF IInv, Course
<1>10. /\ logged'[r] # Absent /\ Forgets(r, s.column, n)'
       /\ Forgets(r, "actor", n) => Forgets(r, "actor", n)'
  BY <1>1, <1>7, <1>8, <1>9, BlanksForgets
<1>11. n = call'[r].on BY <1>1 DEF Keeps
<1>12. CASE Len(todo[r]) = 3 /\ Removal(todo[r][1], todo[r][2], todo[r][3], u)
  <2>1. /\ Anonymizing(todo[r][1], "actor", u) /\ Anonymizing(todo[r][2], "resource", u)
        /\ todo[r][3].do = "delete" /\ todo[r][3].id = u
    BY <1>12 DEF Removal
  <2>2. s.column = "actor" BY <1>3, <2>1 DEF Anonymizing
  <2>3. /\ Len(todo'[r]) = 2 /\ Anonymizing(todo[r][1], "resource", u)'
        /\ todo'[r][2].do = "delete" /\ todo'[r][2].id = u
    BY <1>3, <1>12, <2>1 DEF Anonymizing
  <2>4. Forgets(r, "actor", n)' BY <1>10, <2>2
  <2>5. Parts(r)' BY <1>1, <1>6, <1>10, <1>11, <2>3, <2>4 DEF Parts, Keeps
  <2>6. Stage(r)' BY <2>5 DEF Stage
  <2>7. QED BY <1>1, <1>2, <2>6, ProceedsConduct
<1>13. CASE /\ Len(todo[r]) = 2 /\ Anonymizing(todo[r][1], "resource", u)
            /\ todo[r][2].do = "delete" /\ todo[r][2].id = u /\ Forgets(r, "actor", n)
  <2>1. s.column = "resource" BY <1>3, <1>13 DEF Anonymizing
  <2>2. Len(todo'[r]) = 1 /\ todo'[r][1].do = "delete" /\ todo'[r][1].id = u BY <1>3, <1>13
  <2>3. Forgets(r, "actor", n)' /\ Forgets(r, "resource", n)' BY <1>10, <1>13, <2>1
  <2>4. Parts(r)' BY <1>1, <1>6, <1>10, <1>11, <2>2, <2>3 DEF Parts, Keeps
  <2>5. Stage(r)' BY <2>4 DEF Stage
  <2>6. QED BY <1>1, <1>2, <2>5, ProceedsConduct
<1>14. QED BY <1>6, <1>12, <1>13

\* A request that is over.
LEMMA DoneConduct == ASSUME NEW r \in Requests, at'[r] = "done" PROVE Conduct(r)'
BY DEF Conduct

\* What a statement, or the commit, comes to.
LEMMA ExecuteKinds ==
    ASSUME IInv, NEW r \in Requests, Execute(r)
    PROVE  \/ SaveSelects(r) \/ (\E w : Puts(r, w)) \/ Removes(r) \/ Records(r)
           \/ Anonymizes(r) \/ Commits(r) \/ \E how \in {"refused", "error", "unstorable"} : RollsBack(r, how)
<1>1. ASSUME SaveInserts(r)
      PROVE  (\E w : Puts(r, w)) \/ \E how \in {"error", "unstorable"} : RollsBack(r, how)
  <2> PICK s : s = Head(todo[r]) OBVIOUS
  <2>0. CASE Unstorable(r, LooseKinds) BY <2>0 DEF Unstorable
  <2>1. CASE View(r)[s.id] # Absent BY <1>1, <2>0, <2>1 DEF SaveInserts
  <2>2. CASE View(r)[s.id] = Absent /\ ~Unstorable(r, LooseKinds)
    <3>1. /\ at[r] = "fetched" /\ fetched[r] = Absent
          /\ ~Waits(r, Put(r, s.row), Absent) /\ Writes(r, Put(r, s.row))
      BY <1>1, <2>2 DEF SaveInserts, Put
    <3>2. CASE Legal(Over(View(r), Put(r, s.row)))
      <4>1. Applies(r, Put(r, s.row)) BY <3>1, <3>2 DEF Applies
      <4>2. Puts(r, s.row) BY <2>2, <3>1, <4>1 DEF Puts
      <4>3. QED BY <4>2
    <3>3. CASE ~Legal(Over(View(r), Put(r, s.row))) BY <3>1, <3>3 DEF Writes
    <3>4. QED BY <3>2, <3>3
  <2>3. QED BY <2>0, <2>1, <2>2
<1>2. ASSUME SaveUpdates(r)
      PROVE  (\E w : Puts(r, w)) \/ \E how \in {"error", "unstorable"} : RollsBack(r, how)
  <2> PICK s, row : s = Head(todo[r]) /\ row = View(r)[s.id] OBVIOUS
  <2> PICK w : w = Updated(row, fetched[r], s.row) OBVIOUS
  <2>0. CASE Unstorable(r, LooseKinds) BY <2>0 DEF Unstorable
  <2>1. CASE row = Absent BY <1>2, <2>0, <2>1 DEF SaveUpdates
  <2>2. CASE row # Absent /\ ~Unstorable(r, LooseKinds)
    <3>1. /\ at[r] = "fetched" /\ fetched[r] # Absent
          /\ ~Waits(r, Put(r, w), Absent) /\ Writes(r, Put(r, w))
      BY <1>2, <2>2 DEF SaveUpdates, Put
    <3>2. CASE Legal(Over(View(r), Put(r, w)))
      <4>1. Applies(r, Put(r, w)) BY <3>1, <3>2 DEF Applies
      <4>2. Puts(r, w) BY <2>2, <3>1, <4>1 DEF Puts
      <4>3. QED BY <4>2
    <3>3. CASE ~Legal(Over(View(r), Put(r, w))) BY <3>1, <3>3 DEF Writes
    <3>4. QED BY <3>2, <3>3
  <2>3. QED BY <2>0, <2>1, <2>2
<1>3. ASSUME Deletes(r) PROVE Removes(r) \/ RollsBack(r, "refused") \/ RollsBack(r, "error")
  <2> PICK i : i = Head(todo[r]).id OBVIOUS
  <2>1. CASE Victims(View(r), i) = {} /\ i[1] \notin {"route", "domain"}
    BY <1>3, <2>1 DEF Deletes
  <2>2. CASE ~(Victims(View(r), i) = {} /\ i[1] \notin {"route", "domain"})
    <3>1. At(r, "delete") /\ ~Waits(r, Gone(r), Absent) /\ Writes(r, Gone(r))
      BY <1>3, <2>2 DEF Deletes, Gone
    <3>2. CASE Legal(Over(View(r), Gone(r)))
      <4>1. Applies(r, Gone(r)) BY <3>1, <3>2 DEF Applies
      <4>2. QED BY <2>2, <3>1, <4>1 DEF Removes
    <3>3. CASE ~Legal(Over(View(r), Gone(r))) BY <3>1, <3>3 DEF Writes
    <3>4. QED BY <3>2, <3>3
  <2>3. QED BY <2>1, <2>2
<1>4. ASSUME Audits(r) PROVE Records(r) \/ \E how \in {"error", "unstorable"} : RollsBack(r, how)
  BY <1>4 DEF Audits, Records, Unstorable
<1>5. QED BY <1>1, <1>2, <1>3, <1>4 DEF Execute

-----------------------------------------------------------------------------
(***************************************************************************)
(* Every step keeps the invariant.                                         *)
(***************************************************************************)
\* Steps of request r that commit nothing.
Moves(r) ==
    \/ \E how \in {"refused", "error", "unstorable", "lost"} : RollsBack(r, how)
    \/ \E c \in Calls : \E row :
          at[r] = "idle" /\ Looks(r, c, row) /\ Reaches(c) /\ Saw(r, c, row)
    \/ \E c \in Calls : \E t :
          at[r] \in {"idle", "looked"} /\ Opens(r, c, t) /\ Reaches(c) /\ Opened(r, c, t)
    \/ SaveSelects(r) \/ (\E w : Puts(r, w)) \/ Removes(r) \/ Records(r) \/ Anonymizes(r)

LEMMA LinesMoved ==
    ASSUME Whole, NEW r \in Requests, Moves(r)
    PROVE  OnlyOf(r) /\ Lineage' /\ Steady
<1>0. IInv /\ Lineage /\ Conduct(r) BY DEF Whole
<1>1. ASSUME NEW how, RollsBack(r, how) PROVE OnlyOf(r) /\ Lineage' /\ Steady
  <2>1. OnlyOf(r) /\ at'[r] = "done" /\ todo'[r] = <<>> /\ pending'[r] = <<>>
    BY <1>0, <1>1, RollsBackFacts
  <2>2. QED BY <1>0, <2>1, LocalLineage
<1>2. ASSUME NEW c, NEW row, at[r] = "idle", Looks(r, c, row) PROVE OnlyOf(r) /\ Lineage' /\ Steady
  <2>1. OnlyOf(r) /\ todo'[r] = todo[r] /\ pending'[r] = pending[r] BY <1>0, <1>2, LooksFacts
  <2>2. QED BY <1>0, <1>2, <2>1, LocalLineage
<1>3. ASSUME NEW c, NEW t, at[r] \in {"idle", "looked"}, Opens(r, c, t), Opened(r, c, t)
      PROVE  OnlyOf(r) /\ Lineage' /\ Steady
  BY <1>0, <1>3, OpensFacts, OpensLineage
<1>4. ASSUME SaveSelects(r) PROVE OnlyOf(r) /\ Lineage' /\ Steady
  <2>1. OnlyOf(r) /\ at'[r] = "fetched" /\ todo'[r] = todo[r] /\ pending'[r] = pending[r]
    BY <1>0, <1>4, SelectsFacts
  <2>2. QED BY <1>0, <2>1, LocalLineage
<1>5. ASSUME NEW w, Puts(r, w) PROVE OnlyOf(r) /\ Lineage' /\ Steady
  BY <1>0, <1>5, PutsLineage, AppliesFacts DEF Puts
<1>6. ASSUME Removes(r) PROVE OnlyOf(r) /\ Lineage' /\ Steady
  <2>1. /\ OnlyOf(r) /\ at'[r] = "open" /\ todo[r] # <<>> /\ todo'[r] = Tail(todo[r])
        /\ DOMAIN pending'[r] = DOMAIN pending[r] \cup DOMAIN Gone(r)
        /\ \A j \in DOMAIN Gone(r) : pending'[r][j] = Absent
        /\ \A j \in DOMAIN pending[r] \ DOMAIN Gone(r) : pending'[r][j] = pending[r][j]
    BY <1>0, <1>6, RemovesFacts
  <2>2. \A i \in DOMAIN pending'[r] :
           pending'[r][i] = Absent \/ (i \in DOMAIN pending[r] /\ pending'[r][i] = pending[r][i])
    BY <2>1
  <2>3. QED BY <1>0, <2>1, <2>2, LocalLineage
<1>7. ASSUME Records(r) PROVE OnlyOf(r) /\ Lineage' /\ Steady
  <2>1. /\ OnlyOf(r) /\ at'[r] = "open" /\ todo[r] # <<>> /\ todo'[r] = Tail(todo[r])
        /\ pending'[r] = pending[r]
    BY <1>0, <1>7, RecordsFacts DEF Records, At
  <2>2. QED BY <1>0, <2>1, LocalLineage
<1>8. ASSUME Anonymizes(r) PROVE OnlyOf(r) /\ Lineage' /\ Steady
  <2>1. /\ OnlyOf(r) /\ at'[r] = "open" /\ todo[r] # <<>> /\ todo'[r] = Tail(todo[r])
        /\ pending'[r] = pending[r]
    BY <1>0, <1>8, AnonymizesFacts DEF Anonymizes, At
  <2>2. QED BY <1>0, <2>1, LocalLineage
<1>9. QED BY <1>1, <1>2, <1>3, <1>4, <1>5, <1>6, <1>7, <1>8 DEF Moves

LEMMA ConstraintsMoved ==
    ASSUME Whole, NEW r \in Requests, Moves(r)
    PROVE  Constraints'
<1>0. IInv /\ Lineage /\ Conduct(r) /\ Constraints BY DEF Whole
<1>1. ASSUME NEW how, RollsBack(r, how) PROVE Constraints'
  BY <1>0, <1>1, RollsBackFacts, LocalConstraints
<1>2. ASSUME NEW c, NEW row, Looks(r, c, row) PROVE Constraints'
  BY <1>0, <1>2, LooksFacts, LocalConstraints
<1>3. ASSUME NEW c, NEW t, Opens(r, c, t) PROVE Constraints'
  BY <1>0, <1>3, OpensFacts, LocalConstraints
<1>4. ASSUME SaveSelects(r) PROVE Constraints'
  BY <1>0, <1>4, SelectsFacts, LocalConstraints
<1>5. ASSUME NEW w, Puts(r, w) PROVE Constraints'
  <2> PICK i : i = Head(todo[r]).id OBVIOUS
  <2>1. i \in Ids BY <1>0, <1>5, PutFacts
  <2>2. DOMAIN Put(r, w) \subseteq Ids BY <2>1 DEF Put
  <2>3. Applies(r, Put(r, w)) BY <1>5 DEF Puts
  <2>4. QED BY <1>0, <2>2, <2>3, AppliesConstraints
<1>6. ASSUME Removes(r) PROVE Constraints'
  <2>1. DOMAIN Gone(r) \subseteq Ids BY <1>0, <1>6, RemovesFacts
  <2>2. Applies(r, Gone(r)) BY <1>6 DEF Removes
  <2>3. QED BY <1>0, <2>1, <2>2, AppliesConstraints
<1>7. ASSUME Records(r) PROVE Constraints'
  BY <1>0, <1>7, RecordsFacts, LocalConstraints
<1>8. ASSUME Anonymizes(r) PROVE Constraints'
  BY <1>0, <1>8, AnonymizesFacts, LocalConstraints
<1>9. QED BY <1>1, <1>2, <1>3, <1>4, <1>5, <1>6, <1>7, <1>8 DEF Moves

LEMMA ConductMoved ==
    ASSUME Whole, NEW r \in Requests, Moves(r)
    PROVE  \A q \in Requests : Conduct(q)'
<1>0. IInv /\ Lineage /\ \A q \in Requests : Conduct(q) BY DEF Whole
<1>1. OnlyOf(r) /\ Lineage' /\ Steady BY LinesMoved
<1>2. ASSUME NEW q \in Requests, q # r PROVE Conduct(q)'
  <2>1. Idles(q) /\ overtaken'[q] = overtaken[q] BY <1>0, <1>1, <1>2, OthersSame DEF Idles
  <2>2. Calm(q) BY <1>1, <2>1, CalmLocal
  <2>3. at[q] = "idle" => overtaken'[q] = {} BY <1>0, <2>1 DEF Conduct
  <2>4. QED BY <1>0, <1>1, <2>1, <2>2, <2>3, ConductStays
<1>3. Conduct(r)'
  <2>1. ASSUME NEW how, RollsBack(r, how) PROVE Conduct(r)'
    BY <1>0, <2>1, RollsBackFacts, DoneConduct
  <2>2. ASSUME NEW c \in Calls, NEW row, at[r] = "idle", Looks(r, c, row), Reaches(c), Saw(r, c, row)
        PROVE  Conduct(r)'
    BY <1>0, <1>1, <2>2, LooksConduct
  <2>3. ASSUME NEW c \in Calls, NEW t, at[r] \in {"idle", "looked"}, Opens(r, c, t),
               Reaches(c), Opened(r, c, t)
        PROVE  Conduct(r)'
    BY <1>0, <1>1, <2>3, OpensConduct
  <2>4. ASSUME NEW w, Puts(r, w) PROVE Conduct(r)' BY <1>0, <1>1, <2>4, PutsConduct
  <2>5. QED
    BY <1>0, <1>1, <2>1, <2>2, <2>3, <2>4, SelectsConduct, RemovesConduct, RecordsConduct,
       AnonymizesConduct DEF Moves
<1>4. QED BY <1>2, <1>3

\* A request that commits has executed its plan.
LEMMA CommitsStage ==
    ASSUME IInv, NEW r \in Requests, Conduct(r), Commits(r)
    PROVE  /\ Running(r) /\ Len(todo[r]) = 0
           /\ \/ Told(r) \/ Quiet(r)
              \/ /\ Parts(r) /\ DOMAIN pending[r] = {<<"user", call[r].on>>}
                 /\ pending[r][<<"user", call[r].on>>] = Absent
                 /\ Forgets(r, "actor", call[r].on) /\ Forgets(r, "resource", call[r].on)
<1>1. at[r] = "open" /\ todo[r] = <<>> BY CommitsFacts
<1>2. Len(todo[r]) = 0 BY <1>1
<1>3. Running(r) BY <1>1 DEF Conduct
<1>4. ~Begins(r) BY <1>2 DEF Begins, Begun
<1>5. QED BY <1>2, <1>3, <1>4 DEF Running, Stage, Wrote, Enrols, Parts

\* A commit leaves the audit rows of others without what its transaction
\* has anonymized, and adds its own.
LEMMA CommitsLogs ==
    ASSUME IInv, NEW r \in Requests, Commits(r), NEW x \in Requests,
           NEW column \in {"actor", "resource"}, NEW n \in Names
    PROVE  /\ x = r => audit'[x] = logged[r]
           /\ (x # r /\ Mentions(audit'[x], column, n)) =>
                 Mentions(audit[x], column, n) /\ <<column, x>> \notin forgot[r]
           /\ x # r => (audit'[x] = Absent <=> audit[x] = Absent)
<1>1. x = r => audit'[x] = logged[r] BY DEF Commits
<1>2. CASE x # r
  <2> DEFINE C == {c \in {"actor", "resource"} : <<c, x>> \in forgot[r]}
  <2>1. audit'[x] = IF audit[x] = Absent THEN Absent ELSE Anonymous(audit[x], C)
    BY <1>2 DEF Commits
  <2>2. CASE audit[x] = Absent
    <3>1. audit'[x] = Absent BY <2>1, <2>2
    <3>2. QED BY <1>2, <2>2, <3>1 DEF Mentions
  <2>3. CASE audit[x] # Absent
    <3>1. audit[x] \in Logs BY <2>3 DEF IInv, TypeOK
    <3>2. audit'[x] = Anonymous(audit[x], C) BY <2>1, <2>3
    <3>3. C \in SUBSET {"actor", "resource"} /\ (column \in C <=> <<column, x>> \in forgot[r])
      OBVIOUS
    <3> HIDE DEF C
    <3>4. /\ audit'[x] \in Logs
          /\ audit'[x].by = IF "actor" \in C THEN Nobody ELSE audit[x].by
          /\ audit'[x].id = IF "resource" \in C THEN Forgotten ELSE audit[x].id
      BY <3>1, <3>2 DEF Anonymous, Logs
    <3>5. n # Nobody /\ Forgotten # <<"user", n>> BY NamesAssumption DEF Keys, Forgotten
    <3>6. Mentions(audit'[x], column, n) => Mentions(audit[x], column, n) /\ column \notin C
      BY <2>3, <3>4, <3>5 DEF Mentions
    <3>7. audit'[x] # Absent BY <3>4, LogIsThere
    <3>8. QED BY <1>2, <2>3, <3>3, <3>6, <3>7
  <2>4. QED BY <2>2, <2>3
<1>3. QED BY <1>1, <1>2

LEMMA CommitsConduct ==
    ASSUME Whole, [Next]_vars, NEW r \in Requests, Commits(r)
    PROVE  \A q \in Requests : Conduct(q)'
<1>0. IInv /\ Lineage /\ \A q \in Requests : Conduct(q) BY DEF Whole
<1>1. Steady BY <1>0, CommitsLineage
<1>2. Conduct(r)' BY <1>0, CommitsFacts, DoneConduct
<1>3. ASSUME NEW q \in Requests, q # r PROVE Conduct(q)'
  <2>1. Idles(q) BY <1>0, <1>3, CommitsFacts DEF Idles
  <2>2. overtaken'[q] = IF at[q] \in {"idle", "done"} THEN {}
                        ELSE overtaken[q] \cup DOMAIN pending[r]
                               \cup IF logged[r] = Absent THEN {} ELSE {<<"audit", r>>}
    BY <1>0, <1>3, CommitsFacts
  <2>3. ASSUME at[q] \notin {"idle", "done"} PROVE Calm(q)
    <3>1. overtaken'[q] = overtaken[q] \cup DOMAIN pending[r]
                            \cup IF logged[r] = Absent THEN {} ELSE {<<"audit", r>>}
      BY <2>2, <2>3
    <3>2. \A i \in Ids : db'[i] = db[i] \/ i \in overtaken'[q] BY <1>0, <3>1, CommitsFacts
    <3>3. \A n \in Names : db["tenant", n] # Absent => db'["tenant", n] # Absent
      BY <1>0, TenantsStayStep
    <3>4. ASSUME NEW x \in Requests
          PROVE  \/ <<"audit", x>> \in overtaken'[q]
                 \/ \A column \in {"actor", "resource"}, n \in Names :
                       Mentions(audit'[x], column, n) => Mentions(audit[x], column, n)
      <4>1. CASE x # r BY <1>0, <4>1, CommitsLogs
      <4>2. CASE x = r /\ logged[r] # Absent BY <3>1, <4>2
      <4>3. CASE x = r /\ logged[r] = Absent
        <5>1. audit'[x] = Absent BY <4>3 DEF Commits
        <5>2. QED BY <5>1 DEF Mentions
      <4>4. QED BY <4>1, <4>2, <4>3
    <3>5. QED BY <3>1, <3>2, <3>3, <3>4 DEF Calm
  <2>4. QED BY <1>0, <1>1, <2>1, <2>2, <2>3, ConductStays
<1>4. QED BY <1>2, <1>3

\* Steps that keep the invariant, whatever their request.
LEMMA MovesKeep ==
    ASSUME Whole, [Next]_vars, NEW r \in Requests, Moves(r) \/ Commits(r)
    PROVE  Whole'
<1>0. IInv /\ Lineage /\ Constraints BY DEF Whole
<1>1. IInv' BY <1>0, StepInv
<1>2. CASE Moves(r) BY <1>1, <1>2, LinesMoved, ConstraintsMoved, ConductMoved DEF Whole
<1>3. CASE Commits(r)
  BY <1>0, <1>1, <1>3, CommitsLineage, CommitsConstraints, CommitsConduct DEF Whole
<1>4. QED BY <1>2, <1>3

LEMMA StillWhole ==
    ASSUME Whole, UNCHANGED vars
    PROVE  Whole'
<1>0. IInv /\ Lineage /\ Constraints /\ \A q \in Requests : Conduct(q) BY DEF Whole
<1>1. /\ db' = db /\ audit' = audit /\ at' = at /\ call' = call /\ seen' = seen /\ todo' = todo
      /\ fetched' = fetched /\ pending' = pending /\ logged' = logged /\ forgot' = forgot
      /\ overtaken' = overtaken /\ answer' = answer
  BY DEF vars, store, local, trans
<1>2. IInv' BY <1>0, StepInv
<1>3. ASSUME NEW i, NEW w PROVE Held(i, w)' => Held(i, w)
  BY <1>1 DEF Held, ToSave
<1>4. \A i : Copies(i)' \subseteq Copies(i) BY <1>3, Copying
<1>5. Onwards BY <1>1 DEF Onwards
<1>6. Lineage' /\ Steady BY <1>0, <1>4, <1>5, NothingNew
<1>7. ASSUME NEW q \in Requests PROVE Conduct(q)'
  <2>1. Idles(q) /\ Calm(q) BY <1>1 DEF Idles, Calm, Mentions
  <2>2. at[q] = "idle" => overtaken'[q] = {} BY <1>0, <1>1 DEF Conduct
  <2>3. QED BY <1>0, <1>6, <2>1, <2>2, ConductStays
<1>8. Constraints'
  <2>1. ASSUME NEW q \in Requests PROVE Legal(View(q))'
    <3>1. View(q)' = View(q) BY <1>1, SameView
    <3>2. Legal(View(q)') BY <1>0, <3>1 DEF Constraints
    <3>3. QED BY <3>2, LegalNext
  <2>2. ASSUME NEW p \in Requests, NEW q \in Requests, p # q PROVE Apart(p, q)'
    BY <1>0, <1>1, <2>2, SameApart DEF Constraints
  <2>3. Legal(db)'
    BY <1>0, <1>1 DEF Constraints, Legal, Referenced, KeysUnique, References, ParentId
  <2>4. QED BY <2>1, <2>2, <2>3 DEF Constraints
<1>9. QED BY <1>2, <1>6, <1>7, <1>8 DEF Whole

-----------------------------------------------------------------------------
\* At the beginning.
LEMMA InitCopies ==
    ASSUME Init, NEW i, NEW w \in Copies(i)
    PROVE  w = db[i] /\ w # Absent
<1>1. Held(i, w) BY Copying
<1>2. \A q \in Requests : DOMAIN pending[q] = {} /\ Len(todo[q]) = 0 BY DEF Init
<1>3. \A q \in Requests : ~ToSave(q, i, w) BY <1>2 DEF ToSave
<1>4. QED BY <1>1, <1>2, <1>3 DEF Held

LEMMA InitWhole == Init => Whole
<1> SUFFICES ASSUME Init PROVE Whole
  OBVIOUS
<1>1. IInv BY InitInv
<1>2. ASSUME NEW i \in Ids PROVE Versions(i)
  <2>1. \A w \in Copies(i) : w = db[i] /\ w # Absent BY InitCopies
  <2>2. \A w \in Copies(i) : Fits(i, w) BY <2>1, SeededAssumption DEF Init
  <2>3. Copies(i) # {} => Settled(i)
    <3>1. CASE db[i] = Absent BY <2>1, <3>1
    <3>2. CASE db[i] # Absent
      <4>1. i = <<i[1], i[2]>> /\ i[1] \in Kinds /\ i[2] \in Seeds \cup Requests
        BY DEF Ids, Names
      <4>2. ASSUME i[2] \in Requests PROVE FALSE
        <5>1. db[<<i[1], i[2]>>] = Absent BY <4>1, <4>2, FreshAssumption DEF Init
        <5>2. QED BY <3>2, <4>1, <5>1
      <4>3. QED BY <4>1, <4>2 DEF Settled
    <3>3. QED BY <3>1, <3>2
  <2>4. QED BY <2>1, <2>2, <2>3, KinFacts DEF Versions
<1>3. Tokens
  <2> SUFFICES ASSUME NEW c \in Callers, c.role # "superuser", c.sub \in Seeds,
                      NEW w \in Copies(<<"user", c.sub>>)
               PROVE  w.parent = c.tenant /\ w.cols.role = c.role
    BY DEF Tokens
  <2>1. w = db["user", c.sub] /\ w # Absent BY InitCopies
  <2>2. QED BY <2>1, CallersAssumption DEF Init
<1>4. Constraints
  <2>1. Legal(db) BY LegalAssumption DEF Init
  <2>2. ASSUME NEW q \in Requests PROVE Legal(View(q))
    <3>1. \A i \in Ids : View(q)[i] = db[i] BY DEF View, Init
    <3>2. View(q) = db
      <4>1. db \in [Ids -> Row \cup {Absent}] BY <1>1 DEF IInv, TypeOK
      <4>2. QED BY <3>1, <4>1 DEF View, Init
    <3>3. QED BY <2>1, <3>2
  <2>3. ASSUME NEW p \in Requests, NEW q \in Requests PROVE Apart(p, q)
    BY DEF Apart, Init
  <2>4. QED BY <2>1, <2>2, <2>3 DEF Constraints
<1>5. ASSUME NEW q \in Requests PROVE Conduct(q)
  BY DEF Conduct, Init
<1>6. QED BY <1>1, <1>2, <1>3, <1>4, <1>5 DEF Whole, Lineage

-----------------------------------------------------------------------------
(***************************************************************************)
(* What the use cases decide.                                              *)
(***************************************************************************)
LEMMA DecidesOnce ==
    ASSUME NEW r \in Requests, NEW c \in Calls, NEW ok, NEW t, at[r] = "idle", Reaches(c),
           ReadsOnce(r, c, ok, t), ok => Opened(r, c, t)
    PROVE  Moves(r)
<1>1. CASE ok
  <2>1. Opens(r, c, t) BY <1>1 DEF ReadsOnce, Decides, Opens
  <2>2. QED BY <1>1, <2>1 DEF Moves
<1>2. CASE ~ok
  <2>1. RollsBack(r, "refused") BY <1>2 DEF ReadsOnce, Decides
  <2>2. QED BY <2>1 DEF Moves
<1>3. QED BY <1>1, <1>2

LEMMA DecidesFirst ==
    ASSUME NEW r \in Requests, NEW c \in Calls, NEW ok, NEW row, at[r] = "idle", Reaches(c),
           ReadsFirst(r, c, ok, row), ok => Saw(r, c, row)
    PROVE  Moves(r)
<1>1. CASE ok
  <2>1. Looks(r, c, row) BY <1>1 DEF ReadsFirst, Looks
  <2>2. QED BY <1>1, <2>1 DEF Moves
<1>2. CASE ~ok
  <2>1. RollsBack(r, "refused") BY <1>2 DEF ReadsFirst
  <2>2. QED BY <2>1 DEF Moves
<1>3. QED BY <1>1, <1>2

LEMMA DecidesAgain ==
    ASSUME IInv, NEW r \in Requests, NEW op, NEW ok, NEW t, Conduct(r),
           ReadsAgain(r, op, ok, t), ok => Opened(r, call[r], t)
    PROVE  Moves(r)
<1>1. at[r] = "looked" /\ call[r] \in Calls /\ Reaches(call[r])
  BY DEF ReadsAgain, IInv, Course, Conduct
<1>2. CASE ok
  <2>1. Opens(r, call[r], t) BY <1>2, Same DEF ReadsAgain, Decides, Opens
  <2>2. QED BY <1>1, <1>2, <2>1 DEF Moves
<1>3. CASE ~ok
  <2>1. RollsBack(r, "refused") BY <1>3 DEF ReadsAgain, Decides
  <2>2. QED BY <2>1 DEF Moves
<1>4. QED BY <1>2, <1>3

\* The fields of the statements.
LEMMA Fields ==
    /\ \A k, n, w : /\ Save(k, n, w).do = "save" /\ Save(k, n, w).id = <<k, n>>
                    /\ Save(k, n, w).row = w
    /\ \A k, n : Delete(k, n).do = "delete" /\ Delete(k, n).id = <<k, n>>
    /\ \A t, k, n, by : /\ Audit(t, k, n, by).do = "audit" /\ Audit(t, k, n, by).id = <<k, n>>
                        /\ Audit(t, k, n, by).tenant = t
    /\ \A column, n : Anonymizing(Anonymize(column, n), column, <<"user", n>>)
BY DEF Save, Delete, Audit, Anonymize, Anonymizing

\* The plans, statement by statement.
StepOpened(r, c, s) ==
    /\ s.do = "save" => Proposes(r, c, s.id, s.row)
    /\ s.do = "delete" => s.id \in Ids /\ SoundDelete(r, c, s.id)
    /\ s.do = "audit" => SoundAudit(r, c, s.tenant)

LEMMA OpenedSaveLog ==
    ASSUME NEW r, NEW c, NEW k, NEW n, NEW w, NEW t, NEW by, c.op \notin Unlogged \cup {"DeleteUser"},
           c.op = "CreateTenant" => k = "tenant" /\ n = r,
           Proposes(r, c, <<k, n>>, w), SoundAudit(r, c, t)
    PROVE  Opened(r, c, <<Save(k, n, w), Audit(t, k, n, by)>>)
<1> PICK a, b : a = Save(k, n, w) /\ b = Audit(t, k, n, by) OBVIOUS
<1>1. /\ a.do = "save" /\ a.id = <<k, n>> /\ a.row = w
      /\ b.do = "audit" /\ b.id = <<k, n>> /\ b.tenant = t
  BY Fields
<1>2. Begun(r, c, <<a, b>>) BY <1>1 DEF Begun
<1>3. StepOpened(r, c, a) /\ StepOpened(r, c, b) BY <1>1 DEF StepOpened
<1>4. \A m \in 1 .. Len(<<a, b>>) : StepOpened(r, c, <<a, b>>[m])
  <2>1. \A m \in 1 .. 2 : m = 1 \/ m = 2 OBVIOUS
  <2>2. QED BY <1>3, <2>1
<1>5. Opened(r, c, <<a, b>>) BY <1>2, <1>4 DEF Opened, StepOpened
<1>6. QED BY <1>5

LEMMA OpenedDeleteLog ==
    ASSUME NEW r, NEW c, NEW k, NEW n, NEW t, NEW by,
           c.op \notin Unlogged \cup {"DeleteUser", "CreateTenant"}, k # "user",
           <<k, n>> \in Ids, SoundDelete(r, c, <<k, n>>), SoundAudit(r, c, t)
    PROVE  Opened(r, c, <<Delete(k, n), Audit(t, k, n, by)>>)
<1> PICK a, b : a = Delete(k, n) /\ b = Audit(t, k, n, by) OBVIOUS
<1>1. /\ a.do = "delete" /\ a.id = <<k, n>>
      /\ b.do = "audit" /\ b.id = <<k, n>> /\ b.tenant = t
  BY Fields
<1>2. Begun(r, c, <<a, b>>) BY <1>1 DEF Begun
<1>3. StepOpened(r, c, a) /\ StepOpened(r, c, b) BY <1>1 DEF StepOpened
<1>4. \A m \in 1 .. Len(<<a, b>>) : StepOpened(r, c, <<a, b>>[m])
  <2>1. \A m \in 1 .. 2 : m = 1 \/ m = 2 OBVIOUS
  <2>2. QED BY <1>3, <2>1
<1>5. Opened(r, c, <<a, b>>) BY <1>2, <1>4 DEF Opened, StepOpened
<1>6. QED BY <1>5

LEMMA OpenedEnrolment ==
    ASSUME NEW r, NEW c, NEW v, NEW w, c.op = "Register",
           Proposes(r, c, <<"tenant", r>>, v), Proposes(r, c, <<"user", r>>, w)
    PROVE  Opened(r, c, <<Save("tenant", r, v), Save("user", r, w)>>)
<1> PICK a, b : a = Save("tenant", r, v) /\ b = Save("user", r, w) OBVIOUS
<1>1. /\ a.do = "save" /\ a.id = <<"tenant", r>> /\ a.row = v
      /\ b.do = "save" /\ b.id = <<"user", r>> /\ b.row = w
  BY Fields
<1>2. Begun(r, c, <<a, b>>) BY <1>1 DEF Begun
<1>3. StepOpened(r, c, a) /\ StepOpened(r, c, b) BY <1>1 DEF StepOpened
<1>4. \A m \in 1 .. Len(<<a, b>>) : StepOpened(r, c, <<a, b>>[m])
  <2>1. \A m \in 1 .. 2 : m = 1 \/ m = 2 OBVIOUS
  <2>2. QED BY <1>3, <2>1
<1>5. Opened(r, c, <<a, b>>) BY <1>2, <1>4 DEF Opened, StepOpened
<1>6. QED BY <1>5

LEMMA OpenedPassword ==
    ASSUME NEW r, NEW c, NEW n, NEW w, c.op = "ChangePassword", Proposes(r, c, <<"user", n>>, w)
    PROVE  Opened(r, c, <<Save("user", n, w)>>)
<1> PICK a : a = Save("user", n, w) OBVIOUS
<1>1. a.do = "save" /\ a.id = <<"user", n>> /\ a.row = w BY Fields
<1>2. Begun(r, c, <<a>>) BY <1>1 DEF Begun
<1>3. StepOpened(r, c, a) BY <1>1 DEF StepOpened
<1>4. \A m \in 1 .. Len(<<a>>) : StepOpened(r, c, <<a>>[m]) BY <1>3
<1>5. Opened(r, c, <<a>>) BY <1>2, <1>4 DEF Opened, StepOpened
<1>6. QED BY <1>5

LEMMA OpenedRemoval ==
    ASSUME NEW r, NEW c, NEW t, NEW by, c.op = "DeleteUser",
           <<"user", c.on>> \in Ids, SoundDelete(r, c, <<"user", c.on>>), SoundAudit(r, c, t)
    PROVE  Opened(r, c, <<Audit(t, "user", c.on, by), Anonymize("actor", c.on),
                          Anonymize("resource", c.on), Delete("user", c.on)>>)
<1> PICK u : u = <<"user", c.on>> OBVIOUS
<1> PICK a, b1, b2, d : /\ a = Audit(t, "user", c.on, by) /\ b1 = Anonymize("actor", c.on)
                        /\ b2 = Anonymize("resource", c.on) /\ d = Delete("user", c.on)
  OBVIOUS
<1>1. /\ a.do = "audit" /\ a.id = u /\ a.tenant = t
      /\ Anonymizing(b1, "actor", u) /\ Anonymizing(b2, "resource", u)
      /\ d.do = "delete" /\ d.id = u
  BY Fields
<1>2. Begun(r, c, <<a, b1, b2, d>>) BY <1>1 DEF Begun, Removal
<1>3. StepOpened(r, c, a) /\ StepOpened(r, c, b1) /\ StepOpened(r, c, b2) /\ StepOpened(r, c, d)
  BY <1>1 DEF StepOpened, Anonymizing
<1>4. \A m \in 1 .. Len(<<a, b1, b2, d>>) : StepOpened(r, c, <<a, b1, b2, d>>[m])
  <2>1. \A m \in 1 .. 4 : m = 1 \/ m = 2 \/ m = 3 \/ m = 4 OBVIOUS
  <2>2. QED BY <1>3, <2>1
<1>5. Opened(r, c, <<a, b1, b2, d>>) BY <1>2, <1>4 DEF Opened, StepOpened
<1>6. QED BY <1>5

-----------------------------------------------------------------------------
\* A committed row.
LEMMA Committed ==
    ASSUME Whole, NEW k \in Kinds, NEW n \in Names, db[k, n] # Absent
    PROVE  /\ <<k, n>> \in Ids /\ db[k, n] \in RowsOf(k) /\ db[k, n] \in Copies(<<k, n>>)
           /\ Fits(<<k, n>>, db[k, n])
           /\ ParentIs(<<k, n>>, db[k, n].parent)
           /\ \A w \in Copies(<<k, n>>) : Kin(<<k, n>>, db[k, n], w)
           /\ db[k, n].parent \in Names \cup {Nobody}
           /\ k \in {"domain", "route", "policy", "domain_policy"} => db[k, n].parent \in Names
           /\ (k # "tenant" /\ db[k, n].parent \in Names)
                 => db[<<ParentKind[k], db[k, n].parent>>] # Absent
<1> PICK i, row : i = <<k, n>> /\ row = db[i] OBVIOUS
<1>1. i \in Ids /\ i[1] = k BY DEF Ids
<1>2. row \in RowsOf(k) BY <1>1 DEF Whole, IInv, Tables
<1>3. row \in Copies(i) BY Copying DEF Held
<1>4. Fits(i, row) /\ \A w \in Copies(i) : Kin(i, row, w)
  BY <1>1, <1>3 DEF Whole, Lineage, Versions
<1>5. ParentIs(i, row.parent) BY <1>4 DEF ParentIs, Kin
<1>6. row.parent \in Names \cup {Nobody} BY <1>2 DEF RowsOf
<1>7. k \in {"domain", "route", "policy", "domain_policy"} => row.parent \in Names
  BY <1>1, <1>4, <1>6 DEF Fits
<1>8. ASSUME k # "tenant", row.parent \in Names PROVE db[<<ParentKind[k], row.parent>>] # Absent
  <2>1. row.parent # Nobody BY <1>8, NamesAssumption DEF Keys
  <2>2. References(i, row) /\ ParentId(i, row) = <<ParentKind[k], row.parent>>
    BY <1>1, <1>8, <2>1 DEF References, ParentId
  <2>3. QED BY <1>1, <2>2 DEF Whole, Constraints, Legal, Referenced
<1>9. QED BY <1>1, <1>2, <1>3, <1>4, <1>5, <1>6, <1>7, <1>8

\* The committed tables have one row of a unique value.
LEMMA Alone ==
    ASSUME Whole, NEW k \in Kinds, NEW n \in Names, db[k, n] # Absent
    PROVE  Holders(db, k, db[k, n].key) \subseteq {n}
BY DEF Whole, Constraints, Legal, KeysUnique, Holders

\* Nothing is named after a request that has not decided yet.
LEMMA Unnamed ==
    ASSUME Whole, NEW r \in Requests, at[r] \in {"idle", "looked"}, NEW k \in Kinds
    PROVE  <<k, r>> \in Ids /\ db[k, r] = Absent
<1>1. <<k, r>> \in Ids BY DEF Ids, Names
<1>2. ~Settled(<<k, r>>) BY FreshAssumption DEF Settled
<1>3. Copies(<<k, r>>) = {} BY <1>1, <1>2 DEF Whole, Lineage, Versions
<1>4. QED BY <1>1, <1>3, Copying DEF Held

LEMMA Somebody == Nobody \notin Names /\ \A n \in Names : n # Nobody
BY NamesAssumption DEF Keys

\* A tenant that is there may be named in an audit row.
LEMMA AuditsThere ==
    ASSUME NEW r, NEW c, NEW t \in Names, db["tenant", t] # Absent
    PROVE  SoundAudit(r, c, t)
BY DEF SoundAudit

LEMMA CallersAre ==
    ASSUME NEW c \in Calls
    PROVE  /\ c.by \in Callers /\ c.by.role \in {"superuser", "admin", "member"}
           /\ c.by.tenant \in Names \cup {Nobody}
           /\ c.by.role # "superuser" => c.by.tenant \in Names
<1>1. c.by \in Callers BY DEF Calls, Calling
<1>2. c.by \in Claims BY <1>1, CallersAssumption
<1>3. QED BY <1>1, <1>2, CallersAssumption DEF Claims

\* The endpoint of each operation.
LEMMA Roles ==
    ASSUME NEW c, Reaches(c)
    PROVE  /\ c.op \in {"CreateTenant", "DeleteTenant"} => c.by.role = "superuser"
           /\ c.op \in {"UpdateTenant", "CreateMember", "UpdatePermissions"} => IsAdminLike(c.by)
           /\ c.op \in {"CreateDomain", "DeleteDomain", "UpsertDomainPolicy", "DeleteDomainPolicy"}
                 => RequirePermission(c.by, "domains")
           /\ c.op \in {"CreateRoute", "UpdateRoute", "DeleteRoute", "UpsertPolicy", "DeletePolicy"}
                 => RequirePermission(c.by, "routes")
           /\ c.op = "DeleteUser" => IsAdminLike(c.by) \/ c.on = c.by.sub
           /\ c.op = "ChangePassword" => c.on = c.by.sub
BY DEF Reaches, TenantEndpoint, RouteEndpoint, PolicyEndpoint, SubUserEndpoint, AuthEndpoint

\* What opens a kind of rows.
LEMMA Licences ==
    ASSUME NEW by, NEW i
    PROVE  /\ IsAdminLike(by) => Licensed(by, i)
           /\ (i[1] \in {"route", "policy"} /\ RequirePermission(by, "routes")) => Licensed(by, i)
           /\ (i[1] \in {"domain", "domain_policy"} /\ RequirePermission(by, "domains"))
                 => Licensed(by, i)
BY DEF IsAdminLike, RequirePermission, Licensed

LEMMA ParentKinds ==
    ASSUME NEW k
    PROVE  /\ k \in {"domain", "route", "user"} => ParentKind[k] = "tenant"
           /\ k = "policy" => ParentKind[k] = "route"
           /\ k = "domain_policy" => ParentKind[k] = "domain"
<1>1. k = "domain" => ParentKind[k] = "tenant" BY DEF ParentKind
<1>2. k = "route" => ParentKind[k] = "tenant" BY DEF ParentKind
<1>3. k = "user" => ParentKind[k] = "tenant" BY DEF ParentKind
<1>4. k = "policy" => ParentKind[k] = "route" BY DEF ParentKind
<1>5. k = "domain_policy" => ParentKind[k] = "domain" BY DEF ParentKind
<1>6. QED BY <1>1, <1>2, <1>3, <1>4, <1>5

\* An entity changed in memory, and what save() would write.
LEMMA Renamed ==
    ASSUME NEW k \in {"tenant", "route"}, NEW row \in RowsOf(k), NEW r \in Requests
    PROVE  LET w == [row EXCEPT !.cols = ByName(r)]
           IN  w \in RowsOf(k) /\ w.parent = row.parent /\ w.key = row.key
<1>1. r \in Names BY DEF Names
<1>2. QED BY <1>1 DEF RowsOf, ColumnsOf, Content, ByName

LEMMA PasswordChanged ==
    ASSUME NEW row \in RowsOf("user"), NEW r \in Requests
    PROVE  LET w == [row EXCEPT !.cols.password = r]
           IN  /\ w \in RowsOf("user") /\ w.parent = row.parent /\ w.key = row.key
               /\ w.cols.role = row.cols.role
               /\ \A y \in DOMAIN row.cols \ {"password"} : w.cols[y] = row.cols[y]
<1>1. r \in Names BY DEF Names
<1>2. QED BY <1>1 DEF RowsOf, ColumnsOf, UserColumns

LEMMA PermissionsChanged ==
    ASSUME NEW row \in RowsOf("user"), NEW r \in Requests
    PROVE  LET w == [row EXCEPT !.cols.permissions = r]
           IN  /\ w \in RowsOf("user") /\ w.parent = row.parent /\ w.key = row.key
               /\ w.cols.role = row.cols.role
               /\ \A y \in DOMAIN row.cols \ {"permissions"} : w.cols[y] = row.cols[y]
<1>1. r \in Names BY DEF Names
<1>2. QED BY <1>1 DEF RowsOf, ColumnsOf, UserColumns

LEMMA MovesCreateTenant ==
    ASSUME Whole, NEW r \in Requests, NEW c \in Calls, CreateTenant(r, c)
    PROVE  Moves(r)
<1>1. at[r] = "idle" /\ c.op = "CreateTenant" /\ Reaches(c) BY DEF CreateTenant, Issued
<1>2. PICK w : w = NewRow(Nobody, c.key, ByName(r)) OBVIOUS
<1>3. w \in RowsOf("tenant") /\ w.parent = Nobody /\ w.key = c.key
  <2>1. c.key \in Keys BY <1>1, CallFacts DEF Keyed
  <2>2. r \in Names /\ Nobody \in Names \cup {Nobody} BY DEF Names
  <2>3. w \in RowsOf("tenant") BY <1>2, <2>1, <2>2, RowsMade
  <2>4. QED BY <1>2, <2>3 DEF NewRow
<1>4. <<"tenant", r>> \in Ids BY DEF Ids, Kinds, Names
<1>5. c.by.role = "superuser" BY <1>1, Roles
<1>6. ASSUME ~Taken("tenant", c.key)
      PROVE  Opened(r, c, <<Save("tenant", r, w), Audit(r, "tenant", r, c.by)>>)
  <2>1. Writable(r, c, <<"tenant", r>>, w) BY <1>3, <1>6 DEF Writable, Taken, References
  <2>2. Proposes(r, c, <<"tenant", r>>, w)
    BY <1>1, <1>3, <1>4, <1>5, <2>1 DEF Proposes, Fits, Licensed, Rightful, Faithful
  <2>3. SoundAudit(r, c, r) BY <1>1, OwnRow DEF SoundAudit, Names
  <2>4. QED BY <1>1, <2>2, <2>3, OpenedSaveLog DEF Unlogged
<1>7. QED BY <1>1, <1>2, <1>6, DecidesOnce DEF CreateTenant

LEMMA MovesUpdateTenant ==
    ASSUME Whole, NEW r \in Requests, NEW c \in Calls, UpdateTenant(r, c)
    PROVE  Moves(r)
<1> PICK row : row = db["tenant", c.on] OBVIOUS
<1> PICK w : w = [row EXCEPT !.cols = ByName(r)] OBVIOUS
<1> DEFINE ok == row # Absent /\ TenantAccess(c.by, c.on)
           t == <<Save("tenant", c.on, w), Audit(c.on, "tenant", c.on, c.by)>>
<1>1. /\ at[r] = "idle" /\ c.op = "UpdateTenant" /\ Reaches(c)
      /\ IF ok /\ row.key = c.key THEN ReadsOnce(r, c, TRUE, t) ELSE ReadsFirst(r, c, ok, row)
  BY DEF UpdateTenant, Issued
<1>2. c.on \in Seeds /\ c.on \in Names BY <1>1, CallsName DEF Names
<1>3. ok => Saw(r, c, row) BY <1>1 DEF Saw
<1>4. ASSUME ok PROVE Opened(r, c, t)
  <2>0. "tenant" \in Kinds BY DEF Kinds
  <2>1. /\ <<"tenant", c.on>> \in Ids /\ row \in RowsOf("tenant")
        /\ row \in Copies(<<"tenant", c.on>>) /\ Fits(<<"tenant", c.on>>, row)
    BY <1>2, <1>4, <2>0, Committed
  <2>2. w \in RowsOf("tenant") /\ w.parent = row.parent /\ w.key = row.key BY <2>1, Renamed
  <2>3. Kin(<<"tenant", c.on>>, row, w) /\ Fits(<<"tenant", c.on>>, w) BY <2>1, <2>2 DEF Kin, Fits
  <2>4. Licensed(c.by, <<"tenant", c.on>>) BY <1>1, Roles, Licences
  <2>5. Rightful(c, <<"tenant", c.on>>, w) BY <1>1, <1>4 DEF Rightful, TenantAccess
  <2>6. Writable(r, c, <<"tenant", c.on>>, w)
    <3>1. Holders(db, "tenant", row.key) \subseteq {c.on} BY <1>2, <1>4, <2>0, Alone
    <3>2. QED BY <2>2, <3>1 DEF Writable, References
  <2>7. Proposes(r, c, <<"tenant", c.on>>, w)
    BY <1>1, <2>1, <2>2, <2>3, <2>4, <2>5, <2>6 DEF Proposes, Faithful
  <2>8. SoundAudit(r, c, c.on) BY <1>2, <1>4, AuditsThere
  <2>9. QED BY <1>1, <2>7, <2>8, OpenedSaveLog DEF Unlogged
<1> HIDE DEF ok, t
<1>5. QED BY <1>1, <1>3, <1>4, DecidesOnce, DecidesFirst

LEMMA MovesDeleteTenant ==
    ASSUME Whole, NEW r \in Requests, NEW c \in Calls, DeleteTenant(r, c)
    PROVE  Moves(r)
<1>1. /\ at[r] = "idle" /\ c.op = "DeleteTenant" /\ Reaches(c)
      /\ ReadsFirst(r, c, db["tenant", c.on] # Absent, db["tenant", c.on])
  BY DEF DeleteTenant, Issued
<1>2. Saw(r, c, db["tenant", c.on]) BY <1>1 DEF Saw
<1>3. QED BY <1>1, <1>2, DecidesFirst

LEMMA MovesCreateDomain ==
    ASSUME Whole, NEW r \in Requests, NEW c \in Calls, CreateDomain(r, c) \/ CreateMember(r, c)
    PROVE  Moves(r)
<1> DEFINE ok == TenantAccess(c.by, c.on) /\ db["tenant", c.on] # Absent
<1>1. /\ at[r] = "idle" /\ c.op \in {"CreateDomain", "CreateMember"} /\ Reaches(c)
      /\ ReadsFirst(r, c, ok, Absent)
  BY DEF CreateDomain, CreateMember, Issued
<1>2. ok => Saw(r, c, Absent) BY <1>1 DEF Saw
<1> HIDE DEF ok
<1>3. QED BY <1>1, <1>2, DecidesFirst

LEMMA MovesRegister ==
    ASSUME Whole, NEW r \in Requests, NEW c \in Calls, Register(r, c)
    PROVE  Moves(r)
<1>1. /\ at[r] = "idle" /\ c.op = "Register" /\ Reaches(c)
      /\ ReadsFirst(r, c, ~Taken("user", c.key), Absent)
  BY DEF Register, Issued
<1>2. ~Taken("user", c.key) => Saw(r, c, Absent) BY <1>1 DEF Saw
<1>3. QED BY <1>1, <1>2, DecidesFirst

\* Deleting a domain or a route.
LEMMA MovesDeleteNamed ==
    ASSUME Whole, NEW r \in Requests, NEW c \in Calls, DeleteDomain(r, c) \/ DeleteRoute(r, c)
    PROVE  Moves(r)
<1> PICK k \in {"domain", "route"} :
        /\ c.op = IF k = "domain" THEN "DeleteDomain" ELSE "DeleteRoute"
        /\ at[r] = "idle" /\ Reaches(c)
        /\ ReadsOnce(r, c, db[k, c.on] # Absent /\ TenantAccess(c.by, db[k, c.on].parent),
                     <<Delete(k, c.on), Audit(db[k, c.on].parent, k, c.on, c.by)>>)
  BY DEF DeleteDomain, DeleteRoute, Issued
<1> PICK row : row = db[k, c.on] OBVIOUS
<1> DEFINE ok == row # Absent /\ TenantAccess(c.by, row.parent)
           t == <<Delete(k, c.on), Audit(row.parent, k, c.on, c.by)>>
<1>1. ReadsOnce(r, c, ok, t) /\ k \in Kinds BY DEF Kinds
<1>2. c.on \in Seeds /\ c.on \in Names BY CallsName DEF Names
<1>3. ASSUME ok PROVE Opened(r, c, t)
  <2> PICK i : i = <<k, c.on>> OBVIOUS
  <2>1. /\ i \in Ids /\ ParentIs(i, row.parent) /\ row.parent \in Names
        /\ db[<<ParentKind[k], row.parent>>] # Absent
    BY <1>1, <1>2, <1>3, Committed
  <2>2. db["tenant", row.parent] # Absent BY <2>1, ParentKinds
  <2>3. Licensed(c.by, i)
    <3>1. k = "domain" => RequirePermission(c.by, "domains") BY Roles
    <3>2. k # "domain" => RequirePermission(c.by, "routes") BY Roles
    <3>3. i[1] = k OBVIOUS
    <3>4. CASE k = "domain" BY <3>1, <3>3, <3>4, Licences
    <3>5. CASE k # "domain" BY <3>2, <3>3, <3>5, Licences
    <3>6. QED BY <3>4, <3>5
  <2>4. c.by.role # "superuser" => ParentIs(<<Base(i), i[2]>>, c.by.tenant)
    BY <1>3, <2>1 DEF TenantAccess, Base
  <2>5. SoundDelete(r, c, i) BY <1>2, <1>3, <2>3, <2>4 DEF SoundDelete
  <2>6. SoundAudit(r, c, row.parent) BY <2>1, <2>2, AuditsThere
  <2>7. QED BY <2>1, <2>5, <2>6, OpenedDeleteLog DEF Unlogged
<1> HIDE DEF ok, t
<1>4. QED BY <1>1, <1>3, DecidesOnce

LEMMA MovesDeletePolicies ==
    ASSUME Whole, NEW r \in Requests, NEW c \in Calls, DeletePolicy(r, c) \/ DeleteDomainPolicy(r, c)
    PROVE  Moves(r)
<1> PICK k \in {"policy", "domain_policy"} :
        LET b == ParentKind[k] IN
        /\ c.op = IF k = "policy" THEN "DeletePolicy" ELSE "DeleteDomainPolicy"
        /\ at[r] = "idle" /\ Reaches(c)
        /\ ReadsOnce(r, c, db[b, c.on] # Absent /\ TenantAccess(c.by, db[b, c.on].parent),
                     <<Delete(k, c.on), Audit(db[b, c.on].parent, k, c.on, c.by)>>)
  BY DEF DeletePolicy, DeleteDomainPolicy, Issued, ParentKind
<1> PICK b, row : b = ParentKind[k] /\ row = db[b, c.on] OBVIOUS
<1> DEFINE ok == row # Absent /\ TenantAccess(c.by, row.parent)
           t == <<Delete(k, c.on), Audit(row.parent, k, c.on, c.by)>>
<1>0. b = (IF k = "policy" THEN "route" ELSE "domain") BY ParentKinds
<1>1. ReadsOnce(r, c, ok, t) /\ b \in Kinds /\ k \in Kinds BY <1>0 DEF Kinds
<1>2. c.on \in Seeds /\ c.on \in Names BY CallsName DEF Names
<1>3. ASSUME ok PROVE Opened(r, c, t)
  <2> PICK i : i = <<k, c.on>> OBVIOUS
  <2>1. /\ ParentIs(<<b, c.on>>, row.parent) /\ row.parent \in Names
        /\ db[<<ParentKind[b], row.parent>>] # Absent
    BY <1>0, <1>1, <1>2, <1>3, Committed
  <2>2. db["tenant", row.parent] # Absent BY <1>0, <2>1, ParentKinds
  <2>3. Licensed(c.by, i)
    <3>1. k = "policy" => RequirePermission(c.by, "routes") BY Roles
    <3>2. k # "policy" => RequirePermission(c.by, "domains") BY Roles
    <3>3. i[1] = k OBVIOUS
    <3>4. CASE k = "policy" BY <3>1, <3>3, <3>4, Licences
    <3>5. CASE k # "policy" BY <3>2, <3>3, <3>5, Licences
    <3>6. QED BY <3>4, <3>5
  <2>4. c.by.role # "superuser" => ParentIs(<<Base(i), i[2]>>, c.by.tenant)
    BY <1>3, <2>1 DEF TenantAccess, Base
  <2>5. SoundDelete(r, c, i) BY <1>2, <1>3, <2>3, <2>4 DEF SoundDelete
  <2>6. SoundAudit(r, c, row.parent) BY <2>1, <2>2, AuditsThere
  <2>7. i \in Ids BY <1>1, <1>2 DEF Ids
  <2>8. QED BY <2>5, <2>6, <2>7, OpenedDeleteLog DEF Unlogged
<1> HIDE DEF ok, t
<1>4. QED BY <1>1, <1>3, DecidesOnce

\* A route's unique value is its own.
LEMMA RoutesApart ==
    ASSUME Whole, NEW n
    PROVE  Holders(db, "route", n) \subseteq {n}
<1> SUFFICES ASSUME NEW m \in Names, db["route", m] # Absent, db["route", m].key = n PROVE m = n
  BY DEF Holders
<1>1. "route" \in Kinds BY DEF Kinds
<1>2. Fits(<<"route", m>>, db["route", m]) BY <1>1, Committed
<1>3. QED BY <1>2 DEF Fits

LEMMA MovesCreateRoute ==
    ASSUME Whole, NEW r \in Requests, NEW c \in Calls, CreateRoute(r, c)
    PROVE  Moves(r)
<1> PICK t : t = WriteScope(c.by, c.on) OBVIOUS
<1> PICK w : w = NewRow(t, r, ByName(r)) OBVIOUS
<1> PICK i : i = <<"route", r>> OBVIOUS
<1>1. /\ at[r] = "idle" /\ c.op = "CreateRoute" /\ Reaches(c)
      /\ ReadsOnce(r, c, db["tenant", t] # Absent,
                   <<Save("route", r, w), Audit(t, "route", r, c.by)>>)
  BY DEF CreateRoute, Issued
<1>2. c.on \in Names BY <1>1, CallsName DEF Names
<1>3. t \in Names /\ (c.by.role # "superuser" => t = c.by.tenant)
  BY <1>2, CallersAre DEF WriteScope
<1>4. i \in Ids /\ r \in Keys /\ r \in Names BY OwnRow DEF Ids, Kinds
<1>5. w \in RowsOf("route") BY <1>3, <1>4, RowsMade
<1>6. w.parent = t /\ w.key = r BY DEF NewRow
<1>7. ASSUME db["tenant", t] # Absent
      PROVE  Opened(r, c, <<Save("route", r, w), Audit(t, "route", r, c.by)>>)
  <2>1. Fits(i, w) BY <1>3, <1>6, Somebody DEF Fits
  <2>2. Licensed(c.by, i)
    <3>1. RequirePermission(c.by, "routes") BY <1>1, Roles
    <3>2. QED BY <3>1, Licences
  <2>3. Rightful(c, i, w) BY <1>1, <1>3, <1>6 DEF Rightful
  <2>4. Writable(r, c, i, w)
    <3>1. Holders(db, i[1], w.key) \subseteq {i[2]} BY <1>6, RoutesApart
    <3>2. ParentId(i, w) = <<"tenant", t>> BY <1>6, ParentKinds DEF ParentId
    <3>3. QED BY <1>7, <3>1, <3>2 DEF Writable
  <2>5. Proposes(r, c, i, w)
    BY <1>1, <1>4, <1>5, <2>1, <2>2, <2>3, <2>4 DEF Proposes, Faithful
  <2>6. SoundAudit(r, c, t) BY <1>3, <1>7, AuditsThere
  <2>7. QED BY <1>1, <2>5, <2>6, OpenedSaveLog DEF Unlogged
<1>8. QED BY <1>1, <1>7, DecidesOnce

LEMMA MovesUpdateRoute ==
    ASSUME Whole, NEW r \in Requests, NEW c \in Calls, UpdateRoute(r, c)
    PROVE  Moves(r)
<1> PICK row : row = db["route", c.on] OBVIOUS
<1> PICK w : w = [row EXCEPT !.cols = ByName(r)] OBVIOUS
<1> PICK i : i = <<"route", c.on>> OBVIOUS
<1> DEFINE ok == row # Absent /\ TenantAccess(c.by, row.parent)
           t == <<Save("route", c.on, w), Audit(row.parent, "route", c.on, c.by)>>
<1>1. at[r] = "idle" /\ c.op = "UpdateRoute" /\ Reaches(c) /\ ReadsOnce(r, c, ok, t)
  BY DEF UpdateRoute, Issued
<1>2. c.on \in Names BY <1>1, CallsName DEF Names
<1>3. ASSUME ok PROVE Opened(r, c, t)
  <2>0. "route" \in Kinds BY DEF Kinds
  <2>1. /\ i \in Ids /\ row \in RowsOf("route") /\ row \in Copies(i) /\ Fits(i, row)
        /\ row.parent \in Names /\ db[<<ParentKind["route"], row.parent>>] # Absent
    BY <1>2, <1>3, <2>0, Committed
  <2>2. w \in RowsOf("route") /\ w.parent = row.parent /\ w.key = row.key BY <2>1, Renamed
  <2>3. Kin(i, row, w) /\ Fits(i, w) BY <2>1, <2>2 DEF Kin, Fits
  <2>4. Licensed(c.by, i)
    <3>1. RequirePermission(c.by, "routes") BY <1>1, Roles
    <3>2. QED BY <3>1, Licences
  <2>5. Rightful(c, i, w) BY <1>1, <1>3, <2>2 DEF Rightful, TenantAccess
  <2>6. db["tenant", row.parent] # Absent BY <2>1, ParentKinds
  <2>7. Writable(r, c, i, w)
    <3>1. w.key = c.on BY <2>1, <2>2 DEF Fits
    <3>2. Holders(db, i[1], w.key) \subseteq {i[2]} BY <3>1, RoutesApart
    <3>3. ParentId(i, w) = <<"tenant", row.parent>> BY <2>2, ParentKinds DEF ParentId
    <3>4. QED BY <2>6, <3>2, <3>3 DEF Writable
  <2>8. Proposes(r, c, i, w)
    BY <1>1, <2>1, <2>2, <2>3, <2>4, <2>5, <2>7 DEF Proposes, Faithful
  <2>9. SoundAudit(r, c, row.parent) BY <2>1, <2>6, AuditsThere
  <2>10. QED BY <1>1, <2>8, <2>9, OpenedSaveLog DEF Unlogged
<1> HIDE DEF ok, t
<1>4. QED BY <1>1, <1>3, DecidesOnce

\* Looking for the target of a policy.
LEMMA MovesUpsert ==
    ASSUME Whole, NEW r \in Requests, NEW c \in Calls, UpsertPolicy(r, c) \/ UpsertDomainPolicy(r, c)
    PROVE  Moves(r)
<1> PICK k \in {"route", "domain"} :
        /\ c.op = IF k = "route" THEN "UpsertPolicy" ELSE "UpsertDomainPolicy"
        /\ at[r] = "idle" /\ Reaches(c) /\ LooksForTarget(r, c, k)
  BY DEF UpsertPolicy, UpsertDomainPolicy, Issued
<1> PICK row : row = db[k, c.on] OBVIOUS
<1> DEFINE ok == row # Absent /\ TenantAccess(c.by, row.parent)
<1>1. ReadsFirst(r, c, ok, row) BY DEF LooksForTarget
<1>2. c.on \in Names /\ k \in Kinds BY CallsName DEF Names, Kinds
<1>3. ASSUME ok PROVE Saw(r, c, row)
  <2>1. /\ ParentIs(<<k, c.on>>, row.parent) /\ row.parent \in Names
        /\ db[<<ParentKind[k], row.parent>>] # Absent
    BY <1>2, <1>3, Committed
  <2>2. db["tenant", row.parent] # Absent BY <2>1, ParentKinds
  <2>3. k = (IF c.op = "UpsertPolicy" THEN "route" ELSE "domain") OBVIOUS
  <2>4. QED BY <1>3, <2>1, <2>2, <2>3 DEF Saw
<1> HIDE DEF ok
<1>4. QED BY <1>1, <1>3, DecidesFirst

LEMMA MovesUpdatePermissions ==
    ASSUME Whole, NEW r \in Requests, NEW c \in Calls, UpdatePermissions(r, c)
    PROVE  Moves(r)
<1> PICK row : row = db["user", c.on] OBVIOUS
<1> PICK w : w = [row EXCEPT !.cols.permissions = r] OBVIOUS
<1> PICK i : i = <<"user", c.on>> OBVIOUS
<1> DEFINE ok == row # Absent /\ MayModifyMember(c.by, row)
           t == <<Save("user", c.on, w), Audit(row.parent, "user", c.on, c.by)>>
<1>1. at[r] = "idle" /\ c.op = "UpdatePermissions" /\ Reaches(c) /\ ReadsOnce(r, c, ok, t)
  BY DEF UpdatePermissions, Issued
<1>2. c.on \in Names BY <1>1, CallsName DEF Names
<1>3. ASSUME ok PROVE Opened(r, c, t)
  <2>0. "user" \in Kinds BY DEF Kinds
  <2>1. /\ i \in Ids /\ row \in RowsOf("user") /\ row \in Copies(i) /\ Fits(i, row)
        /\ row.parent \in Names \cup {Nobody}
        /\ row.parent \in Names => db[<<ParentKind["user"], row.parent>>] # Absent
    BY <1>2, <1>3, <2>0, Committed
  <2>2. /\ row.cols.role = "member" /\ IsAdminLike(c.by) /\ TenantAccess(c.by, row.parent)
    BY <1>3 DEF MayModifyMember
  <2>3. row.parent \in Names /\ db["tenant", row.parent] # Absent
    BY <2>1, <2>2, ParentKinds DEF Fits
  <2>4. /\ w \in RowsOf("user") /\ w.parent = row.parent /\ w.key = row.key
        /\ w.cols.role = row.cols.role
        /\ \A y \in DOMAIN row.cols \ {"permissions"} : w.cols[y] = row.cols[y]
    BY <2>1, PermissionsChanged
  <2>5. Kin(i, row, w) /\ Fits(i, w) BY <2>1, <2>4 DEF Kin, Fits
  <2>6. Licensed(c.by, i) BY <2>2, Licences
  <2>7. Rightful(c, i, w) BY <1>1, <2>2, <2>4 DEF Rightful, TenantAccess
  <2>8. Writable(r, c, i, w)
    <3>1. Holders(db, "user", row.key) \subseteq {c.on} BY <1>2, <1>3, <2>0, Alone
    <3>2. ParentId(i, w) = <<"tenant", row.parent>> BY <2>4, ParentKinds DEF ParentId
    <3>3. QED BY <2>3, <2>4, <3>1, <3>2 DEF Writable
  <2>9. Agrees(c.op, w, row) BY <1>1, <2>4 DEF Agrees, Purpose
  <2>10. Faithful(r, c, i, w) BY <2>8, <2>9 DEF Faithful
  <2>11. Proposes(r, c, i, w)
    BY <1>1, <2>1, <2>4, <2>5, <2>6, <2>7, <2>10 DEF Proposes
  <2>12. SoundAudit(r, c, row.parent) BY <2>3, AuditsThere
  <2>13. QED BY <1>1, <2>11, <2>12, OpenedSaveLog DEF Unlogged
<1> HIDE DEF ok, t
<1>4. QED BY <1>1, <1>3, DecidesOnce

LEMMA MovesDeleteUser ==
    ASSUME Whole, NEW r \in Requests, NEW c \in Calls, DeleteUser(r, c)
    PROVE  Moves(r)
<1> PICK row : row = db["user", c.on] OBVIOUS
<1> PICK i : i = <<"user", c.on>> OBVIOUS
<1> DEFINE ok == row # Absent /\ MayDeleteUser(c.by, c.on, row)
           t == <<Audit(row.parent, "user", c.on, c.by), Anonymize("actor", c.on),
                 Anonymize("resource", c.on), Delete("user", c.on)>>
<1>1. at[r] = "idle" /\ c.op = "DeleteUser" /\ Reaches(c) /\ ReadsOnce(r, c, ok, t)
  BY DEF DeleteUser, Issued
<1>2. c.on \in Names /\ c.on \in Seeds BY <1>1, CallsName DEF Names
<1>3. ASSUME ok PROVE Opened(r, c, t)
  <2>0. "user" \in Kinds BY DEF Kinds
  <2>1. /\ i \in Ids /\ row \in Copies(i) /\ Fits(i, row) /\ ParentIs(i, row.parent)
        /\ row.parent \in Names \cup {Nobody} /\ \A w \in Copies(i) : Kin(i, row, w)
        /\ row.parent \in Names => db[<<ParentKind["user"], row.parent>>] # Absent
    BY <1>2, <1>3, <2>0, Committed
  <2>2. \/ row.cols.role = "admin" /\ c.by.role = "superuser"
        \/ /\ row.cols.role = "member"
           /\ c.by.sub = c.on \/ (IsAdminLike(c.by) /\ TenantAccess(c.by, row.parent))
    BY <1>3 DEF MayDeleteUser
  <2>3. row.parent \in Names /\ db["tenant", row.parent] # Absent
    BY <2>1, <2>2, ParentKinds DEF Fits
  <2>4. Licensed(c.by, i) BY <2>2 DEF Licensed, IsAdminLike
  <2>5. c.by.role # "superuser" => row.parent = c.by.tenant
    <3>1. CASE c.by.sub = c.on
      <4>1. c.by \in Callers BY CallersAre
      <4>2. QED BY <1>2, <2>1, <3>1, <4>1 DEF Whole, Lineage, Tokens
    <3>2. CASE c.by.sub # c.on BY <2>2, <3>2 DEF TenantAccess
    <3>3. QED BY <3>1, <3>2
  <2>6. \A w \in Copies(i) : w.cols.role # "superuser" BY <2>1, <2>2 DEF Kin
  <2>7. c.by.role # "superuser" => ParentIs(<<Base(i), i[2]>>, c.by.tenant)
    BY <2>1, <2>5 DEF Base
  <2>8. SoundDelete(r, c, i) BY <1>1, <1>2, <2>4, <2>6, <2>7 DEF SoundDelete
  <2>9. SoundAudit(r, c, row.parent) BY <2>3, AuditsThere
  <2>10. QED BY <1>1, <2>1, <2>8, <2>9, OpenedRemoval
<1> HIDE DEF ok, t
<1>4. QED BY <1>1, <1>3, DecidesOnce

LEMMA MovesChangePassword ==
    ASSUME Whole, NEW r \in Requests, NEW c \in Calls, ChangePassword(r, c)
    PROVE  Moves(r)
<1> PICK row : row = db["user", c.on] OBVIOUS
<1> PICK w : w = [row EXCEPT !.cols.password = r] OBVIOUS
<1> PICK i : i = <<"user", c.on>> OBVIOUS
<1>1. /\ at[r] = "idle" /\ c.op = "ChangePassword" /\ Reaches(c)
      /\ ReadsOnce(r, c, row # Absent, <<Save("user", c.on, w)>>)
  BY DEF ChangePassword, Issued
<1>2. c.on \in Names /\ c.on \in Seeds BY <1>1, CallsName DEF Names
<1>3. ASSUME row # Absent PROVE Opened(r, c, <<Save("user", c.on, w)>>)
  <2>0. "user" \in Kinds BY DEF Kinds
  <2>1. /\ i \in Ids /\ row \in RowsOf("user") /\ row \in Copies(i) /\ Fits(i, row)
        /\ row.parent \in Names \cup {Nobody}
        /\ row.parent \in Names => db[<<ParentKind["user"], row.parent>>] # Absent
    BY <1>2, <1>3, <2>0, Committed
  <2>2. /\ w \in RowsOf("user") /\ w.parent = row.parent /\ w.key = row.key
        /\ w.cols.role = row.cols.role
        /\ \A y \in DOMAIN row.cols \ {"password"} : w.cols[y] = row.cols[y]
    BY <2>1, PasswordChanged
  <2>3. Kin(i, row, w) /\ Fits(i, w) BY <2>1, <2>2 DEF Kin, Fits
  <2>4. c.by.sub = c.on BY <1>1, Roles
  <2>5. Licensed(c.by, i) BY <2>4 DEF Licensed
  <2>6. c.by.role # "superuser" => row.parent = c.by.tenant
    <3>1. c.by \in Callers BY CallersAre
    <3>2. QED BY <1>2, <2>1, <2>4, <3>1 DEF Whole, Lineage, Tokens
  <2>7. Rightful(c, i, w) BY <1>1, <2>2, <2>4, <2>6 DEF Rightful
  <2>8. Writable(r, c, i, w)
    <3>1. Holders(db, "user", row.key) \subseteq {c.on} BY <1>2, <1>3, <2>0, Alone
    <3>2. ParentId(i, w) = <<"tenant", row.parent>> BY <2>2, ParentKinds DEF ParentId
    <3>3. References(i, w) => db[ParentId(i, w)] # Absent
      <4>1. ASSUME w.parent # Nobody PROVE db["tenant", row.parent] # Absent
        BY <2>1, <2>2, <4>1, ParentKinds
      <4>2. QED BY <2>2, <3>2, <4>1 DEF References
    <3>4. QED BY <2>2, <3>1, <3>3 DEF Writable
  <2>9. Agrees(c.op, w, row) BY <1>1, <2>2 DEF Agrees, Purpose
  <2>10. Faithful(r, c, i, w) BY <2>8, <2>9 DEF Faithful
  <2>11. Proposes(r, c, i, w)
    BY <1>1, <2>1, <2>2, <2>3, <2>5, <2>7, <2>10 DEF Proposes
  <2>12. QED BY <1>1, <2>11, OpenedPassword
<1>4. QED BY <1>1, <1>3, DecidesOnce

LEMMA IssueMoves ==
    ASSUME Whole, NEW r \in Requests, NEW c \in Calls, Issue(r, c)
    PROVE  Moves(r)
BY MovesCreateTenant, MovesUpdateTenant, MovesDeleteTenant, MovesCreateDomain, MovesRegister,
   MovesDeleteNamed, MovesDeletePolicies, MovesCreateRoute, MovesUpdateRoute, MovesUpsert,
   MovesUpdatePermissions, MovesDeleteUser, MovesChangePassword DEF Issue

\* What the second read may rely on.
LEMMA Again ==
    ASSUME Whole, NEW r \in Requests, NEW op, NEW ok, NEW t, ReadsAgain(r, op, ok, t)
    PROVE  /\ IInv /\ Conduct(r) /\ at[r] = "looked" /\ call[r] \in Calls /\ call[r].op = op
           /\ Reaches(call[r]) /\ Saw(r, call[r], seen[r])
           /\ op \notin {"CreateTenant", "Register"} => call[r].on \in Seeds /\ call[r].on \in Names
<1>1. IInv /\ Conduct(r) BY DEF Whole
<1>2. at[r] = "looked" /\ call[r] \in Calls /\ call[r].op = op
  BY <1>1 DEF ReadsAgain, IInv, Course
<1>3. Reaches(call[r]) /\ Saw(r, call[r], seen[r]) BY <1>1, <1>2 DEF Conduct
<1>4. op \notin {"CreateTenant", "Register"} => call[r].on \in Seeds /\ call[r].on \in Names
  BY <1>2, CallsName DEF Names
<1>5. QED BY <1>1, <1>2, <1>3, <1>4

LEMMA MovesAlias ==
    ASSUME Whole, NEW r \in Requests, UpdateTenantAlias(r)
    PROVE  Moves(r)
<1> PICK c, w : c = call[r] /\ w = NewRow(Nobody, c.key, ByName(r)) OBVIOUS
<1> PICK i : i = <<"tenant", c.on>> OBVIOUS
<1> DEFINE ok == Holders(db, "tenant", c.key) \subseteq {c.on}
           t == <<Save("tenant", c.on, w), Audit(c.on, "tenant", c.on, c.by)>>
<1>1. ReadsAgain(r, "UpdateTenant", ok, t) BY DEF UpdateTenantAlias
<1> HIDE DEF ok, t
<1>2. /\ IInv /\ Conduct(r) /\ c \in Calls /\ c.op = "UpdateTenant"
      /\ Reaches(c) /\ Saw(r, c, seen[r]) /\ c.on \in Names
  BY <1>1, Again
<1> USE DEF ok, t
<1>3. TenantAccess(c.by, c.on) /\ db["tenant", c.on] # Absent BY <1>2 DEF Saw
<1>4. "tenant" \in Kinds /\ c.key \in Keys BY <1>2, CallFacts DEF Kinds, Keyed
<1>5. w \in RowsOf("tenant") /\ w.parent = Nobody /\ w.key = c.key
  <2>1. r \in Names /\ Nobody \in Names \cup {Nobody} BY DEF Names
  <2>2. w \in RowsOf("tenant") BY <1>4, <2>1, RowsMade
  <2>3. QED BY <2>2 DEF NewRow
<1>6. ASSUME ok PROVE Opened(r, c, t)
  <2>1. PICK v : v = db[i] OBVIOUS
  <2>2. i \in Ids /\ v \in Copies(i) /\ Fits(i, v) BY <1>2, <1>3, <1>4, <2>1, Committed
  <2>3. Kin(i, v, w) /\ Fits(i, w) BY <1>5, <2>2 DEF Kin, Fits
  <2>4. Licensed(c.by, i) BY <1>2, Roles, Licences
  <2>5. Rightful(c, i, w) BY <1>2, <1>3 DEF Rightful, TenantAccess
  <2>6. Writable(r, c, i, w) BY <1>5, <1>6 DEF Writable, References
  <2>7. Proposes(r, c, i, w)
    BY <1>2, <1>5, <2>2, <2>3, <2>4, <2>5, <2>6 DEF Proposes, Faithful
  <2>8. SoundAudit(r, c, c.on) BY <1>2, <1>3, AuditsThere
  <2>9. QED BY <1>2, <2>7, <2>8, OpenedSaveLog DEF Unlogged
<1> HIDE DEF ok, t
<1>7. QED BY <1>1, <1>2, <1>6, DecidesAgain

LEMMA MovesUnlinked ==
    ASSUME Whole, NEW r \in Requests, DeleteTenantUnlinked(r)
    PROVE  Moves(r)
<1> PICK c, i : c = call[r] /\ i = <<"tenant", c.on>> OBVIOUS
<1> DEFINE ok == \A n \in Names : db["route", n] # Absent => db["route", n].parent # c.on
           t == <<Delete("tenant", c.on), Audit(c.on, "tenant", c.on, c.by)>>
<1>1. ReadsAgain(r, "DeleteTenant", ok, t) BY DEF DeleteTenantUnlinked
<1> HIDE DEF ok, t
<1>2. /\ IInv /\ Conduct(r) /\ c \in Calls /\ c.op = "DeleteTenant" /\ Reaches(c)
      /\ c.on \in Seeds /\ c.on \in Names
  BY <1>1, Again
<1>3. c.by.role = "superuser" BY <1>2, Roles
<1>4. i \in Ids BY <1>2 DEF Ids, Kinds
<1>5. SoundDelete(r, c, i) BY <1>2, <1>3 DEF SoundDelete, Licensed
<1>6. SoundAudit(r, c, c.on) BY <1>2 DEF SoundAudit
<1>7. Opened(r, c, t) BY <1>2, <1>4, <1>5, <1>6, OpenedDeleteLog DEF t, Unlogged
<1>8. QED BY <1>1, <1>2, <1>7, DecidesAgain

LEMMA MovesHost ==
    ASSUME Whole, NEW r \in Requests, CreateDomainHost(r)
    PROVE  Moves(r)
<1> PICK c, w : c = call[r] /\ w = NewRow(c.on, c.key, ByName(r)) OBVIOUS
<1> PICK i : i = <<"domain", r>> OBVIOUS
<1> DEFINE ok == ~Taken("domain", c.key)
           t == <<Save("domain", r, w), Audit(c.on, "domain", r, c.by)>>
<1>1. ReadsAgain(r, "CreateDomain", ok, t) BY DEF CreateDomainHost
<1> HIDE DEF ok, t
<1>2. /\ IInv /\ Conduct(r) /\ c \in Calls /\ c.op = "CreateDomain"
      /\ Reaches(c) /\ Saw(r, c, seen[r]) /\ c.on \in Names
  BY <1>1, Again
<1>3. TenantAccess(c.by, c.on) /\ db["tenant", c.on] # Absent BY <1>2 DEF Saw
<1>4. c.key \in Keys /\ r \in Names /\ i \in Ids
  BY <1>2, CallFacts DEF Keyed, Names, Ids, Kinds
<1>5. w \in RowsOf("domain") /\ w.parent = c.on /\ w.key = c.key
  <2>1. w \in RowsOf("domain") BY <1>2, <1>4, RowsMade
  <2>2. QED BY <2>1 DEF NewRow
<1>6. ASSUME ok PROVE Opened(r, c, t)
  <2>1. Fits(i, w) BY <1>2, <1>5, Somebody DEF Fits
  <2>2. Licensed(c.by, i)
    <3>1. RequirePermission(c.by, "domains") BY <1>2, Roles
    <3>2. QED BY <3>1, Licences
  <2>3. Rightful(c, i, w) BY <1>2, <1>3, <1>5 DEF Rightful, TenantAccess
  <2>4. Writable(r, c, i, w)
    <3>1. ParentId(i, w) = <<"tenant", c.on>> BY <1>5, ParentKinds DEF ParentId
    <3>2. Holders(db, "domain", c.key) = {} BY <1>6 DEF ok, Taken
    <3>3. QED BY <1>3, <1>5, <3>1, <3>2 DEF Writable
  <2>5. Proposes(r, c, i, w)
    BY <1>2, <1>4, <1>5, <2>1, <2>2, <2>3, <2>4 DEF Proposes, Faithful
  <2>6. SoundAudit(r, c, c.on) BY <1>2, <1>3, AuditsThere
  <2>7. QED BY <1>2, <2>5, <2>6, OpenedSaveLog DEF t, Unlogged
<1>7. QED BY <1>1, <1>2, <1>6, DecidesAgain

\* A user made by request r: the fields of its row.
LEMMA UserMade ==
    ASSUME NEW r \in Requests, NEW t \in Names, NEW y \in Keys, NEW role \in {"admin", "member"}
    PROVE  LET w == NewUser(r, t, y, role)
           IN  /\ w \in RowsOf("user") /\ w.parent = t /\ w.key = y /\ w.cols.role = role
               /\ Fits(<<"user", r>>, w) /\ ParentId(<<"user", r>>, w) = <<"tenant", t>>
<1> PICK w : w = NewUser(r, t, y, role) OBVIOUS
<1>1. r \in Names BY DEF Names
<1>2. w \in RowsOf("user") BY <1>1, RowsMade
<1>3. w.parent = t /\ w.key = y /\ w.cols.role = role BY DEF NewUser, NewRow
<1>4. Fits(<<"user", r>>, w) BY <1>3, Somebody DEF Fits
<1>5. ParentId(<<"user", r>>, w) = <<"tenant", t>> BY <1>3, ParentKinds DEF ParentId
<1>6. QED BY <1>2, <1>3, <1>4, <1>5

LEMMA MovesEmail ==
    ASSUME Whole, NEW r \in Requests, CreateMemberEmail(r)
    PROVE  Moves(r)
<1> PICK c, w : c = call[r] /\ w = NewUser(r, c.on, c.key, "member") OBVIOUS
<1> PICK i : i = <<"user", r>> OBVIOUS
<1> DEFINE ok == ~Taken("user", c.key)
           t == <<Save("user", r, w), Audit(c.on, "user", r, c.by)>>
<1>1. ReadsAgain(r, "CreateMember", ok, t) BY DEF CreateMemberEmail
<1> HIDE DEF ok, t
<1>2. /\ IInv /\ Conduct(r) /\ at[r] = "looked" /\ c \in Calls /\ c.op = "CreateMember"
      /\ Reaches(c) /\ Saw(r, c, seen[r]) /\ c.on \in Names
  BY <1>1, Again
<1>3. TenantAccess(c.by, c.on) /\ db["tenant", c.on] # Absent BY <1>2 DEF Saw
<1>4. c.key \in Keys /\ "user" \in Kinds BY <1>2, CallFacts DEF Keyed, Kinds
<1>5. i \in Ids /\ db[i] = Absent BY <1>2, <1>4, Unnamed
<1>6. /\ w \in RowsOf("user") /\ w.parent = c.on /\ w.key = c.key /\ w.cols.role = "member"
      /\ Fits(i, w) /\ ParentId(i, w) = <<"tenant", c.on>>
  BY <1>2, <1>4, UserMade
<1>7. ASSUME ok PROVE Opened(r, c, t)
  <2>1. Licensed(c.by, i) BY <1>2, Roles, Licences
  <2>2. Rightful(c, i, w) BY <1>2, <1>3, <1>6 DEF Rightful, TenantAccess
  <2>3. Holders(db, "user", c.key) = {} BY <1>7 DEF ok, Taken
  <2>4. Writable(r, c, i, w) BY <1>3, <1>6, <2>3 DEF Writable
  <2>5. Proposes(r, c, i, w)
    BY <1>2, <1>5, <1>6, <2>1, <2>2, <2>4 DEF Proposes, Faithful
  <2>6. SoundAudit(r, c, c.on) BY <1>2, <1>3, AuditsThere
  <2>7. QED BY <1>2, <2>5, <2>6, OpenedSaveLog DEF t, Unlogged
<1>8. QED BY <1>1, <1>2, <1>7, DecidesAgain

LEMMA MovesEnrolment ==
    ASSUME Whole, NEW r \in Requests, RegisterAlias(r)
    PROVE  Moves(r)
<1> PICK c : c = call[r] OBVIOUS
<1> PICK v, w : v = NewRow(Nobody, c.key, ByName(r)) /\ w = NewUser(r, r, c.key, "admin") OBVIOUS
<1> PICK i, j : i = <<"tenant", r>> /\ j = <<"user", r>> OBVIOUS
<1> DEFINE ok == ~Taken("tenant", c.key)
           t == <<Save("tenant", r, v), Save("user", r, w)>>
<1>1. ReadsAgain(r, "Register", ok, t) BY DEF RegisterAlias
<1> HIDE DEF ok, t
<1>2. /\ IInv /\ Conduct(r) /\ at[r] = "looked" /\ c \in Calls /\ c.op = "Register"
      /\ Reaches(c) /\ Saw(r, c, seen[r])
  BY <1>1, Again
<1>3. c.key \in Keys /\ r \in Names /\ "user" \in Kinds /\ "tenant" \in Kinds
  BY <1>2, CallFacts DEF Keyed, Names, Kinds
<1>4. i \in Ids /\ j \in Ids /\ db[j] = Absent BY <1>2, <1>3, Unnamed
<1>5. v \in RowsOf("tenant") /\ v.parent = Nobody /\ v.key = c.key
  <2>1. v \in RowsOf("tenant") BY <1>3, RowsMade
  <2>2. QED BY <2>1 DEF NewRow
<1>6. /\ w \in RowsOf("user") /\ w.parent = r /\ w.key = c.key /\ w.cols.role = "admin"
      /\ Fits(j, w) /\ ParentId(j, w) = <<"tenant", r>>
  BY <1>3, UserMade
<1>7. ASSUME ok PROVE Opened(r, c, t)
  <2>1. Fits(i, v) BY <1>5 DEF Fits
  <2>2. Rightful(c, i, v) /\ Rightful(c, j, w) BY <1>2 DEF Rightful
  <2>3. Holders(db, "tenant", c.key) = {} BY <1>7 DEF ok, Taken
  <2>4. Writable(r, c, i, v) BY <1>5, <2>3 DEF Writable, References
  <2>5. Proposes(r, c, i, v) BY <1>2, <1>4, <1>5, <2>1, <2>2, <2>4 DEF Proposes, Faithful
  <2>6. ~Overlapped(r) => Writable(r, c, j, w)
    BY <1>2, <1>6 DEF Saw, Taken, Writable
  <2>7. Proposes(r, c, j, w) BY <1>2, <1>4, <1>6, <2>2, <2>6 DEF Proposes, Faithful
  <2>8. QED BY <1>2, <2>5, <2>7, OpenedEnrolment DEF t
<1>8. QED BY <1>1, <1>2, <1>7, DecidesAgain

\* Saving the policy of a route or a domain.
LEMMA MovesMerge ==
    ASSUME Whole, NEW r \in Requests, UpsertPolicyMerge(r) \/ UpsertDomainPolicyMerge(r)
    PROVE  Moves(r)
<1> PICK kind, op :
        /\ kind \in {"policy", "domain_policy"}
        /\ op = IF kind = "policy" THEN "UpsertPolicy" ELSE "UpsertDomainPolicy"
        /\ Upserts(r, op, kind)
  BY DEF UpsertPolicyMerge, UpsertDomainPolicyMerge
<1> PICK c : c = call[r] OBVIOUS
<1> PICK found : found = Holders(db, kind, c.on) OBVIOUS
<1> PICK name : name = IF found = {} THEN r ELSE CHOOSE n \in found : TRUE OBVIOUS
<1> PICK existing : existing = IF found = {} THEN Absent ELSE db[kind, name] OBVIOUS
<1> PICK w, b : w = NewRow(c.on, c.on, Policy(r, c.body)) /\ b = ParentKind[kind] OBVIOUS
<1> PICK i, s : i = <<kind, name>> /\ s = seen[r] OBVIOUS
<1> DEFINE ok == SigningMaterial(existing, c.body)
           t == <<Save(kind, name, w), Audit(s.parent, kind, name, c.by)>>
<1>1. ReadsAgain(r, op, ok, t) BY DEF Upserts
<1> HIDE DEF ok, t
<1>2. /\ IInv /\ Conduct(r) /\ c \in Calls /\ c.op = op
      /\ Reaches(c) /\ Saw(r, c, s) /\ c.on \in Seeds /\ c.on \in Names
  <2>1. op \notin {"CreateTenant", "Register"} OBVIOUS
  <2>2. QED BY <1>1, <2>1, Again
<1>3. b = (IF kind = "policy" THEN "route" ELSE "domain") /\ kind \in Kinds
  BY ParentKinds DEF Kinds
<1>4. /\ s # Absent /\ TenantAccess(c.by, s.parent) /\ ParentIs(<<b, c.on>>, s.parent)
      /\ s.parent \in Names /\ db["tenant", s.parent] # Absent
      /\ ~Overlapped(r) => db[b, c.on] = s
  BY <1>2, <1>3 DEF Saw
<1>5. w \in RowsOf(kind) /\ w.parent = c.on /\ w.key = c.on
  BY <1>2, OwnRow, <1>3 DEF NewRow, Policy, RowsOf, ColumnsOf, PolicyColumns, Keys
<1>6. Fits(i, w) BY <1>2, <1>5, Somebody DEF Fits
<1>7. name \in Names /\ i \in Ids /\ (name = r \/ \E v \in Copies(i) : Kin(i, v, w))
      /\ found \subseteq {name}
  <2>1. CASE found = {} BY <1>3, <2>1, OwnRow DEF Ids
  <2>2. CASE found # {}
    <3>1. name \in found BY <2>2
    <3>2. name \in Names /\ db[kind, name] # Absent /\ db[kind, name].key = c.on
      BY <3>1 DEF Holders
    <3>3. PICK v : v = db[kind, name] OBVIOUS
    <3>4. i \in Ids /\ v \in Copies(i) /\ Fits(i, v) BY <1>3, <3>2, <3>3, Committed
    <3>5. Kin(i, v, w) BY <1>5, <3>2, <3>3, <3>4 DEF Kin, Fits
    <3>6. found \subseteq {name} BY <1>3, <3>2, Alone
    <3>7. QED BY <3>2, <3>4, <3>5, <3>6
  <2>3. QED BY <2>1, <2>2
<1>8. Licensed(c.by, i)
  <2>1. CASE kind = "policy"
    <3>1. RequirePermission(c.by, "routes") BY <1>2, <2>1, Roles
    <3>2. QED BY <2>1, <3>1, Licences
  <2>2. CASE kind = "domain_policy"
    <3>1. RequirePermission(c.by, "domains") BY <1>2, <2>2, Roles
    <3>2. QED BY <2>2, <3>1, Licences
  <2>3. QED BY <2>1, <2>2
<1>9. Rightful(c, i, w)
  <2>1. Base(i) = b BY DEF Base
  <2>2. c.by.role # "superuser" => ParentIs(<<Base(i), c.on>>, c.by.tenant)
    BY <1>4, <2>1 DEF TenantAccess
  <2>3. QED BY <1>2, <1>5, <2>2 DEF Rightful
<1>10. ~Overlapped(r) => Writable(r, c, i, w)
  <2>1. ParentId(i, w) = <<b, c.on>> BY <1>5 DEF ParentId
  <2>2. Holders(db, i[1], w.key) \subseteq {i[2]} BY <1>5, <1>7
  <2>3. ~Overlapped(r) => db[ParentId(i, w)] # Absent BY <1>4, <2>1
  <2>4. QED BY <2>2, <2>3 DEF Writable
<1>11. Proposes(r, c, i, w)
  <2>1. Faithful(r, c, i, w) BY <1>10 DEF Faithful
  <2>2. c.op # "Register" BY <1>2
  <2>3. QED BY <1>5, <1>6, <1>7, <1>8, <1>9, <2>1, <2>2 DEF Proposes
<1>12. SoundAudit(r, c, s.parent) BY <1>4, AuditsThere
<1>13. c.op \notin Unlogged \cup {"DeleteUser", "CreateTenant"} BY <1>2 DEF Unlogged
<1>14. Opened(r, c, t) BY <1>11, <1>12, <1>13, OpenedSaveLog DEF t
<1>15. QED BY <1>1, <1>2, <1>14, DecidesAgain

-----------------------------------------------------------------------------
\* Every step is a move, a commit or a stutter.
LEMMA NextKinds ==
    ASSUME Whole, [Next]_vars
    PROVE  (\E r \in Requests : Moves(r) \/ Commits(r)) \/ UNCHANGED vars
<1>0. IInv BY DEF Whole
<1>1. ASSUME NEW r \in Requests, NEW c \in Calls, Issue(r, c) PROVE Moves(r)
  BY <1>1, IssueMoves
<1>2. ASSUME NEW r \in Requests, Decide(r) PROVE Moves(r)
  BY <1>2, MovesAlias, MovesUnlinked, MovesHost, MovesMerge, MovesEmail, MovesEnrolment
  DEF Decide
<1>3. ASSUME NEW r \in Requests, Execute(r) PROVE Moves(r) \/ Commits(r)
  BY <1>0, <1>3, ExecuteKinds DEF Moves
<1>4. ASSUME NEW r \in Requests, Dies(r) PROVE Moves(r)
  BY <1>4 DEF Dies, Moves
<1>5. QED BY <1>1, <1>2, <1>3, <1>4 DEF Next, AllAnswered

LEMMA WholeStep == Whole /\ [Next]_vars => Whole'
BY NextKinds, MovesKeep, StillWhole

-----------------------------------------------------------------------------
(***************************************************************************)
(* What a commit shows.                                                    *)
(***************************************************************************)
LEMMA CommittingCommits ==
    ASSUME Whole, [Next]_vars, NEW r \in Requests, Committing(r)
    PROVE  Commits(r)
<1>0. IInv BY DEF Whole
<1>1. at[r] # "done" /\ at'[r] = "done" /\ answer'[r] = "ok" BY DEF Committing
<1>2. PICK q \in Requests : Moves(q) \/ Commits(q)
  BY <1>1, NextKinds DEF vars
<1>3. ASSUME Moves(q) PROVE FALSE
  <2>1. OnlyOf(q) BY <1>3, LinesMoved
  <2>2. q = r BY <1>0, <1>1, <2>1, OthersSame
  <2>3. \/ \E how \in {"refused", "error", "unstorable", "lost"} : RollsBack(r, how)
        \/ \E c : \E row : Looks(r, c, row)
        \/ \E c : \E t : Opens(r, c, t)
        \/ SaveSelects(r) \/ (\E w : Puts(r, w)) \/ Removes(r) \/ Records(r) \/ Anonymizes(r)
    BY <1>3, <2>2 DEF Moves
  <2>4. ASSUME NEW how \in {"refused", "error", "unstorable", "lost"}, RollsBack(r, how)
        PROVE  FALSE
    BY <1>0, <1>1, <2>4, RollsBackFacts
  <2>5. ASSUME NEW w, Puts(r, w) PROVE FALSE
    BY <1>0, <1>1, <2>5, AppliesFacts DEF Puts
  <2>6. Removes(r) => FALSE BY <1>0, <1>1, AppliesFacts DEF Removes
  <2>7. QED
    BY <1>0, <1>1, <2>3, <2>4, <2>5, <2>6, LooksFacts, OpensFacts, SelectsFacts, RecordsFacts,
       AnonymizesFacts
<1>4. q = r BY <1>0, <1>1, <1>2, <1>3, CommitsFacts
<1>5. QED BY <1>2, <1>3, <1>4

\* What is committed was in the transaction, with the rights of its request.
LEMMA CommitsWritten ==
    ASSUME Whole, NEW r \in Requests, Commits(r), NEW i \in Ids, Changes(i)
    PROVE  i \in DOMAIN pending[r] /\ db'[i] = pending[r][i] /\ Written(r, i)
<1>0. IInv /\ Conduct(r) BY DEF Whole
<1>1. i \in DOMAIN pending[r] /\ db'[i] = pending[r][i] BY <1>0, CommitsFacts DEF Changes
<1>2. QED BY <1>0, <1>1, CommitsStage DEF Running

\* A user that a commit removes is the one that its call names.
LEMMA CommitsRemoval ==
    ASSUME Whole, NEW r \in Requests, Commits(r), NEW n \in Names,
           <<"user", n>> \in DOMAIN pending[r], pending[r][<<"user", n>>] = Absent
    PROVE  /\ call[r].op = "DeleteUser" /\ n = call[r].on
           /\ \A column \in {"actor", "resource"} : Forgets(r, column, n)
<1>0. IInv /\ Conduct(r) BY DEF Whole
<1>1. ~Told(r) BY DEF Told, Did
<1>2. ~Quiet(r) BY DEF Quiet
<1>3. /\ Parts(r) /\ DOMAIN pending[r] = {<<"user", call[r].on>>}
      /\ Forgets(r, "actor", call[r].on) /\ Forgets(r, "resource", call[r].on)
  BY <1>0, <1>1, <1>2, CommitsStage
<1>4. n = call[r].on BY <1>3
<1>5. QED BY <1>3, <1>4 DEF Parts

LEMMA TellsStep ==
    ASSUME Whole, [Next]_vars, NEW r \in Requests, Committing(r)
    PROVE  /\ audit'[r] # Absent => DOMAIN pending[r] # {} \/ Overlapped(r)
           /\ audit'[r] = Absent => call[r].op \in {"Register", "ChangePassword"}
<1>0. IInv /\ Conduct(r) BY DEF Whole
<1>1. Commits(r) BY CommittingCommits
<1>2. \/ Told(r) \/ Quiet(r)
      \/ Parts(r) /\ DOMAIN pending[r] = {<<"user", call[r].on>>}
  BY <1>0, <1>1, CommitsStage
<1>3. DOMAIN pending[r] # {} \/ Overlapped(r) BY <1>2 DEF Told, Did, Quiet
<1>4. audit'[r] = logged[r] BY <1>1 DEF Commits
<1>5. ASSUME audit'[r] = Absent PROVE call[r].op \in {"Register", "ChangePassword"}
  <2>1. Quiet(r) BY <1>2, <1>4, <1>5 DEF Told, Parts
  <2>2. QED BY <2>1 DEF Quiet, Unlogged
<1>6. QED BY <1>3, <1>5

LEMMA ForgottenStep ==
    ASSUME Whole, [Next]_vars, NEW r \in Requests, Committing(r), NEW n \in Names,
           db[<<"user", n>>] # Absent, db'[<<"user", n>>] = Absent,
           NEW q \in Requests, NEW column \in {"actor", "resource"}, Mentions(audit'[q], column, n)
    PROVE  <<"audit", q>> \in overtaken[r]
<1>0. IInv BY DEF Whole
<1>1. Commits(r) BY CommittingCommits
<1> PICK i : i = <<"user", n>> OBVIOUS
<1>2. i \in Ids /\ db'[i] # db[i] BY DEF Ids, Kinds
<1>3. i \in DOMAIN pending[r] /\ pending[r][i] = Absent BY <1>0, <1>1, <1>2, CommitsFacts
<1>4. Forgets(r, column, n) BY <1>1, <1>3, CommitsRemoval
<1>5. q # r
  <2>1. q = r => audit'[q] = logged[r] BY <1>0, <1>1, CommitsLogs
  <2>2. QED BY <1>4, <2>1 DEF Forgets
<1>6. Mentions(audit[q], column, n) /\ <<column, q>> \notin forgot[r]
  BY <1>0, <1>1, <1>5, CommitsLogs
<1>7. QED BY <1>4, <1>6 DEF Forgets, Hides

LEMMA RevertsStep ==
    ASSUME Whole, [Next]_vars, NEW r \in Requests, Committing(r), NEW n \in Names, NEW i,
           i = <<"user", n>>, db[i] # Absent, db'[i] # Absent, i \notin overtaken[r]
    PROVE  /\ db'[i].parent = db[i].parent /\ db'[i].key = db[i].key
           /\ \A c \in DOMAIN db[i].cols \ Purpose(call[r].op) : db'[i].cols[c] = db[i].cols[c]
<1>0. Commits(r) BY CommittingCommits
<1>1. i \in Ids BY DEF Ids, Kinds
<1>2. CASE db'[i] = db[i] BY <1>2
<1>3. CASE db'[i] # db[i]
  <2>1. db'[i] = pending[r][i] /\ Written(r, i) BY <1>0, <1>1, <1>3, CommitsWritten DEF Changes
  <2>2. Agrees(call[r].op, db'[i], db[i]) BY <2>1 DEF Written
  <2>3. QED BY <2>2 DEF Agrees
<1>4. QED BY <1>2, <1>3

LEMMA TenantStep ==
    ASSUME Whole, [Next]_vars, NEW r \in Requests, Committing(r), NEW i \in Ids, Changes(i)
    PROVE  MayChange(call[r], r, i, IF db[i] # Absent THEN db[i] ELSE db'[i])
<1> PICK c, row : c = call[r] /\ row = IF db[i] # Absent THEN db[i] ELSE db'[i] OBVIOUS
<1>0. IInv /\ Lineage /\ Constraints BY DEF Whole
<1>1. Commits(r) BY CommittingCommits
<1>2. i \in DOMAIN pending[r] /\ db'[i] = pending[r][i] /\ Rights(r, c, i)
  BY <1>1, CommitsWritten DEF Written
<1>3. row # Absent /\ row \in Copies(i) BY <1>2, Copying DEF Changes, Held
<1>4. CASE c.op = "Register"
  <2>1. i[2] = r BY <1>2, <1>4 DEF Rights
  <2>2. QED BY <1>4, <2>1 DEF MayChange
<1>5. CASE c.op # "Register"
  <2>1. Licensed(c.by, i) /\ Rightful(c, i, row) BY <1>2, <1>3, <1>5 DEF Rights
  <2>2. c \in Calls BY <1>0, <1>1, CommitsFacts DEF IInv, Course
  <2>3. c.by.role \in {"superuser", "admin", "member"} BY <2>2, CallersAre
  <2>4. CASE c.by.role = "superuser"
    <3>1. ASSUME i[1] = "user", row.cols.role = "superuser"
          PROVE  i[2] = c.by.sub /\ db'[i] # Absent
      <4>1. i[2] = c.by.sub BY <1>5, <2>1, <3>1 DEF Rightful
      <4>2. ASSUME db'[i] = Absent PROVE FALSE
        <5>1. i = <<"user", i[2]>> /\ i[2] \in Names BY <3>1 DEF Ids
        <5>2. c.op = "DeleteUser" BY <1>1, <1>2, <4>2, <5>1, CommitsRemoval
        <5>3. QED BY <2>1, <3>1, <5>2 DEF Rightful
      <4>3. QED BY <4>1, <4>2
    <3>2. QED BY <1>5, <2>4, <3>1 DEF MayChange
  <2>5. CASE c.by.role # "superuser"
    <3>1. TenantOf(i, row) = c.by.tenant
      <4>0. i[1] \in Kinds BY DEF Ids
      <4>1. CASE i[1] = "tenant" BY <1>5, <2>1, <2>5, <4>1 DEF Rightful, TenantOf
      <4>2. CASE i[1] \in {"domain", "route", "user"}
        BY <1>5, <2>1, <2>5, <4>2 DEF Rightful, TenantOf
      <4>3. CASE i[1] \in {"policy", "domain_policy"}
        <5> PICK p : p = ParentId(i, row) OBVIOUS
        <5>1. row.parent = c.on /\ c.on \in Names /\ ParentIs(<<Base(i), c.on>>, c.by.tenant)
          BY <1>5, <2>1, <2>5, <4>3 DEF Rightful, Names
        <5>2. p = <<Base(i), c.on>> BY <4>3, <5>1 DEF ParentId, Base
        <5>3. Base(i) \in Kinds BY <4>3, ParentKinds DEF Base, Kinds
        <5>4. p \in Ids BY <5>1, <5>2, <5>3 DEF Ids
        <5>5. \A w \in Copies(p) : w.parent = c.by.tenant BY <5>1, <5>2 DEF ParentIs
        <5>6. CASE db[p] # Absent
          <6>1. db[p] \in Copies(p) BY <5>6, Copying DEF Held
          <6>2. QED BY <4>3, <5>5, <5>6, <6>1 DEF TenantOf
        <5>7. CASE db[p] = Absent
          <6>1. References(i, row) BY <4>3, <5>1, Somebody DEF References
          <6>2. db[i] = Absent
            BY <1>0, <5>7, <6>1 DEF Constraints, Legal, Referenced
          <6>3. row = db'[i] BY <6>2
          <6>4. db' = View(r) BY <1>1 DEF Commits, Over, View
          <6>5. Referenced(db') BY <1>0, <6>4 DEF Constraints, Legal
          <6>6. db'[p] # Absent BY <1>3, <6>1, <6>3, <6>5 DEF Referenced
          <6>7. p \in DOMAIN pending[r] /\ db'[p] = pending[r][p]
            BY <1>0, <1>1, <5>4, <5>7, <6>6, CommitsFacts
          <6>8. db'[p] \in Copies(p) BY <6>6, <6>7, Copying DEF Held
          <6>9. QED BY <4>3, <5>5, <5>7, <6>8 DEF TenantOf
        <5>8. QED BY <5>6, <5>7
      <4>4. QED BY <4>0, <4>1, <4>2, <4>3 DEF Kinds
    <3>2. CASE c.by.role = "admin" BY <3>1, <3>2 DEF MayChange
    <3>3. CASE c.by.role = "member" BY <2>1, <3>1, <3>3 DEF MayChange, Licensed
    <3>4. QED BY <2>3, <2>5, <3>2, <3>3
  <2>6. QED BY <2>4, <2>5
<1>6. QED BY <1>4, <1>5

-----------------------------------------------------------------------------
(***************************************************************************)
(* When a statement fails.                                                 *)
(***************************************************************************)
\* Before its statements a use case refuses; it does not fail.
LEMMA OnlyStatementsFail ==
    ASSUME IInv, [Next]_vars, NEW r \in Requests, answer[r] # "error", answer'[r] = "error"
    PROVE  Execute(r)
<1> DEFINE Spared(q) == \/ answer' = answer
                        \/ \E how \in {"refused", "lost", "ok"} :
                              answer' = [answer EXCEPT ![q] = how]
<1>0. \A q \in Requests : ~Spared(q) BY DEF IInv, Entries
<1>1. \A q, how : RollsBack(q, how) => answer' = [answer EXCEPT ![q] = how]
  BY DEF RollsBack, Ends
<1>2. \A q, c, ok, t : ReadsOnce(q, c, ok, t) => Spared(q)
  BY <1>1 DEF ReadsOnce, Decides
<1>3. \A q, c, ok, row : ReadsFirst(q, c, ok, row) => Spared(q)
  BY <1>1 DEF ReadsFirst
<1>4. \A q, op, ok, t : ReadsAgain(q, op, ok, t) => Spared(q)
  BY <1>1 DEF ReadsAgain, Decides
<1> HIDE DEF Spared
<1>5. ASSUME NEW q \in Requests, NEW c \in Calls, Issue(q, c) PROVE FALSE
  BY <1>0, <1>2, <1>3, <1>5 DEF Issue, CreateTenant, UpdateTenant, DeleteTenant, CreateDomain,
     DeleteDomain, CreateRoute, UpdateRoute, DeleteRoute, UpsertPolicy, DeletePolicy,
     UpsertDomainPolicy, DeleteDomainPolicy, LooksForTarget, CreateMember, UpdatePermissions,
     DeleteUser, Register, ChangePassword
<1>6. ASSUME NEW q \in Requests, Decide(q) PROVE FALSE
  BY <1>0, <1>4, <1>6 DEF Decide, UpdateTenantAlias, DeleteTenantUnlinked, CreateDomainHost,
     UpsertPolicyMerge, UpsertDomainPolicyMerge, Upserts, CreateMemberEmail, RegisterAlias
<1>7. ASSUME NEW q \in Requests, Dies(q) PROVE FALSE
  BY <1>0, <1>1, <1>7 DEF Dies, Spared
<1>8. ~UNCHANGED vars BY DEF vars
<1>9. PICK q \in Requests : Execute(q)
  BY <1>5, <1>6, <1>7, <1>8 DEF Next, AllAnswered
<1>10. ASSUME q # r PROVE answer'[r] = answer[r]
  <2>1. \A how : RollsBack(q, how) => answer'[r] = answer[r]
    BY <1>1, <1>10 DEF IInv, Entries
  <2>2. \A change : Writes(q, change) => answer'[r] = answer[r]
    BY <2>1 DEF Writes, Next1
  <2>3. Commits(q) => answer'[r] = answer[r]
    BY <1>10 DEF Commits, Ends, IInv, Entries
  <2>4. QED
    BY <1>9, <2>1, <2>2, <2>3 DEF Execute, SaveSelects, SaveInserts, SaveUpdates, Deletes, Audits,
       Anonymizes, Unstorable, Next1
<1>11. QED BY <1>9, <1>10

LEMMA SamePair == \A a, b, x, y : <<a, b>> = <<x, y>> => a = x /\ b = y
OBVIOUS

\* The tables accept a row with a free key and a parent that is there.
LEMMA PutLegal ==
    ASSUME IInv, NEW r \in Requests, NEW w, w # Absent, Legal(View(r)), NEW i \in Ids,
           i = Head(todo[r]).id,
           Holders(db, i[1], w.key) \subseteq {i[2]},
           References(i, w) => ParentId(i, w) \in Ids /\ View(r)[ParentId(i, w)] # Absent,
           \A j \in DOMAIN pending[r] : j[1] # i[1]
    PROVE  Legal(Over(View(r), Put(r, w)))
<1> PICK old, rows : old = View(r) /\ rows = Over(old, Put(r, w)) OBVIOUS
<1>1. rows[i] = w /\ \A j \in Ids : j # i => rows[j] = old[j] BY DEF Over, Put
<1>2. \A j \in Ids : old[j] # Absent => rows[j] # Absent BY <1>1
<1>3. Referenced(rows)
  <2> SUFFICES ASSUME NEW j \in Ids, rows[j] # Absent, References(j, rows[j])
               PROVE  rows[ParentId(j, rows[j])] # Absent
    BY DEF Referenced
  <2>1. CASE j = i BY <1>1, <1>2, <2>1
  <2>2. CASE j # i
    <3>1. rows[j] = old[j] BY <1>1, <2>2
    <3>2. old[ParentId(j, old[j])] # Absent BY <3>1 DEF Legal, Referenced
    <3> PICK p : p = ParentId(j, old[j]) OBVIOUS
    <3>3. CASE p = i BY <1>1, <3>1, <3>3
    <3>4. CASE p # i
      <4>1. rows[p] = old[p]
        <5>1. old[j] \in RowsOf(j[1]) BY <3>1, ViewTyped
        <5>2. p \in Ids BY <3>1, <5>1, ParentIds
        <5>3. QED BY <1>1, <3>4, <5>2
      <4>2. QED BY <3>1, <3>2, <4>1
    <3>5. QED BY <3>3, <3>4
  <2>3. QED BY <2>1, <2>2
<1>4. KeysUnique(rows)
  <2>1. PICK x \in Kinds, y \in Names : i = <<x, y>> BY DEF Ids
  <2>2. i[1] = x /\ i[2] = y BY <2>1
  <2>3. ASSUME NEW n \in Names, n # y, rows[x, n] # Absent PROVE rows[x, n].key # w.key
    <3> PICK j : j = <<x, n>> OBVIOUS
    <3>1. j \in Ids /\ j # i /\ j[1] = i[1]
      <4>1. j \in Ids BY DEF Ids
      <4>2. j # i BY <2>1, <2>3, SamePair
      <4>3. j[1] = i[1] BY <2>2
      <4>4. QED BY <4>1, <4>2, <4>3
    <3>2. j \notin DOMAIN pending[r] BY <3>1
    <3>3. rows[j] = db[j] BY <1>1, <3>1, <3>2 DEF View
    <3>4. QED BY <2>2, <2>3, <3>3 DEF Holders
  <2> SUFFICES ASSUME NEW k \in Kinds, NEW m \in Names, NEW n \in Names, rows[k, m] # Absent,
                      rows[k, n] # Absent, rows[k, m].key = rows[k, n].key
               PROVE  m = n
    BY DEF KeysUnique
  <2>4. CASE k = x /\ m = y
    <3>1. rows[k, m] = w BY <1>1, <2>1, <2>4
    <3>2. QED BY <2>3, <2>4, <3>1
  <2>5. CASE k = x /\ n = y
    <3>1. rows[k, n] = w BY <1>1, <2>1, <2>5
    <3>2. QED BY <2>3, <2>5, <3>1
  <2>6. CASE <<k, m>> # i /\ <<k, n>> # i
    <3>1. <<k, m>> \in Ids /\ <<k, n>> \in Ids BY DEF Ids
    <3>2. rows[k, m] = old[k, m] /\ rows[k, n] = old[k, n] BY <1>1, <2>6, <3>1
    <3>3. QED BY <3>2 DEF Legal, KeysUnique
  <2>7. CASE <<k, m>> = i
    <3>1. <<k, m>>[1] = i[1] /\ <<k, m>>[2] = i[2] BY <2>7
    <3>2. k = x /\ m = y BY <2>2, <3>1
    <3>3. QED BY <2>4, <3>2
  <2>8. CASE <<k, n>> = i
    <3>1. <<k, n>>[1] = i[1] /\ <<k, n>>[2] = i[2] BY <2>8
    <3>2. k = x /\ n = y BY <2>2, <3>1
    <3>3. QED BY <2>5, <3>2
  <2>9. QED BY <2>6, <2>7, <2>8
<1>5. QED BY <1>3, <1>4 DEF Legal

\* A statement that a constraint stops.
LEMMA WritesFails ==
    ASSUME NEW r, NEW change, Writes(r, change), answer[r] # "error", answer'[r] = "error"
    PROVE  ~Legal(Over(View(r), change))
BY DEF Writes, Next1

\* save() of a request that nobody has overtaken: what it found is what it
\* sees, and what it writes has the key and the parent of its plan.
LEMMA SaveSettled ==
    ASSUME Whole, NEW r \in Requests, at[r] = "fetched", ~Overlapped(r),
           NEW s, s = Head(todo[r])
    PROVE  /\ s.id \in Ids /\ s.row # Absent /\ fetched[r] = View(r)[s.id]
           /\ Writable(r, call[r], s.id, s.row)
           /\ View(r)[s.id] # Absent => View(r)[s.id].parent = s.row.parent
           /\ \/ DOMAIN pending[r] = {} /\ (call[r].op = "Register" => s.id[1] = "tenant")
              \/ /\ s.id = <<"user", r>> /\ DOMAIN pending[r] = {<<"tenant", r>>}
                 /\ pending[r][<<"tenant", r>>] # Absent
<1>0. IInv /\ Lineage /\ Conduct(r) BY DEF Whole
<1>1. Running(r) /\ todo[r] # <<>> /\ s.do = "save" BY <1>0 DEF Conduct, IInv, Course
<1>2. s.id \in Ids /\ s.row \in Copies(s.id) /\ s = todo[r][1] BY <1>0, <1>1, HeadCopies
<1>3. s.row # Absent BY <1>2, Copying DEF Held
<1>4. fetched[r] = View(r)[s.id] BY <1>1, <1>2 DEF Running, Overlapped
<1>5. Writable(r, call[r], s.id, s.row) BY <1>0, <1>1, HeadSound DEF Sound, Faithful
<1>6. View(r)[s.id] # Absent => View(r)[s.id].parent = s.row.parent
  <2>1. \A v, w \in Copies(s.id) : Kin(s.id, v, w) BY <1>0, <1>2 DEF Lineage, Versions
  <2>2. QED BY <1>2, <2>1, ViewCopies DEF Kin
<1>7. \/ DOMAIN pending[r] = {} /\ (call[r].op = "Register" => s.id[1] = "tenant")
      \/ /\ s.id = <<"user", r>> /\ DOMAIN pending[r] = {<<"tenant", r>>}
         /\ pending[r][<<"tenant", r>>] # Absent
  <2>1. Begins(r) \/ Enrols(r)
    BY <1>1, <1>2 DEF Running, Stage, Wrote, Told, Quiet, Parts, Removal, Anonymizing
  <2>2. CASE Begins(r)
    <3>1. call[r].op = "Register" => todo[r][1].id = <<"tenant", r>>
      BY <2>2 DEF Begins, Begun, Unlogged
    <3>2. QED BY <1>2, <2>2, <3>1 DEF Begins
  <2>3. CASE Enrols(r) BY <1>2, <2>3 DEF Enrols
  <2>4. QED BY <2>1, <2>2, <2>3
<1>8. QED BY <1>2, <1>3, <1>4, <1>5, <1>6, <1>7

\* Then the tables accept what it writes.
LEMMA SaveFits ==
    ASSUME Whole, NEW r \in Requests, at[r] = "fetched", ~Overlapped(r),
           NEW s, s = Head(todo[r]), NEW w \in RowsOf(s.id[1]), w # Absent,
           w.key = s.row.key, w.parent = s.row.parent
    PROVE  Legal(Over(View(r), Put(r, w)))
<1> PICK i, old : i = s.id /\ old = View(r) OBVIOUS
<1>0. IInv /\ Legal(View(r)) BY DEF Whole, Constraints
<1>1. /\ i \in Ids /\ Writable(r, call[r], i, s.row)
      /\ \/ DOMAIN pending[r] = {} /\ (call[r].op = "Register" => i[1] = "tenant")
         \/ /\ i = <<"user", r>> /\ DOMAIN pending[r] = {<<"tenant", r>>}
            /\ pending[r][<<"tenant", r>>] # Absent
  BY SaveSettled
<1>2. Holders(db, i[1], w.key) \subseteq {i[2]} BY <1>1 DEF Writable
<1>3. \A j \in DOMAIN pending[r] : j[1] # i[1] BY <1>1
<1>4. ASSUME References(i, w) PROVE ParentId(i, w) \in Ids /\ old[ParentId(i, w)] # Absent
  <2> PICK p : p = ParentId(i, w) OBVIOUS
  <2>1. p \in Ids BY <1>1, <1>4, ParentIds
  <2>2. db[p] # Absent \/ (call[r].op = "Register" /\ p = <<"tenant", r>>)
    BY <1>1, <1>4 DEF Writable, References, ParentId
  <2>3. i[1] # "tenant" BY <1>4 DEF References
  <2>4. old[p] = IF p \in DOMAIN pending[r] THEN pending[r][p] ELSE db[p] BY <2>1 DEF View
  <2>5. QED BY <1>1, <2>1, <2>2, <2>3, <2>4
<1>5. QED BY <1>0, <1>1, <1>2, <1>3, <1>4, PutLegal

\* A value that cannot be stored is an error of its own.
LEMMA NotUnstorable ==
    ASSUME IInv, NEW r \in Requests, NEW kinds, answer'[r] = "error"
    PROVE  ~Unstorable(r, kinds)
BY RollsBackFacts DEF Unstorable

LEMMA SaveFails ==
    ASSUME Whole, NEW r \in Requests, SaveInserts(r) \/ SaveUpdates(r),
           answer[r] # "error", answer'[r] = "error"
    PROVE  Overlapped(r)
<1> SUFFICES ASSUME ~Overlapped(r) PROVE FALSE
  OBVIOUS
<1> PICK s : s = Head(todo[r]) OBVIOUS
<1>0. IInv BY DEF Whole
<1>1. at[r] = "fetched" BY DEF SaveInserts, SaveUpdates
<1>2. /\ s.id \in Ids /\ s.row # Absent /\ fetched[r] = View(r)[s.id]
      /\ View(r)[s.id] # Absent => View(r)[s.id].parent = s.row.parent
  BY <1>1, SaveSettled
<1>3. todo[r] # <<>> /\ s.do = "save" BY <1>0, <1>1 DEF IInv, Course
<1>4. s.row \in RowsOf(s.id[1]) /\ s.id[1] \in Kinds BY <1>0, <1>2, <1>3, HeadCopies DEF Ids
<1>5. CASE SaveInserts(r)
  <2>0. ~Unstorable(r, LooseKinds) BY <1>0, NotUnstorable
  <2>1. View(r)[s.id] = Absent BY <1>2, <1>5 DEF SaveInserts
  <2>2. Writes(r, Put(r, s.row)) BY <1>5, <2>0, <2>1 DEF SaveInserts, Put
  <2>3. Legal(Over(View(r), Put(r, s.row))) BY <1>1, <1>2, <1>4, SaveFits
  <2>4. QED BY <2>2, <2>3, WritesFails
<1>6. CASE SaveUpdates(r)
  <2> PICK row : row = View(r)[s.id] OBVIOUS
  <2> PICK w : w = Updated(row, fetched[r], s.row) OBVIOUS
  <2>0. ~Unstorable(r, LooseKinds) BY <1>0, NotUnstorable
  <2>1. row # Absent /\ fetched[r] = row BY <1>2, <1>6 DEF SaveUpdates
  <2>2. Writes(r, Put(r, w)) BY <1>6, <2>0, <2>1 DEF SaveUpdates, Put
  <2>3. row \in RowsOf(s.id[1]) BY <1>0, <1>2, <2>1, ViewTyped
  <2>4. w \in RowsOf(s.id[1]) BY <1>4, <2>3, UpdatedTyped
  <2>5. w.key = s.row.key /\ w.parent = s.row.parent
    BY <1>2, <1>4, <2>1, <2>3, UpdatedFields
  <2>6. w # Absent BY <1>4, <2>4, RowTypes
  <2>7. Legal(Over(View(r), Put(r, w))) BY <1>1, <2>4, <2>5, <2>6, SaveFits
  <2>8. QED BY <2>2, <2>7, WritesFails
<1>7. QED BY <1>5, <1>6

-----------------------------------------------------------------------------
\* A deletion that spares the tenants leaves no reference behind.
LEMMA CascadeLegal ==
    ASSUME NEW rows, Legal(rows), NEW i \in Ids, i[1] # "tenant", NEW gone,
           \A j \in Ids : rows[j] = Absent \/ rows[j] \in RowsOf(j[1]),
           \A j \in Ids : gone[j] = IF j \in Cascade(rows, Victims(rows, i)) THEN Absent ELSE rows[j]
    PROVE  Legal(gone)
<1> PICK V, C : V = Victims(rows, i) /\ C = Cascade(rows, V) OBVIOUS
<1>1. \A j \in Ids : gone[j] # Absent => j \notin C /\ gone[j] = rows[j] OBVIOUS
<1>2. Referenced(gone)
  <2> SUFFICES ASSUME NEW j \in Ids, gone[j] # Absent, References(j, gone[j]),
                      gone[ParentId(j, gone[j])] = Absent
               PROVE  FALSE
    BY DEF Referenced
  <2> PICK p : p = ParentId(j, rows[j]) OBVIOUS
  <2>1. j \notin C /\ gone[j] = rows[j] /\ gone[p] = Absent BY <1>1
  <2>2. rows[p] # Absent BY <2>1 DEF Legal, Referenced
  <2>3. p \in Ids
    <3>1. rows[j] \in RowsOf(j[1]) BY <2>1
    <3>2. QED BY <2>1, <3>1, ParentIds
  <2>4. j[1] \in Cascading \/ p[1] = "tenant"
    <3>1. j[1] \in {"domain", "route", "user", "policy", "domain_policy"}
      BY DEF Ids, Kinds, References
    <3>2. QED BY <3>1, ParentKinds DEF ParentId, Cascading
  <2>5. p[1] \notin {"policy", "domain_policy"}
    <3>1. j[1] \in {"domain", "route", "user", "policy", "domain_policy"}
      BY DEF Ids, Kinds, References
    <3>2. p[1] = ParentKind[j[1]] BY DEF ParentId
    <3>3. QED BY <3>1, <3>2, ParentKinds
  <2>6. p \in C BY <2>1, <2>2, <2>3
  <2>7. p = i BY <2>5, <2>6, CascadeKinds
  <2>8. V = {i} BY <2>2, <2>5, <2>7 DEF Victims
  <2>9. j \in Dependents(rows, V) BY <2>1, <2>4, <2>7, <2>8 DEF Dependents
  <2>10. j \in C BY <2>9 DEF Cascade
  <2>11. QED BY <2>1, <2>10
<1>3. KeysUnique(gone)
  <2> SUFFICES ASSUME NEW k \in Kinds, NEW m \in Names, NEW n \in Names, gone[k, m] # Absent,
                      gone[k, n] # Absent, gone[k, m].key = gone[k, n].key
               PROVE  m = n
    BY DEF KeysUnique
  <2>1. <<k, m>> \in Ids /\ <<k, n>> \in Ids BY DEF Ids
  <2>2. gone[k, m] = rows[k, m] /\ gone[k, n] = rows[k, n] BY <1>1, <2>1
  <2>3. QED BY <2>2 DEF Legal, KeysUnique
<1>4. QED BY <1>2, <1>3 DEF Legal

LEMMA DeleteFails ==
    ASSUME Whole, NEW r \in Requests, Deletes(r), answer[r] # "error", answer'[r] = "error"
    PROVE  call[r].op = "DeleteTenant"
<1> SUFFICES ASSUME call[r].op # "DeleteTenant" PROVE FALSE
  OBVIOUS
<1> PICK s, i, old : s = Head(todo[r]) /\ i = s.id /\ old = View(r) OBVIOUS
<1>0. IInv /\ Conduct(r) /\ Legal(old) BY DEF Whole, Constraints
<1>1. at[r] = "open" /\ todo[r] # <<>> /\ s.do = "delete" BY DEF Deletes, At
<1>2. s \in Statement /\ SoundDelete(r, call[r], i)
  BY <1>0, <1>1, HeadSound DEF Conduct, Sound
<1>3. i \in Ids BY <1>1, <1>2 DEF Statement
<1>4. i[1] # "tenant" BY <1>2 DEF SoundDelete
<1>5. ~RollsBack(r, "refused") BY <1>0, RollsBackFacts
<1>6. Writes(r, Gone(r)) BY <1>5 DEF Deletes, Gone
<1>7. \A j \in Ids : old[j] = Absent \/ old[j] \in RowsOf(j[1]) BY <1>0, ViewTyped
<1>8. Legal(Over(old, Gone(r)))
  <2> PICK gone : gone = Over(old, Gone(r)) OBVIOUS
  <2>1. \A j \in Ids : gone[j] = IF j \in Cascade(old, Victims(old, i)) THEN Absent ELSE old[j]
    BY DEF Over, Gone
  <2>2. Legal(gone) BY <1>0, <1>3, <1>4, <1>7, <2>1, CascadeLegal
  <2>3. QED BY <2>2
<1>9. QED BY <1>6, <1>8, WritesFails

LEMMA AuditFails ==
    ASSUME Whole, NEW r \in Requests, Audits(r), answer[r] # "error", answer'[r] = "error"
    PROVE  call[r].op = "DeleteTenant"
<1> SUFFICES ASSUME call[r].op # "DeleteTenant" PROVE FALSE
  OBVIOUS
<1> PICK s, p : s = Head(todo[r]) /\ p = <<"tenant", s.tenant>> OBVIOUS
<1>0. IInv /\ Conduct(r) BY DEF Whole
<1>1. at[r] = "open" /\ todo[r] # <<>> /\ s.do = "audit" /\ s = todo[r][1]
  BY <1>0, SomethingLeft DEF Audits, At
<1>2. Running(r) BY <1>0, <1>1 DEF Conduct
<1>3. SoundAudit(r, call[r], s.tenant) BY <1>0, <1>1, <1>2, HeadSound DEF Sound
<1>4. p \in Ids BY <1>3 DEF SoundAudit, Ids, Kinds
<1>5. View(r)[p] = Absent
  <2>1. ~Unstorable(r, {"policy"}) BY <1>0, NotUnstorable
  <2>2. QED BY <2>1 DEF Audits, Next1
<1>6. \A j \in DOMAIN pending[r] : j[1] = "tenant" => pending[r][j] # Absent
  BY <1>2 DEF Running, Written
<1>7. p \notin DOMAIN pending[r] /\ db[p] = Absent BY <1>4, <1>5, <1>6 DEF View
<1>8. call[r].op = "CreateTenant" /\ p = <<"tenant", r>> BY <1>3, <1>7 DEF SoundAudit
<1>9. Wrote(r)
  <2>1. ~Begins(r) BY <1>1, <1>8 DEF Begins, Begun
  <2>2. Len(todo[r]) # 0 BY <1>0, <1>1, SomethingLeft
  <2>3. QED
    BY <1>1, <1>2, <2>1, <2>2 DEF Running, Stage, Told, Enrols, Quiet, Parts, Removal, Anonymizing
<1>10. QED BY <1>7, <1>8, <1>9 DEF Wrote, Did

LEMMA FailsStep ==
    ASSUME Whole, [Next]_vars, NEW r \in Requests, answer[r] # "error", answer'[r] = "error"
    PROVE  Overlapped(r) \/ call[r].op = "DeleteTenant"
<1>0. IInv BY DEF Whole
<1>1. Execute(r) BY <1>0, OnlyStatementsFail
<1>2. ~SaveSelects(r) /\ ~Anonymizes(r) BY <1>0, SelectsFacts, AnonymizesFacts DEF Keeps
<1>3. ~Commits(r) BY <1>0, CommitsFacts
<1>4. QED BY <1>1, <1>2, <1>3, SaveFails, DeleteFails, AuditFails DEF Execute

-----------------------------------------------------------------------------
\* The inductive invariant holds in every reachable state.
THEOREM Invariant == Spec => []IInv
<1>1. QED BY InitInv, StepInv, PTL DEF Spec

\* Rows, requests and their transactions have the types of TypeOK.
THEOREM TypeCorrect == Spec => []TypeOK
<1>1. IInv => TypeOK BY DEF IInv
<1>2. QED BY <1>1, Invariant, PTL

\* No execution of ManageTenant.delete commits, whatever it overlaps.
THEOREM TenantsRemain == Spec => TenantsStay
<1>1. QED BY Invariant, TenantsStayStep, PTL DEF Spec, TenantsStay

\* What save() brings back was read before its deletion was committed.
THEOREM OverlapResurrects == Spec => OnlyOverlapResurrects
<1>1. QED BY Invariant, OverlapStep, PTL DEF Spec, OnlyOverlapResurrects

\* The stronger one: lineage, constraints and the conduct of every request.
THEOREM WholeInvariant == Spec => []Whole
<1>1. QED BY InitWhole, WholeStep, PTL DEF Spec

\* Unique columns and foreign keys hold at every moment, in the committed
\* tables as in what each open transaction sees: no commit violates them.
THEOREM ConstraintsHold == Spec => [](UniqueAndReferenced /\ \A r \in Requests : Legal(View(r)))
<1>1. Whole => UniqueAndReferenced /\ \A r \in Requests : Legal(View(r))
  BY DEF Whole, Constraints, Legal, UniqueAndReferenced
<1>2. QED BY <1>1, WholeInvariant, PTL

\* No version of a row, saved or about to be, violates a NOT NULL or the
\* CHECK on a user's role and tenant: no statement can fail on them.
THEOREM RowsFit == Spec => [](\A i \in Ids : \A w \in Copies(i) : Fits(i, w))
<1>1. Whole => \A i \in Ids : \A w \in Copies(i) : Fits(i, w)
  BY DEF Whole, Lineage, Versions
<1>2. QED BY <1>1, WholeInvariant, PTL

\* The guards of the use cases hold at the commit: a request changes rows of
\* its token's tenant, of the kinds its role and permissions open.
THEOREM RightsAtCommit == Spec => OwnTenantOnly
<1>1. ASSUME Whole, [Next]_vars
      PROVE  \A r \in Requests : Committing(r) =>
                \A i \in Ids : Changes(i) =>
                    MayChange(call[r], r, i, IF db[i] # Absent THEN db[i] ELSE db'[i])
  BY <1>1, TenantStep
<1>2. QED BY <1>1, WholeInvariant, PTL DEF Spec, OwnTenantOnly

\* A commit changes the columns of a user that its operation is about.
THEOREM OverlapReverts == Spec => OnlyOverlapReverts
<1>1. ASSUME Whole, [Next]_vars
      PROVE  \A r \in Requests : Committing(r) =>
                \A n \in Names :
                    LET i == <<"user", n>> IN
                    (db[i] # Absent /\ db'[i] # Absent /\ i \notin overtaken[r]) =>
                        /\ db'[i].parent = db[i].parent /\ db'[i].key = db[i].key
                        /\ \A c \in DOMAIN db[i].cols \ Purpose(call[r].op) :
                               db'[i].cols[c] = db[i].cols[c]
  BY <1>1, RevertsStep
<1>2. QED BY <1>1, WholeInvariant, PTL DEF Spec, OnlyOverlapReverts

\* Alone, a use case whose checks have passed is not stopped by a constraint,
\* nor by a row that has gone: a value that cannot be stored apart.
THEOREM OverlapFails == Spec => OnlyOverlapFails
<1>1. ASSUME Whole, [Next]_vars
      PROVE  \A r \in Requests : (answer[r] # "error" /\ answer'[r] = "error") =>
                Overlapped(r) \/ call[r].op = "DeleteTenant"
  BY <1>1, FailsStep
<1>2. QED BY <1>1, WholeInvariant, PTL DEF Spec, OnlyOverlapFails

\* The change-audit log and the tables agree, commit by commit.
THEOREM AuditAgrees == Spec => AuditTellsTheChange
<1>1. ASSUME Whole, [Next]_vars
      PROVE  \A r \in Requests : Committing(r) =>
                /\ audit'[r] # Absent => DOMAIN pending[r] # {} \/ Overlapped(r)
                /\ audit'[r] = Absent => call[r].op \in {"Register", "ChangePassword"}
  BY <1>1, TellsStep
<1>2. QED BY <1>1, WholeInvariant, PTL DEF Spec, AuditTellsTheChange

\* No audit row names a user whose deletion has committed, as its actor or
\* as what it is about, but those committed while the deletion ran.
THEOREM UserForgotten == Spec => DeletedUserIsForgotten
<1>1. ASSUME Whole, [Next]_vars
      PROVE  \A r \in Requests, n \in Names :
                LET i == <<"user", n>> IN
                (Committing(r) /\ db[i] # Absent /\ db'[i] = Absent)
                    => \A q \in Requests, column \in {"actor", "resource"} :
                           Mentions(audit'[q], column, n) => <<"audit", q>> \in overtaken[r]
  BY <1>1, ForgottenStep
<1>2. QED BY <1>1, WholeInvariant, PTL DEF Spec, DeletedUserIsForgotten
=============================================================================
