------------------------------ MODULE WireConn -------------------------------
(***************************************************************************)
(* One connection of internal/pgwire (conn.go, rows.go, txn.go) and the    *)
(* backend at its other end, message by message: start-up, the simple and  *)
(* the extended protocol, the statement cache, draining after an error,    *)
(* notifications, and the two gates of the pool that decide whether the    *)
(* next caller inherits the connection.                                    *)
(*                                                                         *)
(* A message is its kind and the request it answers.  The backend is       *)
(* external: it is what the code relies on in PostgreSQL.                  *)
(***************************************************************************)
EXTENDS Integers, Sequences

CONSTANTS
  Request,    \* calls of Query and ExecSimple; each is made at most once
  Text,       \* SQL texts run through Query
  MaxDials,   \* bound
  MaxNotes    \* bound, below the 32 that notifyCh holds

ASSUME WireAssumption ==
  MaxDials \in Nat \ {0} /\ MaxNotes \in 0 .. 32 /\ "none" \notin Request

VARIABLES
  at,      \* where the connection is: "none", start-up, pooled, held, or in a call
  me,      \* the Conn: its view of the transaction, its taint, its statement cache
  call,    \* the call in progress
  to,      \* frontend messages on their way
  wire,    \* backend messages on their way
  srv,     \* the backend
  ends,    \* what each request was told
  did,     \* what the backend did for each request: "done" until Sync commits it,
           \* "pending" in an open transaction, then "kept", "undone" or "refused"
  notes,   \* notifications: raised for this session, sent, received by notifyCh
  dials,
  cut      \* history: the requests whose drain the end of the socket cut short

vars == <<at, me, call, to, wire, srv, ends, did, notes, dials, cut>>

Command == {"begin", "commit", "rollback", "listen", "script"}

NewConn == [tx |-> "I", tainted |-> FALSE, prepared |-> <<>>, seq |-> 0]
NewBackend == [live |-> TRUE, tx |-> "I", stmts |-> <<>>, skip |-> FALSE, listens |-> FALSE,
               ask |-> "none"]
NoCall == [req |-> "none", text |-> "none", name |-> 0, out |-> "ok"]

Msg(t, req) == [t |-> t, req |-> req]
With(table, key, val) == [k \in DOMAIN table \cup {key} |-> IF k = key THEN val ELSE table[k]]
Async == {"Note"}
Startup == {"startup", "sasl1", "sasl2"}
Extended == {"parse", "bind", "describe", "rows"}
Boundary == at \in {"pooled", "held"}

Init ==
  /\ at = "none" /\ me = NewConn /\ call = NoCall /\ to = <<>> /\ wire = <<>> /\ srv = NewBackend
  /\ ends = [r \in Request |-> "none"] /\ did = [r \in Request |-> "none"]
  /\ notes = [raised |-> 0, sent |-> 0, got |-> 0, drained |-> 0] /\ dials = 0 /\ cut = {}

-----------------------------------------------------------------------------
\* The connection dies: destroy closes the socket, the pool's slot is freed and
\* the call in progress, if any, is told.  The backend rolls back whatever
\* transaction was open.
Gone(told) ==
  /\ at' = "none" /\ me' = NewConn /\ call' = NoCall /\ to' = <<>> /\ wire' = <<>> /\ srv' = NewBackend
  /\ ends' = IF call.req = "none" THEN ends ELSE [ends EXCEPT ![call.req] = told]
  /\ notes' = [notes EXCEPT !.raised = 0, !.sent = 0, !.got = 0, !.drained = 0]
  /\ cut' = IF at = "drain" THEN cut \cup {call.req} ELSE cut
  /\ UNCHANGED <<did, dials>>

\* A call is told of the dead connection, except when it has its answer already:
\* drainToReady swallows the error of its reads, and finish, expect and Next
\* return the success or the SQL error that sent them to drain; a caller whose
\* row did not scan returns that, whatever Close meets.
Destroy == Gone(IF at = "drain" \/ call.out = "unread" THEN call.out ELSE "dead")

Send(ms) == to' = to \o ms
Head1(kind) == wire # <<>> /\ Head(wire).t = kind
Take == wire' = Tail(wire)

-----------------------------------------------------------------------------
\* Start-up and authentication.

Connect ==
  /\ at = "none" /\ dials < MaxDials
  /\ at' = "startup" /\ dials' = dials + 1
  /\ Send(<<Msg("Startup", "none")>>)
  /\ UNCHANGED <<me, call, wire, srv, ends, did, notes, cut>>

Answered(stage, reply) ==
  /\ Take /\ at' = stage /\ Send(reply)
  /\ UNCHANGED <<me, call, srv, ends, did, notes, dials, cut>>

\* The authentication loop: AuthOK and BackendKeyData go by, a password or the
\* first SASL message is answered; an error or anything else is the end.
ReadStartup ==
  /\ at = "startup" /\ wire # <<>>
  /\ CASE Head1("AuthOK") \/ Head1("KeyData") -> Answered("startup", <<>>)
       [] Head1("AuthCleartext") -> Answered("startup", <<Msg("Password", "none")>>)
       [] Head1("AuthSASL") -> Answered("sasl1", <<Msg("SaslFirst", "none")>>)
       [] Head1("Ready") ->
            /\ Take /\ at' = "held" /\ me' = [me EXCEPT !.tx = Head(wire).req]
            /\ UNCHANGED <<call, to, srv, ends, did, notes, dials, cut>>
       [] OTHER -> Destroy

ReadSasl ==
  /\ at \in {"sasl1", "sasl2"} /\ wire # <<>>
  /\ CASE at = "sasl1" /\ Head1("SaslContinue") -> Answered("sasl2", <<Msg("SaslFinal", "none")>>)
       [] at = "sasl2" /\ Head1("SaslVerified") -> Answered("startup", <<>>)
       [] OTHER -> Destroy

-----------------------------------------------------------------------------
\* A call begins.

\* mutant: the name goes into the cache before the backend has parsed it.
QueryCached(r, text) ==
  LET new == text \notin DOMAIN me.prepared
      name == IF new THEN me.seq + 1 ELSE me.prepared[text]
      kinds == (IF new THEN <<"Parse">> ELSE <<>>) \o <<"Bind", "Describe", "Execute", "Sync">>
  IN /\ at = "held" /\ ends[r] = "none"
     /\ me' = [me EXCEPT !.seq = IF new THEN name ELSE @, !.prepared = With(@, text, name)]
     /\ call' = [req |-> r, text |-> text, name |-> name, out |-> "ok"]
     /\ Send([i \in DOMAIN kinds |-> [t |-> kinds[i], req |-> r, text |-> text, name |-> name]])
     /\ at' = IF new THEN "parse" ELSE "bind"
     /\ UNCHANGED <<wire, srv, ends, did, notes, dials, cut>>

\* Query: Parse unless the cache has the text, then Bind, Describe, Execute and
\* Sync in one write.  The name is new for every text that is not cached.
Query(r, text) ==
  LET new == text \notin DOMAIN me.prepared
      name == IF new THEN me.seq + 1 ELSE me.prepared[text]
      kinds == (IF new THEN <<"Parse">> ELSE <<>>) \o <<"Bind", "Describe", "Execute", "Sync">>
  IN /\ at = "held" /\ ends[r] = "none"
     /\ me' = IF new THEN [me EXCEPT !.seq = name] ELSE me
     /\ call' = [req |-> r, text |-> text, name |-> name, out |-> "ok"]
     /\ Send([i \in DOMAIN kinds |-> [t |-> kinds[i], req |-> r, text |-> text, name |-> name]])
     /\ at' = IF new THEN "parse" ELSE "bind"
     /\ UNCHANGED <<wire, srv, ends, did, notes, dials, cut>>

\* encodeArgs fails after the statement has been numbered; nothing is sent.
EncodeFails(r, text) ==
  /\ at = "held" /\ ends[r] = "none"
  /\ me' = IF text \in DOMAIN me.prepared THEN me ELSE [me EXCEPT !.seq = @ + 1]
  /\ ends' = [ends EXCEPT ![r] = "unsent"]
  /\ UNCHANGED <<at, call, to, wire, srv, did, notes, dials, cut>>

\* ExecSimple, through Begin, Commit, Rollback, Listen or a script.  Every
\* caller rolls back after its first error.
ExecSimple(r, command) ==
  /\ at = "held" /\ ends[r] = "none"
  /\ CASE command = "commit" -> me.tx = "T"
       [] command = "rollback" -> me.tx # "I"
       [] OTHER -> me.tx = "I"
  /\ call' = [NoCall EXCEPT !.req = r, !.text = command]
  /\ Send(<<[t |-> "Query", req |-> r, text |-> command, name |-> 0]>>)
  /\ at' = "simple"
  /\ UNCHANGED <<me, wire, srv, ends, did, notes, dials, cut>>

-----------------------------------------------------------------------------
\* The answer is read.  readMsgAsync hands a notification over and reads on;
\* drainToReady reads with readMsg, which throws away whatever is not Ready: a
\* notification, and the error of a commit that fails at Sync.

DeliverNotification ==
  /\ at \in Extended \cup {"simple"} /\ Head1("Note")
  /\ Take /\ notes' = [notes EXCEPT !.got = @ + 1]
  /\ UNCHANGED <<at, me, call, to, srv, ends, did, dials, cut>>

Next1(stage, conn) ==
  /\ Take /\ at' = stage /\ me' = conn
  /\ UNCHANGED <<call, to, srv, ends, did, notes, dials, cut>>

\* mutant: the error is returned and what follows it stays on the wire.
ToReadyLater(out) ==
  /\ Take /\ at' = "held" /\ call' = NoCall /\ ends' = [ends EXCEPT ![call.req] = out]
  /\ UNCHANGED <<me, to, srv, did, notes, dials, cut>>

\* An error, or the end of the rows: drain to Ready before anything is told.
ToReady(out) ==
  /\ Take /\ at' = "drain"
  /\ call' = [call EXCEPT !.out = IF @ = "ok" THEN out ELSE @]
  /\ UNCHANGED <<me, to, srv, ends, did, notes, dials, cut>>

Told(out) ==
  /\ Take /\ at' = "held" /\ me' = [me EXCEPT !.tx = Head(wire).req]
  /\ ends' = [ends EXCEPT ![call.req] = out] /\ call' = NoCall
  /\ UNCHANGED <<to, srv, did, notes, dials, cut>>

Reading(stage) == at = stage /\ wire # <<>> /\ Head(wire).t \notin Async

\* expect, and the message after Bind.
ReadParse ==
  /\ Reading("parse")
  /\ CASE Head1("ParseComplete") -> Next1("bind", [me EXCEPT !.prepared = With(@, call.text, call.name)])
       [] Head1("Error") -> ToReady("refused")
       [] OTHER -> Destroy
ReadBind ==
  /\ Reading("bind")
  /\ CASE Head1("BindComplete") -> Next1("describe", me)
       [] Head1("Error") -> ToReady("refused")
       [] OTHER -> Destroy
ReadDescription ==
  /\ Reading("describe")
  /\ CASE Head1("RowDescription") -> Next1("rows", me)
       [] Head1("Error") -> ToReady("refused")
       [] OTHER -> Destroy

\* Rows.Next.  A row may fail to scan: the caller closes the rows, which reads
\* on to the end.  A row that is not UTF-8 destroys the connection.
ReadRow ==
  /\ Reading("rows")
  /\ CASE Head1("DataRow") ->
            \/ Next1("rows", me)
            \/ /\ Take /\ call' = [call EXCEPT !.out = "unread"]
               /\ UNCHANGED <<at, me, to, srv, ends, did, notes, dials, cut>>
            \/ Destroy
       [] Head1("Complete") -> ToReady("ok")
       [] Head1("Error") -> ToReady("refused")
       [] OTHER -> Destroy

\* mutant: an error ends the rows, and closing them drains once more.
DrainTwice ==
  /\ at = "drain" /\ wire # <<>>
  /\ IF Head1("Ready") /\ call.out = "ok" THEN Told(call.out)
     ELSE /\ Take /\ notes' = IF Head1("Note") THEN [notes EXCEPT !.drained = @ + 1] ELSE notes
          /\ call' = IF Head1("Ready") THEN [call EXCEPT !.out = "ok"] ELSE call
          /\ UNCHANGED <<at, me, to, srv, ends, did, dials, cut>>

Drain ==
  /\ at = "drain" /\ wire # <<>>
  /\ IF Head1("Ready") THEN Told(call.out)
     ELSE /\ Take /\ notes' = IF Head1("Note") THEN [notes EXCEPT !.drained = @ + 1] ELSE notes
          /\ UNCHANGED <<at, me, call, to, srv, ends, did, dials, cut>>

ReadSimple ==
  /\ Reading("simple")
  /\ CASE Head(wire).t \in {"RowDescription", "DataRow", "Complete"} -> Next1("simple", me)
       [] Head1("Error") ->
            /\ Take /\ call' = [call EXCEPT !.out = "refused"]
            /\ UNCHANGED <<at, me, to, srv, ends, did, notes, dials, cut>>
       [] Head1("Ready") -> Told(call.out)
       [] OTHER -> Destroy

\* The backend is gone: a read sees it when what was sent has been read, or before.
ReadFails ==
  /\ at \notin {"none", "pooled", "held"} /\ ~ srv.live
  /\ Destroy

\* armCancel: the context of the call ends.  The cancel itself is the backend's
\* choice to fail the statement; ConnPool has the ones that come late.
CtxEnds ==
  /\ at \in Extended \cup {"simple", "drain"} /\ ~ me.tainted
  /\ me' = [me EXCEPT !.tainted = TRUE]
  /\ UNCHANGED <<at, call, to, wire, srv, ends, did, notes, dials, cut>>

-----------------------------------------------------------------------------
\* The pool's gates.  Every caller in the repository reads or closes its rows
\* before it releases: the gates do not ask for that.

\* mutant: the status of the transaction is not asked.
PoolableUntainted(conn) == ~ conn.tainted

Poolable(conn) == conn.tx = "I" /\ ~ conn.tainted

Release ==
  /\ at = "held"
  /\ IF Poolable(me)
       THEN at' = "pooled" /\ UNCHANGED <<me, call, to, wire, srv, ends, did, notes, dials, cut>>
       ELSE Destroy

Acquire ==
  /\ at = "pooled"
  /\ at' = "held" /\ UNCHANGED <<me, call, to, wire, srv, ends, did, notes, dials, cut>>

-----------------------------------------------------------------------------
\* The backend.

Reply(ms, backend) ==
  /\ to' = Tail(to) /\ wire' = wire \o ms /\ srv' = backend
  /\ UNCHANGED <<at, me, call, ends, dials, cut>>
Did(r, what) == did' = [did EXCEPT ![r] = what]
Quiet == UNCHANGED <<did, notes>>
Next2(t) == srv.live /\ to # <<>> /\ Head(to).t = t

\* A statement fails: an open transaction is aborted.
Aborted(backend) == [backend EXCEPT !.tx = IF @ = "T" THEN "E" ELSE @]
Refuse(r, backend) == Did(r, "refused") /\ UNCHANGED notes /\ Reply(<<Msg("Error", r)>>, Aborted(backend))

\* Trust, a password, SCRAM, or a method the client does not know.
Authenticate ==
  /\ Quiet
  /\ LET in == <<Msg("AuthOK", "none"), Msg("KeyData", "none"), Msg("Ready", "I")>>
         no == <<Msg("Error", "none")>>
     IN \/ /\ Next2("Startup")
           /\ \E ask \in {"AuthCleartext", "AuthSASL", "AuthMD5"} :
                Reply(in, srv) \/ Reply(no, srv) \/ Reply(<<Msg(ask, "none")>>, srv)
        \/ Next2("Password") /\ (Reply(in, srv) \/ Reply(no, srv))
        \/ Next2("SaslFirst") /\ (Reply(<<Msg("SaslContinue", "none")>>, srv) \/ Reply(no, srv))
        \/ /\ Next2("SaslFinal")
           /\ \/ \E proof \in {"SaslVerified", "SaslForged"} : Reply(<<Msg(proof, "none")>> \o in, srv)
              \/ Reply(no, srv)

Skip == /\ srv.live /\ to # <<>> /\ srv.skip /\ Head(to).t # "Sync"
        /\ Quiet /\ Reply(<<>>, srv)

Parse ==
  LET p == Head(to) IN
  /\ Next2("Parse") /\ ~ srv.skip
  /\ \/ /\ srv.tx # "E" /\ p.name \notin DOMAIN srv.stmts
        /\ Quiet
        /\ Reply(<<Msg("ParseComplete", p.req)>>,
                 [srv EXCEPT !.stmts = With(@, p.name, [text |-> p.text, stale |-> FALSE])])
     \/ Refuse(p.req, [srv EXCEPT !.skip = TRUE])

\* A prepared statement whose result has changed shape is refused for ever.
BindPortal ==
  LET b == Head(to) IN
  /\ Next2("Bind") /\ ~ srv.skip
  /\ \/ /\ srv.tx # "E" /\ b.name \in DOMAIN srv.stmts /\ ~ srv.stmts[b.name].stale
        /\ Quiet /\ Reply(<<Msg("BindComplete", b.req)>>, srv)
     \/ Refuse(b.req, [srv EXCEPT !.skip = TRUE])

Describe ==
  /\ Next2("Describe") /\ ~ srv.skip
  /\ Quiet /\ Reply(<<Msg("RowDescription", Head(to).req)>>, srv)

Execute ==
  LET r == Head(to).req IN
  /\ Next2("Execute") /\ ~ srv.skip
  /\ \E rows \in {<<>>, <<Msg("DataRow", r)>>} :
       \/ /\ Did(r, IF srv.tx = "T" THEN "pending" ELSE "done") /\ UNCHANGED notes
          /\ Reply(rows \o <<Msg("Complete", r)>>, srv)
       \/ /\ Did(r, "refused") /\ UNCHANGED notes
          /\ Reply(rows \o <<Msg("Error", r)>>, Aborted([srv EXCEPT !.skip = TRUE]))

\* Outside a transaction the notifications that came in meanwhile go out just
\* before Ready.
Waiting == notes.raised - notes.sent
ToIdle(ms, backend) ==
  LET out == IF backend.tx = "I" THEN [i \in 1 .. Waiting |-> Msg("Note", "none")] ELSE <<>>
  IN /\ Reply(ms \o out \o <<Msg("Ready", backend.tx)>>, backend)
     /\ notes' = [notes EXCEPT !.sent = @ + Len(out)]

\* A statement outside a transaction is committed at Sync, not before it was
\* answered: a deferred constraint or a serialization failure may still undo it.
Sync ==
  LET r == Head(to).req
      done == [srv EXCEPT !.skip = FALSE]
  IN /\ Next2("Sync")
     /\ \/ did[r] # "done" /\ UNCHANGED did /\ ToIdle(<<>>, done)
        \/ did[r] = "done" /\ Did(r, "kept") /\ ToIdle(<<>>, done)
        \/ did[r] = "done" /\ Did(r, "undone") /\ ToIdle(<<Msg("CommitError", r)>>, done)

SimpleQuery ==
  LET q == Head(to)
      after == CASE q.text = "begin" -> [srv EXCEPT !.tx = "T"]
                 [] q.text \in {"commit", "rollback"} -> [srv EXCEPT !.tx = "I"]
                 [] q.text = "listen" -> [srv EXCEPT !.listens = TRUE]
                 [] OTHER -> srv
      \* A commit that fails ends the transaction.
      failed == IF q.text \in {"commit", "rollback"} THEN after ELSE Aborted(srv)
  IN /\ Next2("Query")
     /\ \/ Did(q.req, "kept") /\ ToIdle(<<Msg("Complete", q.req)>>, after)
        \/ q.text # "rollback" /\ Did(q.req, "refused") /\ ToIdle(<<Msg("Error", q.req)>>, failed)
        \* a script may hold a COPY
        \/ q.text = "script" /\ Did(q.req, "done") /\ ToIdle(<<Msg("CopyIn", q.req)>>, after)

\* Another session notifies; an idle backend passes it on at once.
Notify ==
  /\ srv.listens /\ notes.raised < MaxNotes
  /\ notes' = [notes EXCEPT !.raised = @ + 1]
  /\ UNCHANGED <<at, me, call, to, wire, srv, ends, did, dials, cut>>
PassOn ==
  /\ srv.live /\ to = <<>> /\ srv.tx = "I" /\ Waiting > 0
  /\ wire' = wire \o [i \in 1 .. Waiting |-> Msg("Note", "none")]
  /\ notes' = [notes EXCEPT !.sent = notes.raised]
  /\ UNCHANGED <<at, me, call, to, srv, ends, did, dials, cut>>

\* Another session alters a table that the prepared statements read.
Reshape ==
  /\ \E n \in DOMAIN srv.stmts : ~ srv.stmts[n].stale
  /\ srv' = [srv EXCEPT !.stmts = [n \in DOMAIN @ |-> [@[n] EXCEPT !.stale = TRUE]]]
  /\ UNCHANGED <<at, me, call, to, wire, ends, did, notes, dials, cut>>

BackendDies ==
  /\ at # "none" /\ srv.live
  /\ srv' = [srv EXCEPT !.live = FALSE]
  /\ UNCHANGED <<at, me, call, to, wire, ends, did, notes, dials, cut>>

-----------------------------------------------------------------------------
Start == \E r \in Request : \/ \E text \in Text : Query(r, text) \/ EncodeFails(r, text)
                            \/ \E command \in Command : ExecSimple(r, command)
Read == \/ ReadStartup \/ ReadSasl \/ DeliverNotification \/ ReadParse \/ ReadBind \/ ReadDescription
        \/ ReadRow \/ Drain \/ ReadSimple \/ ReadFails
Backend == \/ Authenticate \/ Skip \/ Parse \/ BindPortal \/ Describe \/ Execute \/ Sync \/ SimpleQuery
           \/ PassOn
Environment == CtxEnds \/ Notify \/ Reshape \/ BackendDies

Next == Connect \/ Start \/ Read \/ Release \/ Acquire \/ Backend \/ Environment

Spec == Init /\ [][Next]_vars

-----------------------------------------------------------------------------
\* What each stage of a call reads on; anything else there is a desync.
Expects(stage) ==
  CASE stage = "parse" -> {"ParseComplete", "Error"}
    [] stage = "bind" -> {"BindComplete", "Error"}
    [] stage = "describe" -> {"RowDescription", "Error"}
    [] stage = "rows" -> {"DataRow", "Complete", "Error"}
    [] stage = "simple" -> {"RowDescription", "DataRow", "Complete", "Error", "Ready"}

\* The two ends are in step.  Between two calls nothing of the last one is on
\* its way in either direction, and the status byte the pool looks at is the
\* backend's.  (Release never pools a mid-transaction connection.)  In a call
\* the next message is one that the reader reads on, whatever was refused,
\* skipped or notified before: destroy-on-desync answers nothing but the COPY of
\* a script.
InStep ==
  /\ Boundary => /\ to = <<>> /\ \A i \in DOMAIN wire : wire[i].t \in Async
                 /\ me.tx = srv.tx /\ ~ srv.skip
                 /\ at = "pooled" => srv.tx = "I"
  /\ at \in Extended \cup {"simple"} /\ wire # <<>> /\ Head(wire).t \notin Async
       => \/ Head(wire).t \in Expects(at)
          \/ Head(wire).t = "CopyIn" /\ call.text = "script"

\* Whatever errors, drains and reuse went before, a request is told what the
\* backend did for it and not for another one: an SQL error is its own refusal,
\* success its own statement, committed or run in the transaction that is open.
\* Two successes are false, and no other: the commit at Sync failed and the drain
\* threw its error away, or the backend died before it came to Sync and the drain
\* kept quiet about it.
AnswersAreOwn ==
  /\ \A r \in Request :
       /\ ends[r] = "ok" => did[r] \in {"kept", "pending", "undone"} \/ (did[r] = "done" /\ r \in cut)
       /\ ends[r] = "refused" => did[r] = "refused"
  /\ at \in Extended \cup {"simple"} /\ wire # <<>> /\ Head(wire).t \notin Async \cup {"Ready"}
       => Head(wire).req = call.req

\* The statement cache names statements that the backend has, under the text
\* they were parsed from, after refused parses, failed encodings and rollbacks.
CacheIsBacked ==
  Boundary => \A text \in DOMAIN me.prepared :
    me.prepared[text] \in DOMAIN srv.stmts /\ srv.stmts[me.prepared[text]].text = text

\* A call that has not returned has its answer coming: the backend still has to
\* read something of it, or the Ready that ends it is on the wire.  Nobody waits
\* for a message that the other end believes it has sent.
AnswerIsComing ==
  call.req # "none" /\ srv.live => to # <<>> \/ \E i \in DOMAIN wire : wire[i].t = "Ready"
=============================================================================
