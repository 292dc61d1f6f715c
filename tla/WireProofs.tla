----------------------------- MODULE WireProofs ------------------------------
(***************************************************************************)
(* Theorems about WireConn, for any sets of requests and texts: the two    *)
(* ends of the connection are in step, between two calls and message by    *)
(* message within one (AlwaysInStep), a request is told what was done for  *)
(* it and not for another one (AnswersStayOwn), the statement cache names  *)
(* what the backend has (CacheStaysBacked), and a call that has not        *)
(* returned has its answer coming (AnswersCome).                           *)
(*                                                                         *)
(* One inductive invariant, WireInv, serves the four.  It says of every    *)
(* message in flight, in either direction, what its sender knew when it    *)
(* sent it and cannot have unlearned since.  OrderInv adds, for a message  *)
(* read within a call, what may follow what.                               *)
(***************************************************************************)
EXTENDS WireConn, SequenceTheorems, TLAPS

(* Streams *)

\* The messages of a stream, in any order.
On(s) == {s[i] : i \in 1 .. Len(s)}

\* After Ready only notifications follow; a write of a call ends with the one
\* message that asks for Ready, right after the one that runs the statement.
ReadyLast(s) == \A i, j \in 1 .. Len(s) : i < j /\ s[i].t = "Ready" => s[j].t = "Note"
EndsWith(s, t) == \A i \in 1 .. Len(s) : s[i].t = t <=> i = Len(s)
RunsLast(s) == \A i \in 1 .. Len(s) : s[i].t = "Execute" => i = Len(s) - 1

Status == {"I", "T", "E"}
Opening == {"Startup", "Password", "SaslFirst", "SaslFinal"}
Demand == {"AuthCleartext", "AuthSASL", "SaslContinue"}
Steps == {"Parse", "Bind", "Describe", "Execute"}
Stages == Extended \cup {"drain"}
InCall == Stages \cup {"simple"}

Asks == Opening \cup Steps \cup {"Sync", "Query"}
Answers == Demand \cup {"AuthMD5", "AuthOK", "KeyData", "SaslVerified", "SaslForged", "Ready", "Note",
                        "Error", "CommitError", "ParseComplete", "BindComplete", "RowDescription", "DataRow",
                        "Complete", "CopyIn"}

Answer == [t : Answers, req : Request \cup {"none"} \cup Status]
Ask == [t : Asks, req : {"none"}]
       \cup [t : Asks, req : Request, text : Text \cup Command, name : Nat]
Calls == [req : Request \cup {"none"}, text : Text \cup Command \cup {"none"}, name : Nat,
          out : {"ok", "unread", "refused"}]

\* What the backend may have done for a request; Ran: the statement was run.
Ran == {"done", "pending", "kept", "undone"}
Deeds == {"none", "refused"} \cup Ran

(* The invariant *)

ConnT == /\ at \in {"none"} \cup Startup \cup {"pooled", "held"} \cup InCall
         /\ me = [tx |-> me.tx, tainted |-> me.tainted, prepared |-> me.prepared, seq |-> me.seq]
         /\ me.tx \in Status /\ me.seq \in Nat
         /\ DOMAIN me.prepared \subseteq Text /\ me.prepared \in [DOMAIN me.prepared -> Nat]
         /\ call \in Calls /\ (at \in Stages => call.text \in Text)
StreamT == to \in Seq(Ask) /\ wire \in Seq(Answer)
SrvT == /\ srv = [live |-> srv.live, tx |-> srv.tx, stmts |-> srv.stmts, skip |-> srv.skip,
                  listens |-> srv.listens, ask |-> srv.ask]
        /\ srv.live \in BOOLEAN /\ srv.tx \in Status /\ srv.skip \in BOOLEAN /\ srv.listens \in BOOLEAN
        /\ srv.stmts \in [DOMAIN srv.stmts -> [text : Text, stale : BOOLEAN]]
BookT == /\ ends \in [Request -> {"none", "ok", "unread", "refused", "dead", "unsent"}]
         /\ did \in [Request -> Deeds] /\ cut \subseteq Request
         /\ notes \in [raised : Nat, sent : Nat, got : Nat, drained : Nat] /\ notes.sent <= notes.raised

\* Where the connection is says whether a call is open and what may be in flight.
Place == /\ IF at \in InCall THEN call.req # "none" /\ ends[call.req] = "none" ELSE call = NoCall
         /\ at = "none" => to = <<>> /\ wire = <<>>
         /\ at \in {"none"} \cup Startup =>
              srv.tx = "I" /\ ~ srv.skip /\ ~ srv.listens /\ notes.raised = 0 /\ notes.sent = 0
         /\ at \in {"pooled", "held"} => to = <<>> /\ (\A m \in On(wire) : m.t = "Note") /\ me.tx = srv.tx
         /\ at = "pooled" => me.tx = "I"

\* Start-up is a dialogue: one message is in flight, or what followed an answer.
Dialogue == at \in Startup =>
  /\ to # <<>> => Len(to) = 1 /\ wire = <<>>
  /\ \A m \in On(to) : m.t \in Opening
  /\ \A m \in On(wire) : m.t \in Demand => Len(wire) = 1 /\ to = <<>>

\* What the backend has still to read of the call.
Asked == /\ at \in Stages => /\ EndsWith(to, "Sync") /\ RunsLast(to)
                            /\ \A m \in On(to) : m.t \in Steps \cup {"Sync"}
         /\ at = "simple" => EndsWith(to, "Query") /\ \A m \in On(to) : m.t = "Query"
         /\ \A m \in On(to) : /\ m.req = call.req
                              /\ m.t = "Parse" => m.name = call.name /\ m.text = call.text
         /\ srv.skip => at \in Stages /\ to # <<>>

\* Ready is the backend's last word: it had read everything when it sent it.
LastWord == /\ ReadyLast(wire)
            /\ \A m \in On(wire) : m.t = "Ready" => to = <<>> /\ m.req = srv.tx /\ ~ srv.skip
            /\ at \in InCall => to # <<>> \/ \E m \in On(wire) : m.t = "Ready"

Own == \A m \in On(wire) : m.t \notin {"Note", "Ready"} => m.req = call.req

\* Whether the call's statement ran is decided once, and what was heard of it is
\* true; whether it is kept is decided by the time the backend asks for the next.
Verdict == at \in InCall =>
  /\ did[call.req] # "none" => srv.skip \/ \A m \in On(to) : m.t = "Sync"
  /\ \A m \in On(wire) : /\ m.t = "Complete" => did[call.req] \in Ran
                         /\ m.t = "Error" => did[call.req] = "refused"
  /\ at \in Stages /\ to = <<>> => did[call.req] # "done"
  /\ at \in Extended => call.out # "refused"
  /\ at = "drain" /\ call.out = "ok" => did[call.req] \in Ran
  /\ call.out = "refused" => did[call.req] = "refused"
  /\ at = "simple" => /\ call.out # "unread"
                      /\ to = <<>> /\ call.out = "ok" =>
                           did[call.req] = "kept" \/ \E m \in On(wire) : m.t \in {"Error", "CopyIn"}

\* Every other request was told the truth, but for what its drain did not hear,
\* or has not been asked for yet.
Past == \A r \in Request :
  /\ ends[r] = "ok" => did[r] \in Ran \ {"done"} \/ (did[r] = "done" /\ r \in cut)
  /\ ends[r] = "refused" => did[r] = "refused"
  /\ ends[r] = "none" /\ r # call.req => did[r] = "none"

\* A statement is in the cache, or about to be, only if the backend has it.
Backed(name, text) == name \in DOMAIN srv.stmts /\ srv.stmts[name].text = text
Cache == /\ \A text \in DOMAIN me.prepared : Backed(me.prepared[text], text)
         /\ \A m \in On(wire) : m.t = "ParseComplete" => Backed(call.name, call.text)

WireInv == /\ ConnT /\ StreamT /\ SrvT /\ BookT
           /\ Place /\ Dialogue /\ Asked /\ LastWord /\ Own /\ Verdict /\ Past /\ Cache

-----------------------------------------------------------------------------
(* Streams: what a reader leaves and what a writer adds *)

LEMMA ReadOne ==
  ASSUME NEW S, NEW s \in Seq(S), s # <<>>
  PROVE  /\ Tail(s) \in Seq(S) /\ Len(Tail(s)) = Len(s) - 1 /\ Head(s) \in S
         /\ Head(s) \in On(s) /\ On(s) = {Head(s)} \cup On(Tail(s))
<1>1. /\ Tail(s) \in Seq(S) /\ Len(Tail(s)) = Len(s) - 1 /\ Len(s) \in Nat \ {0}
      /\ \A i \in 1 .. Len(s) - 1 : Tail(s)[i] = s[i + 1]
  BY HeadTailProperties
<1>2. Head(s) = s[1] /\ Head(s) \in S
  BY HeadTailProperties
<1>3. ASSUME NEW m \in On(s) PROVE m = Head(s) \/ m \in On(Tail(s))
  <2>1. PICK i \in 1 .. Len(s) : m = s[i]
    BY <1>3 DEF On
  <2>2. CASE i = 1
    BY <2>1, <2>2, <1>2
  <2>3. CASE i # 1
    <3>1. i - 1 \in 1 .. Len(Tail(s)) /\ Tail(s)[i - 1] = s[i]
      BY <2>3, <1>1
    <3> QED
      BY <3>1, <2>1 DEF On
  <2> QED
    BY <2>2, <2>3
<1>4. ASSUME NEW m \in On(Tail(s)) PROVE m \in On(s)
  <2>1. PICK i \in 1 .. Len(Tail(s)) : m = Tail(s)[i]
    BY <1>4 DEF On
  <2>2. i + 1 \in 1 .. Len(s) /\ m = s[i + 1]
    BY <2>1, <1>1
  <2> QED
    BY <2>2 DEF On
<1>5. Head(s) \in On(s)
  BY <1>1, <1>2 DEF On
<1> QED
  BY <1>1, <1>2, <1>3, <1>4, <1>5

LEMMA ReadOrder ==
  ASSUME NEW S, NEW s \in Seq(S), s # <<>>
  PROVE  /\ ReadyLast(s) => ReadyLast(Tail(s))
         /\ ReadyLast(s) /\ Head(s).t = "Ready" => \A m \in On(Tail(s)) : m.t = "Note"
         /\ \A t : EndsWith(s, t) => EndsWith(Tail(s), t) /\ (Head(s).t = t <=> Tail(s) = <<>>)
         /\ RunsLast(s) => RunsLast(Tail(s))
         /\ RunsLast(s) /\ EndsWith(s, "Sync") /\ Head(s).t = "Execute" => \A m \in On(Tail(s)) : m.t = "Sync"
<1>1. /\ Tail(s) \in Seq(S) /\ Len(Tail(s)) = Len(s) - 1 /\ Len(s) \in Nat \ {0} /\ Head(s) = s[1]
      /\ \A i \in 1 .. Len(s) - 1 : Tail(s)[i] = s[i + 1] /\ i + 1 \in 1 .. Len(s)
  BY HeadTailProperties
<1>2. Tail(s) = <<>> <=> Len(s) = 1
  <2>1. Tail(s) = <<>> <=> Len(Tail(s)) = 0
    BY <1>1, EmptySeq
  <2> QED
    BY <2>1, <1>1
<1>3. ReadyLast(s) => ReadyLast(Tail(s))
  BY <1>1 DEF ReadyLast
<1>4. ReadyLast(s) /\ Head(s).t = "Ready" => \A m \in On(Tail(s)) : m.t = "Note"
  BY <1>1 DEF ReadyLast, On
<1>5. ASSUME NEW t, EndsWith(s, t)
      PROVE  EndsWith(Tail(s), t) /\ (Head(s).t = t <=> Tail(s) = <<>>)
  <2>1. \A i \in 1 .. Len(s) : s[i].t = t <=> i = Len(s)
    BY <1>5 DEF EndsWith
  <2>2. Head(s).t = t <=> Tail(s) = <<>>
    <3>1. 1 \in 1 .. Len(s)
      BY <1>1
    <3>2. s[1].t = t <=> 1 = Len(s)
      BY <2>1, <3>1
    <3> QED
      BY <3>2, <1>1, <1>2
  <2>3. ASSUME NEW i \in 1 .. Len(Tail(s)) PROVE Tail(s)[i].t = t <=> i = Len(Tail(s))
    <3>1. i + 1 \in 1 .. Len(s) /\ Tail(s)[i] = s[i + 1] /\ (i = Len(Tail(s)) <=> i + 1 = Len(s))
      BY <1>1
    <3>2. s[i + 1].t = t <=> i + 1 = Len(s)
      BY <2>1, <3>1
    <3> QED
      BY <3>1, <3>2
  <2> QED
    BY <2>2, <2>3 DEF EndsWith
<1>6. RunsLast(s) => RunsLast(Tail(s))
  <2>1. ASSUME RunsLast(s), NEW i \in 1 .. Len(Tail(s)), Tail(s)[i].t = "Execute"
        PROVE  i = Len(Tail(s)) - 1
    <3>1. i + 1 \in 1 .. Len(s) /\ s[i + 1].t = "Execute"
      BY <1>1, <2>1
    <3>2. i + 1 = Len(s) - 1
      BY <2>1, <3>1 DEF RunsLast
    <3> QED
      BY <3>2, <1>1
  <2> QED
    BY <2>1 DEF RunsLast
<1>7. ASSUME RunsLast(s), EndsWith(s, "Sync"), Head(s).t = "Execute", NEW m \in On(Tail(s)) PROVE m.t = "Sync"
  <2> DEFINE q == Tail(s)
  <2>1. Len(s) = 2
    <3>1. 1 \in 1 .. Len(s) /\ s[1].t = "Execute"
      BY <1>1, <1>7
    <3>2. 1 = Len(s) - 1
      BY <3>1, <1>7 DEF RunsLast
    <3> QED
      BY <3>2, <1>1
  <2>2. Len(q) = 1 /\ q[1] = s[2] /\ m \in On(q)
    <3>1. Len(q) = 1 /\ m \in On(q) /\ 1 \in 1 .. Len(s) - 1
      BY <2>1, <1>1, <1>7
    <3> HIDE DEF q
    <3>2. q[1] = s[1 + 1]
      BY <3>1, <1>1 DEF q
    <3> QED
      BY <3>1, <3>2
  <2> HIDE DEF q
  <2>3. m = s[2]
    BY <2>2 DEF On
  <2>4. 2 \in 1 .. Len(s) /\ 2 = Len(s)
    BY <2>1
  <2> QED
    BY <2>3, <2>4, <1>7 DEF EndsWith
<1> QED
  BY <1>3, <1>4, <1>5, <1>6, <1>7

LEMMA WriteMore ==
  ASSUME NEW S, NEW s \in Seq(S), NEW ms \in Seq(S)
  PROVE  /\ s \o ms \in Seq(S) /\ On(s \o ms) = On(s) \cup On(ms)
         /\ (\A m \in On(s) : m.t # "Ready") /\ ReadyLast(ms) => ReadyLast(s \o ms)
         /\ ReadyLast(s) /\ (\A m \in On(ms) : m.t = "Note") => ReadyLast(s \o ms)
<1>1. /\ s \o ms \in Seq(S) /\ Len(s \o ms) = Len(s) + Len(ms) /\ Len(s) \in Nat /\ Len(ms) \in Nat
      /\ \A i \in 1 .. Len(s) + Len(ms) : (s \o ms)[i] = IF i <= Len(s) THEN s[i] ELSE ms[i - Len(s)]
  BY ConcatProperties
<1>2. ASSUME NEW m \in On(s \o ms) PROVE m \in On(s) \cup On(ms)
  <2>1. PICK i \in 1 .. Len(s) + Len(ms) : m = (s \o ms)[i]
    BY <1>1 DEF On
  <2>2. (i <= Len(s) => i \in 1 .. Len(s)) /\ (~ i <= Len(s) => i - Len(s) \in 1 .. Len(ms))
    BY <1>1
  <2> QED
    BY <2>1, <2>2, <1>1 DEF On
<1>3. ASSUME NEW i \in 1 .. Len(s) PROVE s[i] \in On(s \o ms) /\ s[i] \in On(s)
  <2>1. i \in 1 .. Len(s) + Len(ms) /\ (s \o ms)[i] = s[i]
    BY <1>1
  <2> QED
    BY <2>1, <1>1 DEF On
<1>4. ASSUME NEW i \in 1 .. Len(ms) PROVE ms[i] \in On(s \o ms) /\ ms[i] \in On(ms)
  <2>1. i + Len(s) \in 1 .. Len(s) + Len(ms) /\ (s \o ms)[i + Len(s)] = ms[i]
    BY <1>1
  <2> QED
    BY <2>1, <1>1 DEF On
<1>5. On(s \o ms) = On(s) \cup On(ms)
  BY <1>2, <1>3, <1>4 DEF On
<1>6. ASSUME \A m \in On(s) : m.t # "Ready", ReadyLast(ms) PROVE ReadyLast(s \o ms)
  <2>1. SUFFICES ASSUME NEW i \in 1 .. Len(s) + Len(ms), NEW j \in 1 .. Len(s) + Len(ms),
                        i < j, (s \o ms)[i].t = "Ready"
                 PROVE  (s \o ms)[j].t = "Note"
    BY <1>1 DEF ReadyLast
  <2>2. ~ i <= Len(s)
    BY <2>1, <1>1, <1>3, <1>6
  <2>3. i - Len(s) \in 1 .. Len(ms) /\ j - Len(s) \in 1 .. Len(ms) /\ i - Len(s) < j - Len(s)
    BY <2>1, <2>2, <1>1
  <2> QED
    BY <2>1, <2>2, <2>3, <1>1, <1>6 DEF ReadyLast
<1>7. ASSUME ReadyLast(s), \A m \in On(ms) : m.t = "Note" PROVE ReadyLast(s \o ms)
  <2>1. SUFFICES ASSUME NEW i \in 1 .. Len(s) + Len(ms), NEW j \in 1 .. Len(s) + Len(ms),
                        i < j, (s \o ms)[i].t = "Ready"
                 PROVE  (s \o ms)[j].t = "Note"
    BY <1>1 DEF ReadyLast
  <2>2. CASE j <= Len(s)
    BY <2>1, <2>2, <1>1, <1>7 DEF ReadyLast
  <2>3. CASE ~ j <= Len(s)
    BY <2>1, <2>3, <1>1, <1>4, <1>7
  <2> QED
    BY <2>2, <2>3
<1> QED
  BY <1>1, <1>5, <1>6, <1>7

LEMMA One ==
  ASSUME NEW S, NEW a \in S
  PROVE  <<a>> \in Seq(S) /\ Len(<<a>>) = 1 /\ On(<<a>>) = {a} /\ ReadyLast(<<a>>)
BY DEF On, ReadyLast

LEMMA Three ==
  ASSUME NEW S, NEW a \in S, NEW b \in S, NEW c \in S
  PROVE  <<a, b, c>> \in Seq(S) /\ Len(<<a, b, c>>) = 3 /\ On(<<a, b, c>>) = {a, b, c}
BY DEF On

LEMMA Messages ==
  ASSUME NEW t \in Answers, NEW req \in Request \cup {"none"} \cup Status
  PROVE  Msg(t, req) \in Answer /\ Msg(t, req).t = t /\ Msg(t, req).req = req
BY DEF Msg, Answer

LEMMA InvParts ==
  /\ WireInv <=> /\ ConnT /\ StreamT /\ SrvT /\ BookT
                 /\ Place /\ Dialogue /\ Asked /\ LastWord /\ Own /\ Verdict /\ Past /\ Cache
  /\ WireInv' <=> /\ ConnT' /\ StreamT' /\ SrvT' /\ BookT'
                  /\ Place' /\ Dialogue' /\ Asked' /\ LastWord' /\ Own' /\ Verdict' /\ Past' /\ Cache'
BY DEF WireInv

-----------------------------------------------------------------------------
(* A connection that is new, dies, or is passed on *)

LEMMA NewTypes ==
  /\ NewConn = [tx |-> "I", tainted |-> FALSE, prepared |-> <<>>, seq |-> 0]
  /\ DOMAIN NewConn.prepared = {} /\ NewConn.prepared \in [{} -> Nat]
  /\ NoCall \in Calls /\ NoCall.req = "none"
  /\ DOMAIN NewBackend.stmts = {} /\ NewBackend.stmts \in [{} -> [text : Text, stale : BOOLEAN]]
  /\ On(<<>>) = {} /\ ReadyLast(<<>>) /\ <<>> \in Seq(Ask) /\ <<>> \in Seq(Answer)
  /\ "none" \notin Request
BY WireAssumption DEF NewConn, NewBackend, NoCall, Calls, On, ReadyLast

LEMMA InvInit == Init => WireInv
<1>1. SUFFICES ASSUME Init PROVE WireInv
  OBVIOUS
<1>2. ConnT
  BY <1>1, NewTypes DEF Init, ConnT, NewConn, Status, Stages, Extended
<1>3. StreamT /\ Dialogue /\ Asked /\ LastWord /\ Own /\ Verdict /\ Past
  BY <1>1, NewTypes DEF Init, StreamT, Dialogue, Asked, LastWord, Own, Verdict, Past, InCall, Stages,
                        Extended, Startup, NewBackend
<1>4. SrvT
  BY <1>1, NewTypes DEF Init, SrvT, NewBackend, Status
<1>5. BookT /\ Place
  BY <1>1, NewTypes DEF Init, BookT, Place, InCall, Stages, Extended, NewBackend, Deeds
<1>6. Cache
  BY <1>1, NewTypes DEF Init, Cache, NewConn
<1> QED
  BY <1>2, <1>3, <1>4, <1>5, <1>6, InvParts

LEMMA DestroyInv ==
  ASSUME WireInv, Destroy
  PROVE  WireInv'
<1> DEFINE told == IF at = "drain" \/ call.out = "unread" THEN call.out ELSE "dead"
<1>1. /\ at' = "none" /\ me' = NewConn /\ call' = NoCall /\ to' = <<>> /\ wire' = <<>>
      /\ srv' = NewBackend /\ did' = did
      /\ ends' = IF call.req = "none" THEN ends ELSE [ends EXCEPT ![call.req] = told]
      /\ cut' = IF at = "drain" THEN cut \cup {call.req} ELSE cut
      /\ notes' = [notes EXCEPT !.raised = 0, !.sent = 0, !.got = 0, !.drained = 0]
  BY DEF Destroy, Gone
<1>9. /\ told \in {"ok", "unread", "refused", "dead"}
      /\ at = "drain" => call.req \in Request
  BY DEF WireInv, ConnT, Calls, Place, InCall, Stages
<1>10. /\ told = "ok" => at = "drain" /\ did[call.req] \in Ran
       /\ told = "refused" => did[call.req] = "refused"
  BY DEF WireInv, Verdict, ConnT, Calls, InCall, Stages
<1> HIDE DEF told
<1>2. ConnT'
  BY <1>1, NewTypes DEF ConnT, NewConn, Status, Stages, Extended
<1>3. StreamT' /\ Dialogue' /\ Asked' /\ LastWord' /\ Own' /\ Verdict'
  BY <1>1, NewTypes DEF StreamT, Dialogue, Asked, LastWord, Own, Verdict, InCall, Stages,
                        Extended, Startup, NewBackend
<1>4. SrvT'
  BY <1>1, NewTypes DEF SrvT, NewBackend, Status
<1>5. BookT'
  <2>1. call.req = "none" \/ call.req \in Request
    BY DEF WireInv, ConnT, Calls
  <2>2. ends' \in [Request -> {"none", "ok", "unread", "refused", "dead", "unsent"}]
    BY <1>1, <1>9, <2>1 DEF WireInv, BookT
  <2>4. cut' \subseteq Request
    BY <1>1, <1>9 DEF WireInv, BookT
  <2>3. notes' \in [raised : Nat, sent : Nat, got : Nat, drained : Nat] /\ notes'.sent = 0 /\ notes'.raised = 0
    BY <1>1 DEF WireInv, BookT
  <2> QED
    BY <1>1, <2>2, <2>3, <2>4 DEF WireInv, BookT
<1>8. Place'
  BY <1>1, NewTypes DEF WireInv, BookT, Place, InCall, Stages, Extended, NewBackend
<1>6. Past'
  <2>1. SUFFICES ASSUME NEW r \in Request
                 PROVE  /\ ends'[r] = "ok" => did[r] \in Ran \ {"done"} \/ (did[r] = "done" /\ r \in cut')
                        /\ ends'[r] = "refused" => did[r] = "refused"
                        /\ ends'[r] = "none" /\ r # "none" => did[r] = "none"
    BY <1>1, NewTypes DEF Past
  <2>2. CASE r = call.req
    BY <2>2, <1>1, <1>9, <1>10, NewTypes DEF WireInv, BookT, Ran
  <2>3. CASE r # call.req
    BY <2>3, <1>1 DEF WireInv, BookT, Past
  <2> QED
    BY <2>2, <2>3
<1>7. Cache'
  BY <1>1, NewTypes DEF Cache, NewConn
<1> QED
  BY <1>2, <1>3, <1>4, <1>5, <1>6, <1>7, <1>8, InvParts

\* Nothing is sent, read or decided.
LEMMA QuietInv ==
  ASSUME WireInv, UNCHANGED <<call, to, wire, did, cut>>, ConnT', SrvT', BookT', Place',
         at' \in InCall <=> at \in InCall, at \in InCall => at' = at, at' \in Startup <=> at \in Startup,
         me'.prepared = me.prepared, srv'.tx = srv.tx, srv'.skip = srv.skip,
         \A n \in DOMAIN srv.stmts : n \in DOMAIN srv'.stmts /\ srv'.stmts[n].text = srv.stmts[n].text,
         \A r \in Request : ends'[r] = ends[r] \/ (ends[r] = "none" /\ ends'[r] = "unsent")
  PROVE  WireInv'
<1>1. StreamT' /\ Dialogue' /\ LastWord' /\ Own'
  BY DEF WireInv, StreamT, Dialogue, LastWord, Own
<1>2. Asked'
  BY DEF WireInv, Asked, InCall, Stages, Extended
<1>3. Verdict'
  BY DEF WireInv, Verdict
<1>4. Past'
  BY DEF WireInv, Past
<1>5. Cache'
  BY DEF WireInv, Cache, Backed
<1> QED
  BY <1>1, <1>2, <1>3, <1>4, <1>5, InvParts

LEMMA PoolInv ==
  ASSUME WireInv, Release \/ Acquire
  PROVE  WireInv'
<1>1. CASE Release /\ ~ Poolable(me)
  BY <1>1, DestroyInv DEF Release
<1>2. CASE (Release /\ Poolable(me)) \/ Acquire
  <2>1. /\ at \in {"pooled", "held"} /\ at' \in {"pooled", "held"}
        /\ UNCHANGED <<me, call, to, wire, srv, ends, did, notes, dials, cut>> /\ me.tx = "I"
    BY <1>2 DEF Release, Acquire, Poolable, WireInv, Place
  <2>2. ConnT' /\ SrvT' /\ BookT'
    BY <2>1 DEF WireInv, ConnT, SrvT, BookT, Stages, Extended
  <2>3. Place'
    BY <2>1 DEF WireInv, Place, InCall, Stages, Extended, Startup
  <2> QED
    BY <2>1, <2>2, <2>3, QuietInv DEF InCall, Stages, Extended, Startup
<1> QED
  BY <1>1, <1>2

LEMMA EncodeInv ==
  ASSUME WireInv, NEW r \in Request, NEW text \in Text, EncodeFails(r, text)
  PROVE  WireInv'
<1>1. /\ at = "held" /\ ends[r] = "none" /\ ends' = [ends EXCEPT ![r] = "unsent"]
      /\ me' = (IF text \in DOMAIN me.prepared THEN me ELSE [me EXCEPT !.seq = @ + 1])
      /\ UNCHANGED <<at, call, to, wire, srv, did, notes, dials, cut>>
  BY DEF EncodeFails
<1>2. ConnT' /\ me'.prepared = me.prepared /\ me'.tx = me.tx
  BY <1>1 DEF WireInv, ConnT
<1>3. SrvT' /\ BookT'
  BY <1>1 DEF WireInv, SrvT, BookT
<1>4. Place'
  BY <1>1, <1>2 DEF WireInv, Place, InCall, Stages, Extended
<1>5. \A x \in Request : ends'[x] = ends[x] \/ (ends[x] = "none" /\ ends'[x] = "unsent")
  BY <1>1 DEF WireInv, BookT
<1> QED
  BY <1>1, <1>2, <1>3, <1>4, <1>5, QuietInv DEF InCall, Stages, Extended

LEMMA EnvironmentInv ==
  ASSUME WireInv, Environment
  PROVE  WireInv'
<1>1. CASE CtxEnds
  <2>1. /\ me' = [me EXCEPT !.tainted = TRUE] /\ at \in InCall
        /\ UNCHANGED <<at, call, to, wire, srv, ends, did, notes, dials, cut>>
    BY <1>1 DEF CtxEnds, InCall, Stages
  <2>2. ConnT' /\ me'.prepared = me.prepared /\ me'.tx = me.tx
    BY <2>1 DEF WireInv, ConnT
  <2>3. SrvT' /\ BookT' /\ Place'
    BY <2>1, <2>2 DEF WireInv, SrvT, BookT, Place
  <2> QED
    BY <2>1, <2>2, <2>3, QuietInv
<1>2. CASE Notify
  <2>1. /\ srv.listens /\ notes' = [notes EXCEPT !.raised = @ + 1]
        /\ UNCHANGED <<at, me, call, to, wire, srv, ends, did, dials, cut>>
    BY <1>2 DEF Notify
  <2>2. ConnT' /\ SrvT'
    BY <2>1 DEF WireInv, ConnT, SrvT
  <2>3. /\ notes' \in [raised : Nat, sent : Nat, got : Nat, drained : Nat]
        /\ notes'.sent <= notes'.raised
    BY <2>1 DEF WireInv, BookT
  <2>4. BookT'
    BY <2>1, <2>3 DEF WireInv, BookT
  <2>5. Place'
    BY <2>1 DEF WireInv, Place
  <2> QED
    BY <2>1, <2>2, <2>4, <2>5, QuietInv
<1>3. CASE Reshape
  <2>1. /\ srv' = [srv EXCEPT !.stmts = [n \in DOMAIN @ |-> [@[n] EXCEPT !.stale = TRUE]]]
        /\ UNCHANGED <<at, me, call, to, wire, ends, did, notes, dials, cut>>
    BY <1>3 DEF Reshape
  <2>2. srv'.stmts = [n \in DOMAIN srv.stmts |-> [srv.stmts[n] EXCEPT !.stale = TRUE]]
    BY <2>1 DEF WireInv, SrvT
  <2>3. /\ srv'.stmts \in [DOMAIN srv'.stmts -> [text : Text, stale : BOOLEAN]]
        /\ \A n \in DOMAIN srv.stmts : n \in DOMAIN srv'.stmts /\ srv'.stmts[n].text = srv.stmts[n].text
    <3>1. ASSUME NEW n \in DOMAIN srv.stmts
          PROVE  /\ [srv.stmts[n] EXCEPT !.stale = TRUE] \in [text : Text, stale : BOOLEAN]
                 /\ [srv.stmts[n] EXCEPT !.stale = TRUE].text = srv.stmts[n].text
      <4>1. srv.stmts[n] \in [text : Text, stale : BOOLEAN]
        BY DEF WireInv, SrvT
      <4> QED
        BY <4>1
    <3> QED
      BY <2>2, <3>1
  <2>4. SrvT' /\ srv'.tx = srv.tx /\ srv'.skip = srv.skip /\ srv'.listens = srv.listens
    BY <2>1, <2>3 DEF WireInv, SrvT
  <2>5. ConnT' /\ BookT' /\ Place'
    BY <2>1, <2>4 DEF WireInv, ConnT, BookT, Place
  <2> QED
    BY <2>1, <2>3, <2>4, <2>5, QuietInv
<1>4. CASE BackendDies
  <2>1. /\ srv' = [srv EXCEPT !.live = FALSE]
        /\ UNCHANGED <<at, me, call, to, wire, ends, did, notes, dials, cut>>
    BY <1>4 DEF BackendDies
  <2>2. SrvT' /\ srv'.tx = srv.tx /\ srv'.skip = srv.skip /\ srv'.listens = srv.listens /\ srv'.stmts = srv.stmts
    BY <2>1 DEF WireInv, SrvT
  <2>3. ConnT' /\ BookT' /\ Place'
    BY <2>1, <2>2 DEF WireInv, ConnT, BookT, Place
  <2> QED
    BY <2>1, <2>2, <2>3, QuietInv
<1> QED
  BY <1>1, <1>2, <1>3, <1>4 DEF Environment

-----------------------------------------------------------------------------
(* A call begins *)

\* The write of a call: what it asks ends with the one message that asks for Ready.
LEMMA StartInv ==
  ASSUME WireInv, at = "held", NEW r \in Request, ends[r] = "none", NEW ms \in Seq(Ask), Send(ms),
         at' \in InCall \ {"drain"}, call' \in Calls, call'.req = r, call'.out = "ok",
         \A m \in On(ms) : /\ m.req = r
                           /\ m.t \in Steps \cup {"Sync", "Query"}
                           /\ m.t = "Parse" => m.name = call'.name /\ m.text = call'.text
                           /\ m.t = "Query" <=> at' = "simple",
         ms # <<>>, EndsWith(ms, IF at' = "simple" THEN "Query" ELSE "Sync"), RunsLast(ms),
         UNCHANGED <<wire, srv, ends, did, notes, cut>>, ConnT', me'.prepared = me.prepared
  PROVE  WireInv'
<1>1. to = <<>> /\ to' = ms /\ call.req = "none"
  BY ConcatEmptySeq DEF WireInv, Place, Send, InCall, Stages, Extended, NoCall
<1>2. \A m \in On(wire) : m.t = "Note"
  BY DEF WireInv, Place
<1>3. srv.skip = FALSE /\ r # "none" /\ did[r] = "none" /\ ReadyLast(wire)
  BY <1>1, WireAssumption DEF WireInv, Past, Asked, LastWord, SrvT
<1>4. StreamT' /\ SrvT' /\ BookT'
  BY <1>1 DEF WireInv, StreamT, SrvT, BookT
<1>5. Place' /\ Dialogue'
  BY <1>3 DEF Place, Dialogue, InCall, Stages, Extended, Startup
<1>6. Asked'
  BY <1>1, <1>3 DEF Asked, Stages, InCall, Extended
<1>7. LastWord' /\ Own'
  BY <1>1, <1>2, <1>3 DEF LastWord, Own
<1>8. Verdict'
  BY <1>1, <1>2, <1>3 DEF Verdict, InCall, Stages, Extended
<1>9. Past'
  BY <1>1, <1>3, WireAssumption DEF WireInv, Past
<1>10. Cache'
  BY <1>2 DEF WireInv, Cache, Backed
<1> QED
  BY <1>4, <1>5, <1>6, <1>7, <1>8, <1>9, <1>10, InvParts

\* One write of a call of Query.
Write(ms, n, r, text, name) ==
  /\ n \in Nat \ {0} /\ ms \in [1 .. n -> Ask]
  /\ \A i \in 1 .. n : /\ ms[i].t \in Steps \cup {"Sync"} /\ (ms[i].t = "Sync" <=> i = n)
                       /\ (ms[i].t = "Execute" => i = n - 1)
                       /\ ms[i].req = r /\ ms[i].text = text /\ ms[i].name = name

LEMMA Written ==
  ASSUME NEW r, NEW text, NEW name, NEW n, NEW ms, Write(ms, n, r, text, name)
  PROVE  /\ ms \in Seq(Ask) /\ ms # <<>> /\ EndsWith(ms, "Sync") /\ RunsLast(ms)
         /\ \A m \in On(ms) : m.req = r /\ m.t \in Steps \cup {"Sync"} /\ m.name = name /\ m.text = text
<1>1. ms \in Seq(Ask) /\ Len(ms) = n
  BY DEF Write
<1>2. ms # <<>>
  BY <1>1 DEF Write
<1>3. \A i \in 1 .. Len(ms) : (ms[i].t = "Sync" <=> i = Len(ms)) /\ (ms[i].t = "Execute" => i = Len(ms) - 1)
  BY <1>1 DEF Write
<1>4. \A m \in On(ms) : m.req = r /\ m.t \in Steps \cup {"Sync"} /\ m.name = name /\ m.text = text
  BY <1>1 DEF On, Write
<1> QED
  BY <1>1, <1>2, <1>3, <1>4 DEF EndsWith, RunsLast

\* The messages of one write.
LEMMA KindsOf ==
  ASSUME NEW new \in BOOLEAN
  PROVE  LET kinds == (IF new THEN <<"Parse">> ELSE <<>>) \o <<"Bind", "Describe", "Execute", "Sync">>
         IN /\ kinds \in Seq(Steps \cup {"Sync"}) /\ Len(kinds) = IF new THEN 5 ELSE 4
            /\ \A i \in 1 .. Len(kinds) :
                 kinds[i] = IF new THEN <<"Parse", "Bind", "Describe", "Execute", "Sync">>[i]
                                   ELSE <<"Bind", "Describe", "Execute", "Sync">>[i]
<1> DEFINE first == IF new THEN <<"Parse">> ELSE <<>>
           rest == <<"Bind", "Describe", "Execute", "Sync">>
<1>1. first \in Seq(Steps \cup {"Sync"}) /\ Len(first) = (IF new THEN 1 ELSE 0) /\ (new => first[1] = "Parse")
  <2>1. CASE new
    BY <2>1 DEF Steps
  <2>2. CASE ~ new
    BY <2>2
  <2> QED
    BY <2>1, <2>2
<1>2. rest \in Seq(Steps \cup {"Sync"}) /\ Len(rest) = 4
  BY DEF Steps
<1> HIDE DEF first
<1>3. /\ first \o rest \in Seq(Steps \cup {"Sync"}) /\ Len(first \o rest) = Len(first) + Len(rest)
      /\ \A i \in 1 .. Len(first) + Len(rest) :
           (first \o rest)[i] = IF i <= Len(first) THEN first[i] ELSE rest[i - Len(first)]
  BY SMTT(60), <1>1, <1>2, ConcatProperties
<1>4. ASSUME NEW i \in 1 .. Len(first) + Len(rest)
      PROVE  (first \o rest)[i] = IF new THEN <<"Parse", "Bind", "Describe", "Execute", "Sync">>[i]
                                          ELSE rest[i]
  BY <1>1, <1>2, <1>3
<1> QED
  BY <1>1, <1>2, <1>3, <1>4 DEF first

LEMMA QueryInv ==
  ASSUME WireInv, NEW r \in Request, NEW text \in Text, Query(r, text)
  PROVE  WireInv'
<1> DEFINE new == text \notin DOMAIN me.prepared
           name == IF new THEN me.seq + 1 ELSE me.prepared[text]
           kinds == (IF new THEN <<"Parse">> ELSE <<>>) \o <<"Bind", "Describe", "Execute", "Sync">>
           ms == [i \in DOMAIN kinds |-> [t |-> kinds[i], req |-> r, text |-> text, name |-> name]]
<1>1. /\ at = "held" /\ ends[r] = "none" /\ Send(ms)
      /\ me' = (IF new THEN [me EXCEPT !.seq = name] ELSE me)
      /\ call' = [req |-> r, text |-> text, name |-> name, out |-> "ok"]
      /\ at' = (IF new THEN "parse" ELSE "bind")
      /\ UNCHANGED <<wire, srv, ends, did, notes, dials, cut>>
  BY DEF Query
<1>2. name \in Nat
  BY DEF WireInv, ConnT
<1>3. ConnT' /\ me'.prepared = me.prepared
  BY <1>1, <1>2 DEF WireInv, ConnT, InCall, Stages, Extended, Calls
<1>4. /\ kinds \in Seq(Steps \cup {"Sync"}) /\ Len(kinds) = IF new THEN 5 ELSE 4
      /\ \A i \in 1 .. Len(kinds) :
           kinds[i] = IF new THEN <<"Parse", "Bind", "Describe", "Execute", "Sync">>[i]
                             ELSE <<"Bind", "Describe", "Execute", "Sync">>[i]
  BY KindsOf
<1> HIDE DEF kinds
<1>5. /\ Len(kinds) \in {4, 5} /\ DOMAIN kinds = 1 .. Len(kinds)
      /\ \A i \in 1 .. Len(kinds) : kinds[i] \in Steps \cup {"Sync"} /\ (kinds[i] = "Sync" <=> i = Len(kinds))
      /\ \A i \in 1 .. Len(kinds) : kinds[i] = "Execute" => i = Len(kinds) - 1
  <2> HIDE DEF new
  <2>1. Len(kinds) \in {4, 5} /\ DOMAIN kinds = 1 .. Len(kinds)
    BY <1>4, LenProperties
  <2>2. ASSUME NEW i \in 1 .. Len(kinds)
        PROVE  /\ kinds[i] \in Steps \cup {"Sync"} /\ (kinds[i] = "Sync" <=> i = Len(kinds))
               /\ kinds[i] = "Execute" => i = Len(kinds) - 1
    <3>1. CASE new
      <4>1. Len(kinds) = 5 /\ i \in {1, 2, 3, 4, 5}
        BY <3>1, <1>4
      <4> QED
        BY <4>1, <3>1, <1>4 DEF Steps
    <3>2. CASE ~ new
      <4>1. Len(kinds) = 4 /\ i \in {1, 2, 3, 4}
        BY <3>2, <1>4
      <4> QED
        BY <4>1, <3>2, <1>4 DEF Steps
    <3> QED
      BY <3>1, <3>2
  <2> QED
    BY Zenon, <2>1, <2>2
<1> HIDE DEF name, new
<1>6. /\ ms \in Seq(Ask) /\ ms # <<>> /\ EndsWith(ms, "Sync") /\ RunsLast(ms)
      /\ \A m \in On(ms) : m.req = r /\ m.t \in Steps \cup {"Sync"} /\ m.name = name /\ m.text = text
  <2>1. Len(kinds) \in Nat \ {0}
    BY <1>4
  <2> HIDE DEF ms
  <2>2. ms = [i \in DOMAIN kinds |-> [t |-> kinds[i], req |-> r, text |-> text, name |-> name]]
    BY DEF ms
  <2> DEFINE n == Len(kinds)
  <2>3. /\ n \in Nat \ {0} /\ DOMAIN kinds = 1 .. n
        /\ \A i \in 1 .. n : kinds[i] \in Steps \cup {"Sync"} /\ (kinds[i] = "Sync" <=> i = n)
        /\ \A i \in 1 .. n : kinds[i] = "Execute" => i = n - 1
    BY <1>5, <2>1, Zenon
  <2> HIDE DEF n
  <2>4. ms \in [1 .. n -> Ask]
    BY <1>2, <2>2, <2>3 DEF Ask, Asks
  <2>5. ASSUME NEW i \in 1 .. n
        PROVE  /\ ms[i].t \in Steps \cup {"Sync"} /\ (ms[i].t = "Sync" <=> i = n)
               /\ (ms[i].t = "Execute" => i = n - 1)
               /\ ms[i].req = r /\ ms[i].text = text /\ ms[i].name = name
    <3>1. ms[i] = [t |-> kinds[i], req |-> r, text |-> text, name |-> name]
      BY <2>2, <2>3
    <3> QED
      BY <3>1, <2>3
  <2> QED
    <3>1. Write(ms, n, r, text, name)
      BY <2>3, <2>4, <2>5 DEF Write
    <3> QED
      BY <3>1, Written
<1>9. at' \in InCall \ {"drain"} /\ at' # "simple" /\ at' \in Stages
  BY <1>1 DEF InCall, Stages, Extended
<1>10. call' \in Calls /\ call'.req = r /\ call'.out = "ok" /\ call'.name = name /\ call'.text = text
  BY <1>1, <1>2 DEF Calls
<1>11. \A m \in On(ms) : m.t \in Steps \cup {"Sync", "Query"} /\ m.t # "Query"
  BY <1>6 DEF Steps
<1> QED
  BY <1>1, <1>3, <1>6, <1>9, <1>10, <1>11, StartInv

LEMMA SimpleInv ==
  ASSUME WireInv, NEW r \in Request, NEW command \in Command, ExecSimple(r, command)
  PROVE  WireInv'
<1> DEFINE m == [t |-> "Query", req |-> r, text |-> command, name |-> 0]
<1>1. /\ at = "held" /\ ends[r] = "none" /\ Send(<<m>>) /\ at' = "simple"
      /\ call' = [NoCall EXCEPT !.req = r, !.text = command]
      /\ UNCHANGED <<me, wire, srv, ends, did, notes, dials, cut>>
  BY DEF ExecSimple
<1>2. m \in Ask /\ m.t = "Query" /\ m.req = r
  BY DEF Ask, Asks
<1>3. <<m>> \in Seq(Ask) /\ <<m>> # <<>> /\ On(<<m>>) = {m} /\ EndsWith(<<m>>, "Query") /\ RunsLast(<<m>>)
  BY <1>2 DEF On, EndsWith, RunsLast
<1>4. call' \in Calls /\ call'.req = r /\ call'.out = "ok"
  BY <1>1 DEF Calls, NoCall
<1>5. ConnT'
  BY <1>1, <1>4 DEF WireInv, ConnT, InCall, Stages, Extended
<1>6. at' \in InCall \ {"drain"} /\ at' \notin Stages
  BY <1>1 DEF InCall, Stages, Extended
<1> QED
  BY <1>1, <1>2, <1>3, <1>4, <1>5, <1>6, StartInv

-----------------------------------------------------------------------------
(* The answer is read *)

\* A message that is not Ready is taken off the wire, and the call goes on.
LEMMA ReadOnInv ==
  ASSUME WireInv, at \in InCall, wire # <<>>, Head(wire).t # "Ready", Take,
         at' \in InCall, at' = "simple" <=> at = "simple", UNCHANGED <<to, srv, ends, did, cut>>,
         call'.req = call.req, call'.text = call.text, call'.name = call.name,
         ConnT', BookT', Verdict', \A text \in DOMAIN me'.prepared : Backed(me'.prepared[text], text)
  PROVE  WireInv'
<1>1. /\ wire' = Tail(wire) /\ wire' \in Seq(Answer)
      /\ \A m \in On(wire) : m = Head(wire) \/ m \in On(wire')
      /\ \A m \in On(wire') : m \in On(wire)
      /\ ReadyLast(wire')
  BY ReadOne, ReadOrder DEF Take, WireInv, StreamT, LastWord
<1>2. StreamT' /\ SrvT'
  BY <1>1 DEF WireInv, StreamT, SrvT
<1>3. Place' /\ Dialogue'
  BY DEF WireInv, Place, Dialogue, InCall, Stages, Extended, Startup
<1>4. Asked'
  BY DEF WireInv, Asked, InCall, Stages
<1>5. LastWord'
  BY <1>1 DEF WireInv, LastWord
<1>6. Own'
  BY <1>1 DEF WireInv, Own
<1>7. Past'
  BY DEF WireInv, Past
<1>8. Cache'
  BY <1>1 DEF WireInv, Cache, Backed
<1> QED
  BY <1>2, <1>3, <1>4, <1>5, <1>6, <1>7, <1>8, InvParts

LEMMA Next1Inv ==
  ASSUME WireInv, wire # <<>>, Head(wire).t \notin {"Ready", "Error", "CopyIn"}, NEW stage, NEW conn, Next1(stage, conn),
         \/ at \in Extended /\ stage \in Extended
         \/ at = "simple" /\ stage = "simple",
         \/ conn = me
         \/ /\ Head(wire).t = "ParseComplete"
            /\ conn = [me EXCEPT !.prepared = With(@, call.text, call.name)]
  PROVE  WireInv'
<1>1. /\ at' = stage /\ me' = conn /\ wire' = Tail(wire) /\ Take
      /\ UNCHANGED <<call, to, srv, ends, did, notes, dials, cut>>
  BY DEF Next1, Take
<1>2. /\ \A m \in On(wire) : m = Head(wire) \/ m \in On(wire')
      /\ \A m \in On(wire') : m \in On(wire)
      /\ Head(wire) \in On(wire)
  BY <1>1, ReadOne DEF WireInv, StreamT
<1>3. at \in InCall /\ at' \in InCall /\ (at' = "simple" <=> at = "simple")
  BY <1>1 DEF InCall, Stages, Extended
<1>4. BookT'
  BY <1>1 DEF WireInv, BookT
<1>5. Verdict'
  BY <1>1, <1>2, <1>3 DEF WireInv, Verdict, Stages, Extended
<1>6. ConnT' /\ \A text \in DOMAIN me'.prepared : Backed(me'.prepared[text], text)
  <2>1. CASE conn = me
    BY <2>1, <1>1, <1>3 DEF WireInv, ConnT, Cache, Stages, Extended
  <2>2. CASE Head(wire).t = "ParseComplete" /\ conn = [me EXCEPT !.prepared = With(@, call.text, call.name)]
    <3>1. Backed(call.name, call.text) /\ call.name \in Nat
      BY <2>2, <1>2 DEF WireInv, Cache, ConnT, Calls
    <3>2. call.text \in Text
      BY <3>1 DEF WireInv, SrvT, Backed
    <3>3. me'.prepared = With(me.prepared, call.text, call.name)
      BY <2>2, <1>1 DEF WireInv, ConnT
    <3>4. /\ DOMAIN me'.prepared = DOMAIN me.prepared \cup {call.text} /\ me'.prepared[call.text] = call.name
          /\ \A x \in DOMAIN me.prepared : x # call.text => me'.prepared[x] = me.prepared[x]
      BY <3>3 DEF With
    <3>7. me'.prepared \in [DOMAIN me'.prepared -> Nat]
      BY <3>1, <3>3 DEF WireInv, ConnT, With
    <3>5. ConnT'
      BY <3>2, <3>4, <3>7, <2>2, <1>1, <1>3 DEF WireInv, ConnT
    <3>6. \A text \in DOMAIN me'.prepared : Backed(me'.prepared[text], text)
      BY <3>1, <3>4 DEF WireInv, Cache
    <3> QED
      BY <3>5, <3>6
  <2> QED
    BY <2>1, <2>2
<1> QED
  BY <1>1, <1>3, <1>4, <1>5, <1>6, ReadOnInv

LEMMA ToReadyInv ==
  ASSUME WireInv, at \in Extended, wire # <<>>, NEW out, ToReady(out),
         \/ Head(wire).t = "Complete" /\ out = "ok"
         \/ Head(wire).t = "Error" /\ out = "refused"
  PROVE  WireInv'
<1>1. /\ Take /\ wire' = Tail(wire) /\ at' = "drain"
      /\ call' = [call EXCEPT !.out = IF call.out = "ok" THEN out ELSE call.out]
      /\ UNCHANGED <<me, to, srv, ends, did, notes, dials, cut>>
  BY DEF ToReady, Take
<1>2. Head(wire) \in On(wire) /\ \A m \in On(wire') : m \in On(wire)
  BY <1>1, ReadOne DEF WireInv, StreamT
<1>3. at \in InCall /\ at' \in InCall /\ at # "simple" /\ at' # "simple"
  BY <1>1 DEF InCall, Stages, Extended
<1>4. BookT'
  BY <1>1 DEF WireInv, BookT
<1>5. /\ call' \in Calls /\ call'.req = call.req /\ call'.text = call.text /\ call'.name = call.name
      /\ call'.out = IF call.out = "ok" THEN out ELSE call.out
  BY <1>1 DEF WireInv, ConnT, Calls
<1>6. Verdict'
  BY <1>1, <1>2, <1>3, <1>5 DEF WireInv, Verdict, Stages, Extended
<1>7. ConnT' /\ \A text \in DOMAIN me'.prepared : Backed(me'.prepared[text], text)
  BY <1>1, <1>3, <1>5 DEF WireInv, ConnT, Cache, Stages, Extended
<1> QED
  BY <1>1, <1>3, <1>4, <1>5, <1>6, <1>7, ReadOnInv

\* Ready: what the call was told so far is what it is told.
LEMMA ToldInv ==
  ASSUME WireInv, at \in {"drain", "simple"}, wire # <<>>, Head(wire).t = "Ready", Told(call.out)
  PROVE  WireInv'
<1>1. /\ wire' = Tail(wire) /\ at' = "held" /\ me' = [me EXCEPT !.tx = Head(wire).req]
      /\ ends' = [ends EXCEPT ![call.req] = call.out] /\ call' = NoCall
      /\ UNCHANGED <<to, srv, did, notes, dials, cut>>
  BY DEF Told, Take
<1>2. /\ wire' \in Seq(Answer) /\ Head(wire) \in On(wire) /\ On(wire) = {Head(wire)} \cup On(wire')
      /\ ReadyLast(wire') /\ \A m \in On(wire') : m.t = "Note"
  BY <1>1, ReadOne, ReadOrder DEF WireInv, StreamT, LastWord
<1>3. at \in InCall /\ call.req \in Request /\ call.out \in {"ok", "unread", "refused"}
  BY DEF WireInv, Place, ConnT, Calls, InCall, Stages
<1>4. to = <<>> /\ Head(wire).req = srv.tx /\ ~ srv.skip
  BY <1>2 DEF WireInv, LastWord
<1>5. ConnT' /\ me'.tx = srv.tx /\ me'.prepared = me.prepared
  BY <1>1, <1>4, NewTypes DEF WireInv, ConnT, SrvT, Stages, Extended
<1>6. StreamT' /\ SrvT' /\ LastWord' /\ Own'
  BY <1>1, <1>2, <1>4 DEF WireInv, StreamT, SrvT, LastWord, Own, InCall, Stages, Extended
<1>7. BookT'
  BY <1>1, <1>3 DEF WireInv, BookT
<1>8. Place' /\ Dialogue' /\ Asked' /\ Verdict'
  BY <1>1, <1>2, <1>4, <1>5, NewTypes
     DEF WireInv, Place, Dialogue, Asked, Verdict, InCall, Stages, Extended, Startup, On
<1>9. Past'
  <2>1. /\ call.out = "ok" => did[call.req] \in Ran \ {"done"}
        /\ call.out = "refused" => did[call.req] = "refused"
    BY <1>2, <1>3, <1>4 DEF WireInv, Verdict, Ran, Stages
  <2> QED
    BY <2>1, <1>1, <1>3 DEF WireInv, BookT, Past
<1>10. Cache'
  BY <1>1, <1>2, <1>5 DEF WireInv, Cache, Backed
<1> QED
  BY <1>5, <1>6, <1>7, <1>8, <1>9, <1>10, InvParts

LEMMA AnswerInv ==
  ASSUME WireInv, ReadParse \/ ReadBind \/ ReadDescription \/ ReadSimple
  PROVE  WireInv'
<1>1. CASE ReadParse
  <2>1. at = "parse" /\ wire # <<>>
    BY <1>1 DEF ReadParse, Reading
  <2>2. \/ Head(wire).t = "ParseComplete" /\ Next1("bind", [me EXCEPT !.prepared = With(@, call.text, call.name)])
        \/ Head(wire).t = "Error" /\ ToReady("refused")
        \/ Destroy
    BY <1>1 DEF ReadParse, Head1
  <2> QED
    BY <2>1, <2>2, Next1Inv, ToReadyInv, DestroyInv DEF Extended
<1>2. CASE ReadBind
  <2>1. at = "bind" /\ wire # <<>>
    BY <1>2 DEF ReadBind, Reading
  <2>2. \/ Head(wire).t = "BindComplete" /\ Next1("describe", me)
        \/ Head(wire).t = "Error" /\ ToReady("refused")
        \/ Destroy
    BY <1>2 DEF ReadBind, Head1
  <2> QED
    BY <2>1, <2>2, Next1Inv, ToReadyInv, DestroyInv DEF Extended
<1>3. CASE ReadDescription
  <2>1. at = "describe" /\ wire # <<>>
    BY <1>3 DEF ReadDescription, Reading
  <2>2. \/ Head(wire).t = "RowDescription" /\ Next1("rows", me)
        \/ Head(wire).t = "Error" /\ ToReady("refused")
        \/ Destroy
    BY <1>3 DEF ReadDescription, Head1
  <2> QED
    BY <2>1, <2>2, Next1Inv, ToReadyInv, DestroyInv DEF Extended
<1>4. CASE ReadSimple
  <2>1. at = "simple" /\ wire # <<>>
    BY <1>4 DEF ReadSimple, Reading
  <2>2. \/ Head(wire).t \in {"RowDescription", "DataRow", "Complete"} /\ Next1("simple", me)
        \/ /\ Head(wire).t = "Error" /\ Take /\ call' = [call EXCEPT !.out = "refused"]
           /\ UNCHANGED <<at, me, to, srv, ends, did, notes, dials, cut>>
        \/ Head(wire).t = "Ready" /\ Told(call.out)
        \/ Destroy
    BY <1>4 DEF ReadSimple, Head1
  <2>3. CASE /\ Head(wire).t = "Error" /\ Take /\ call' = [call EXCEPT !.out = "refused"]
             /\ UNCHANGED <<at, me, to, srv, ends, did, notes, dials, cut>>
    <3>1. Head(wire) \in On(wire) /\ \A m \in On(wire') : m \in On(wire)
      BY <2>1, <2>3, ReadOne DEF WireInv, StreamT, Take
    <3>2. /\ call' \in Calls /\ call'.req = call.req /\ call'.text = call.text /\ call'.name = call.name
          /\ call'.out = "refused"
      BY <2>3 DEF WireInv, ConnT, Calls
    <3>3. ConnT' /\ BookT' /\ \A text \in DOMAIN me'.prepared : Backed(me'.prepared[text], text)
      BY <2>3, <3>2 DEF WireInv, ConnT, BookT, Cache
    <3>4. Verdict'
      BY <2>1, <2>3, <3>1, <3>2 DEF WireInv, Verdict, InCall, Stages, Extended
    <3> QED
      BY <2>1, <2>3, <3>2, <3>3, <3>4, ReadOnInv DEF InCall
  <2> QED
    BY <2>1, <2>2, <2>3, Next1Inv, ToldInv, DestroyInv
<1> QED
  BY <1>1, <1>2, <1>3, <1>4

LEMMA RowInv ==
  ASSUME WireInv, ReadRow
  PROVE  WireInv'
<1>1. at = "rows" /\ wire # <<>>
  BY DEF ReadRow, Reading
<1>2. \/ Head(wire).t = "DataRow" /\ (Next1("rows", me) \/ Destroy)
      \/ /\ Head(wire).t = "DataRow" /\ Take /\ call' = [call EXCEPT !.out = "unread"]
         /\ UNCHANGED <<at, me, to, srv, ends, did, notes, dials, cut>>
      \/ Head(wire).t = "Complete" /\ ToReady("ok")
      \/ Head(wire).t = "Error" /\ ToReady("refused")
      \/ Destroy
  BY DEF ReadRow, Head1
<1>3. CASE /\ Head(wire).t = "DataRow" /\ Take /\ call' = [call EXCEPT !.out = "unread"]
           /\ UNCHANGED <<at, me, to, srv, ends, did, notes, dials, cut>>
  <2>1. \A m \in On(wire') : m \in On(wire)
    BY <1>1, <1>3, ReadOne DEF WireInv, StreamT, Take
  <2>2. /\ call' \in Calls /\ call'.req = call.req /\ call'.text = call.text /\ call'.name = call.name
        /\ call'.out = "unread"
    BY <1>3 DEF WireInv, ConnT, Calls
  <2>3. ConnT' /\ BookT' /\ \A text \in DOMAIN me'.prepared : Backed(me'.prepared[text], text)
    BY <1>3, <2>2 DEF WireInv, ConnT, BookT, Cache
  <2>4. Verdict'
    BY <1>1, <1>3, <2>1, <2>2 DEF WireInv, Verdict, InCall, Stages, Extended
  <2> QED
    BY <1>1, <1>3, <2>2, <2>3, <2>4, ReadOnInv DEF InCall, Stages, Extended
<1> QED
  BY <1>1, <1>2, <1>3, Next1Inv, ToReadyInv, DestroyInv DEF Extended

\* Reading on past a notification, or to Ready past everything else.
LEMMA PastInv ==
  ASSUME WireInv, DeliverNotification \/ Drain
  PROVE  WireInv'
<1>1. CASE Drain /\ Head(wire).t = "Ready"
  BY <1>1, ToldInv DEF Drain, Head1
<1>2. CASE DeliverNotification \/ (Drain /\ Head(wire).t # "Ready")
  <2>1. /\ wire # <<>> /\ Head(wire).t # "Ready" /\ Take /\ at \in InCall
        /\ Head(wire).t = "Note" \/ at = "drain"
        /\ UNCHANGED <<at, me, call, to, srv, ends, did, dials, cut>>
        /\ \/ notes' = [notes EXCEPT !.got = @ + 1]
           \/ notes' = [notes EXCEPT !.drained = @ + 1]
           \/ notes' = notes
    BY <1>2 DEF DeliverNotification, Drain, Head1, InCall, Stages
  <2>2. \A m \in On(wire') : m \in On(wire)
    BY <2>1, ReadOne DEF WireInv, StreamT, Take
  <2>3. \A m \in On(wire) : m = Head(wire) \/ m \in On(wire')
    BY <2>1, ReadOne DEF WireInv, StreamT, Take
  <2>4. notes' \in [raised : Nat, sent : Nat, got : Nat, drained : Nat] /\ notes'.sent <= notes'.raised
    BY <2>1 DEF WireInv, BookT
  <2>5. ConnT' /\ BookT' /\ \A text \in DOMAIN me'.prepared : Backed(me'.prepared[text], text)
    BY <2>1, <2>4 DEF WireInv, ConnT, BookT, Cache
  <2>6. Verdict'
    BY <2>1, <2>2, <2>3 DEF WireInv, Verdict
  <2> QED
    BY <2>1, <2>5, <2>6, ReadOnInv
<1> QED
  BY <1>1, <1>2 DEF Drain

-----------------------------------------------------------------------------
(* Start-up *)

LEMMA ConnectInv ==
  ASSUME WireInv, Connect
  PROVE  WireInv'
<1>1. /\ at = "none" /\ at' = "startup" /\ to = <<>> /\ wire = <<>> /\ Send(<<Msg("Startup", "none")>>)
      /\ UNCHANGED <<me, call, wire, srv, ends, did, notes, cut>>
  BY DEF Connect, WireInv, Place
<1>2. Msg("Startup", "none") \in Ask /\ Msg("Startup", "none").t = "Startup" /\ Msg("Startup", "none").req = "none"
  BY DEF Msg, Ask, Asks, Opening
<1>3. /\ to' = <<Msg("Startup", "none")>> /\ to' \in Seq(Ask) /\ Len(to') = 1 /\ to' # <<>>
      /\ On(to') = {Msg("Startup", "none")}
  <2>1. <<Msg("Startup", "none")>> \in Seq(Ask) /\ On(<<Msg("Startup", "none")>>) = {Msg("Startup", "none")}
    BY <1>2, One
  <2> QED
    BY <1>1, <2>1, ConcatEmptySeq DEF Send
<1>4. call.req = "none" /\ call = NoCall
  BY <1>1 DEF WireInv, Place, NoCall, InCall, Stages, Extended
<1>5. ConnT' /\ StreamT' /\ SrvT' /\ BookT'
  BY <1>1, <1>3 DEF WireInv, ConnT, StreamT, SrvT, BookT, Startup, Stages, Extended
<1>6. Place'
  BY <1>1, <1>4 DEF WireInv, Place, InCall, Stages, Extended
<1>7. Dialogue' /\ LastWord' /\ Own' /\ Verdict'
  BY <1>1, <1>2, <1>3 DEF Dialogue, LastWord, Own, Verdict, On, ReadyLast, InCall, Stages, Extended, Opening
<1>8. Asked'
  BY <1>1, <1>2, <1>3, <1>4 DEF WireInv, Asked, InCall, Stages, Extended
<1>9. Past' /\ Cache'
  BY <1>1 DEF WireInv, Past, Cache, Backed
<1> QED
  BY <1>5, <1>6, <1>7, <1>8, <1>9, InvParts

\* Something is taken off the wire, and at most one message answers it.
LEMMA AnsweredInv ==
  ASSUME WireInv, at \in Startup, wire # <<>>, NEW stage \in Startup, NEW reply \in Seq(Ask),
         Answered(stage, reply),
         \/ reply = <<>>
         \/ /\ Head(wire).t \in Demand /\ Len(reply) = 1
            /\ \A m \in On(reply) : m.t \in Opening /\ m.req = "none"
  PROVE  WireInv'
<1>1. /\ wire' = Tail(wire) /\ at' = stage /\ to' = to \o reply
      /\ UNCHANGED <<me, call, srv, ends, did, notes, dials, cut>>
  BY DEF Answered, Take, Send
<1>2. /\ wire' \in Seq(Answer) /\ Len(wire') = Len(wire) - 1 /\ Head(wire) \in On(wire) /\ ReadyLast(wire')
      /\ \A m \in On(wire') : m \in On(wire)
  BY <1>1, ReadOne, ReadOrder DEF WireInv, StreamT, LastWord
<1>3. to = <<>>
  BY DEF WireInv, Dialogue
<1>4. to' = reply
  BY <1>1, <1>3, ConcatEmptySeq
<1>5. call.req = "none" /\ call = NoCall
  BY DEF WireInv, Place, NoCall, InCall, Stages, Extended, Startup
<1>6. Len(wire) \in Nat /\ (reply # <<>> => Len(wire) = 1 /\ wire' = <<>>)
  BY <1>1, <1>2, EmptySeq, LenProperties DEF WireInv, StreamT, Dialogue
<1>7. ConnT' /\ StreamT' /\ SrvT' /\ BookT'
  BY <1>1, <1>2, <1>4 DEF WireInv, ConnT, StreamT, SrvT, BookT, Stages, Extended, Startup
<1>8. Place'
  BY <1>1, <1>5 DEF WireInv, Place, InCall, Stages, Extended, Startup
<1>9. \A m \in On(to') : m.t \in Opening /\ m.req = "none"
  BY <1>4 DEF On
<1>10. Dialogue'
  <2>1. ASSUME NEW m \in On(wire'), m.t \in Demand PROVE FALSE
    <3>1. m \in On(wire) /\ Len(wire) = 1
      BY <2>1, <1>2 DEF WireInv, Dialogue
    <3>2. Len(wire') = 0
      BY <3>1, <1>2
    <3> QED
      BY <3>2 DEF On
  <2> QED
    BY <2>1, <1>4, <1>6, <1>9 DEF Dialogue
<1>11. LastWord' /\ Own' /\ Verdict'
  BY <1>1, <1>2, <1>4, <1>5, <1>6 DEF WireInv, LastWord, Own, Verdict, On, InCall, Stages, Extended, Startup
<1>12. Asked'
  BY <1>1, <1>5, <1>9 DEF WireInv, Asked, InCall, Stages, Extended, Startup, Opening
<1>13. Past' /\ Cache'
  BY <1>1, <1>2 DEF WireInv, Past, Cache, Backed
<1> QED
  BY <1>7, <1>8, <1>10, <1>11, <1>12, <1>13, InvParts

LEMMA AdmittedInv ==
  ASSUME WireInv, at = "startup", wire # <<>>, Head(wire).t = "Ready", Take, at' = "held",
         me' = [me EXCEPT !.tx = Head(wire).req], UNCHANGED <<call, to, srv, ends, did, notes, cut>>
  PROVE  WireInv'
<1>1. /\ wire' = Tail(wire) /\ wire' \in Seq(Answer) /\ Head(wire) \in On(wire) /\ ReadyLast(wire')
      /\ \A m \in On(wire') : m \in On(wire) /\ m.t = "Note"
  BY ReadOne, ReadOrder DEF Take, WireInv, StreamT, LastWord
<1>2. to = <<>> /\ Head(wire).req = srv.tx /\ ~ srv.skip /\ call = NoCall
  BY <1>1 DEF WireInv, LastWord, Place, InCall, Stages, Extended
<1>3. ConnT' /\ me'.tx = srv.tx /\ me'.prepared = me.prepared
  BY <1>2 DEF WireInv, ConnT, SrvT, Stages, Extended
<1>4. StreamT' /\ SrvT' /\ BookT'
  BY <1>1 DEF WireInv, StreamT, SrvT, BookT
<1>5. Place' /\ Dialogue' /\ Asked' /\ LastWord' /\ Own' /\ Verdict'
  BY <1>1, <1>2, <1>3
     DEF WireInv, Place, Dialogue, Asked, LastWord, Own, Verdict, InCall, Stages, Extended, Startup
<1>6. Past' /\ Cache'
  BY <1>1, <1>3 DEF WireInv, Past, Cache, Backed
<1> QED
  BY <1>3, <1>4, <1>5, <1>6, InvParts

LEMMA StartupInv ==
  ASSUME WireInv, ReadStartup \/ ReadSasl
  PROVE  WireInv'
<1>1. ASSUME NEW kind \in {"Password", "SaslFirst", "SaslFinal"}
      PROVE  /\ <<Msg(kind, "none")>> \in Seq(Ask) /\ Len(<<Msg(kind, "none")>>) = 1
             /\ \A m \in On(<<Msg(kind, "none")>>) : m.t \in Opening /\ m.req = "none"
  <2>1. Msg(kind, "none") \in Ask /\ Msg(kind, "none").t \in Opening /\ Msg(kind, "none").req = "none"
    BY DEF Msg, Ask, Asks, Opening
  <2> QED
    BY <2>1, One
<1>2. at \in Startup /\ wire # <<>> /\ <<>> \in Seq(Ask) /\ "startup" \in Startup /\ {"sasl1", "sasl2"} \subseteq Startup
  BY DEF ReadStartup, ReadSasl, Startup
<1>3. CASE ReadStartup
  <2>1. \/ Answered("startup", <<>>)
        \/ Head(wire).t = "AuthCleartext" /\ Answered("startup", <<Msg("Password", "none")>>)
        \/ Head(wire).t = "AuthSASL" /\ Answered("sasl1", <<Msg("SaslFirst", "none")>>)
        \/ /\ at = "startup" /\ Head(wire).t = "Ready" /\ Take /\ at' = "held"
           /\ me' = [me EXCEPT !.tx = Head(wire).req] /\ UNCHANGED <<call, to, srv, ends, did, notes, cut>>
        \/ Destroy
    BY <1>3 DEF ReadStartup, Head1
  <2> QED
    BY <2>1, <1>1, <1>2, AnsweredInv, AdmittedInv, DestroyInv DEF Demand
<1>4. CASE ReadSasl
  <2>1. \/ Head(wire).t = "SaslContinue" /\ Answered("sasl2", <<Msg("SaslFinal", "none")>>)
        \/ Answered("startup", <<>>)
        \/ Destroy
    BY <1>4 DEF ReadSasl, Head1
  <2> QED
    BY <2>1, <1>1, <1>2, AnsweredInv, DestroyInv DEF Demand
<1> QED
  BY <1>3, <1>4

LEMMA ReadInv ==
  ASSUME WireInv, Read
  PROVE  WireInv'
BY StartupInv, AnswerInv, RowInv, PastInv, DestroyInv DEF Read, ReadFails

-----------------------------------------------------------------------------
(* The backend *)

\* A message of start-up is answered.
LEMMA OpenInv ==
  ASSUME WireInv, at \in Startup, to # <<>>, NEW ms \in Seq(Answer), Reply(ms, srv), Quiet, ReadyLast(ms),
         \A m \in On(ms) : /\ m.t \notin {"Note", "ParseComplete"}
                           /\ m.req = IF m.t = "Ready" THEN "I" ELSE "none"
                           /\ m.t \in Demand => Len(ms) = 1
  PROVE  WireInv'
<1>1. /\ to' = Tail(to) /\ wire' = wire \o ms /\ srv' = srv
      /\ UNCHANGED <<at, me, call, ends, dials, did, notes, cut>>
  BY DEF Reply, Quiet
<1>2. wire = <<>> /\ Len(to) = 1
  BY DEF WireInv, Dialogue
<1>3. wire' = ms
  BY <1>1, <1>2, ConcatEmptySeq
<1>4. to' = <<>> /\ to' \in Seq(Ask)
  <2>1. to' \in Seq(Ask) /\ Len(to') = 0
    BY <1>1, <1>2, ReadOne DEF WireInv, StreamT
  <2> QED
    BY <2>1, EmptySeq
<1>5. call.req = "none" /\ call = NoCall /\ srv.tx = "I" /\ ~ srv.skip
  BY DEF WireInv, Place, NoCall, InCall, Stages, Extended, Startup
<1>6. ConnT' /\ StreamT' /\ SrvT' /\ BookT'
  BY <1>1, <1>3, <1>4 DEF WireInv, ConnT, StreamT, SrvT, BookT
<1>7. Place'
  BY <1>1 DEF WireInv, Place, Startup
<1>8. Dialogue' /\ Own'
  BY <1>1, <1>3, <1>4, <1>5, NewTypes DEF Dialogue, Own
<1>10. LastWord' /\ Verdict'
  BY <1>1, <1>3, <1>4, <1>5 DEF LastWord, Verdict, InCall, Stages, Extended, Startup
<1>11. Asked'
  BY <1>1, <1>4, <1>5, NewTypes DEF Asked, InCall, Stages, Extended, Startup
<1>9. Past' /\ Cache'
  BY <1>1, <1>3 DEF WireInv, Past, Cache, Backed
<1> QED
  BY <1>6, <1>7, <1>8, <1>9, <1>10, <1>11, InvParts

LEMMA HeadOf ==
  ASSUME WireInv, to # <<>>
  PROVE  /\ Head(to) \in On(to) /\ Head(to).req = call.req
         /\ Head(to).t \in Opening => at \in Startup
         /\ Head(to).t \in Steps => at \in Stages
         /\ Head(to).t = "Sync" => at \in Stages
         /\ Head(to).t = "Query" => at = "simple"
<1>1. Head(to) \in On(to)
  BY ReadOne DEF WireInv, StreamT
<1>2. at \in Startup \/ at \in Stages \/ at = "simple"
  BY DEF WireInv, ConnT, Place, InCall
<1> QED
  BY <1>1, <1>2 DEF WireInv, Asked, Dialogue, Opening, Steps

LEMMA AuthInv ==
  ASSUME WireInv, Authenticate
  PROVE  WireInv'
<1> DEFINE in == <<Msg("AuthOK", "none"), Msg("KeyData", "none"), Msg("Ready", "I")>>
           Fit(ms) == /\ ms \in Seq(Answer) /\ ReadyLast(ms)
                      /\ \A m \in On(ms) : /\ m.t \notin {"Note", "ParseComplete"}
                                           /\ m.req = IF m.t = "Ready" THEN "I" ELSE "none"
                                           /\ m.t \in Demand => Len(ms) = 1
<1>1. to # <<>> /\ Head(to).t \in Opening /\ Quiet
  BY DEF Authenticate, Next2, Opening
<1>2. at \in Startup
  BY <1>1, HeadOf
<1>3. ASSUME NEW t \in Answers \ {"Ready", "Note", "ParseComplete"}
      PROVE  Fit(<<Msg(t, "none")>>)
  BY Messages, One
<1>4. /\ Msg("AuthOK", "none") \in Answer /\ Msg("KeyData", "none") \in Answer /\ Msg("Ready", "I") \in Answer
      /\ Msg("AuthOK", "none").t = "AuthOK" /\ Msg("AuthOK", "none").req = "none"
      /\ Msg("KeyData", "none").t = "KeyData" /\ Msg("KeyData", "none").req = "none"
      /\ Msg("Ready", "I").t = "Ready" /\ Msg("Ready", "I").req = "I"
  BY Messages DEF Answers, Status
<1>5. Fit(in)
  <2>1. in \in Seq(Answer) /\ Len(in) = 3 /\ in[1] = Msg("AuthOK", "none") /\ in[2] = Msg("KeyData", "none")
    BY <1>4
  <2>2. ReadyLast(in)
    BY <2>1, <1>4 DEF ReadyLast
  <2>3. On(in) = {Msg("AuthOK", "none"), Msg("KeyData", "none"), Msg("Ready", "I")}
    BY <1>4, Three
  <2> HIDE DEF in
  <2> QED
    BY <2>1, <2>2, <2>3, <1>4 DEF Demand
<1>6. ASSUME NEW proof \in {"SaslVerified", "SaslForged"}
      PROVE  Fit(<<Msg(proof, "none")>> \o in)
  <2> DEFINE first == <<Msg(proof, "none")>>
  <2>1. Fit(first) /\ \A m \in On(first) : m.t = proof
    <3>1. Msg(proof, "none") \in Answer /\ Msg(proof, "none").t = proof
      BY Messages DEF Answers
    <3> QED
      BY <3>1, <1>3, One DEF Answers
  <2>2. \A m \in On(in) : m.t \notin Demand
    <3>1. On(in) = {Msg("AuthOK", "none"), Msg("KeyData", "none"), Msg("Ready", "I")}
      BY <1>4, Three
    <3> QED
      BY <3>1, <1>4 DEF Demand
  <2> HIDE DEF first, in
  <2>3. first \o in \in Seq(Answer) /\ On(first \o in) = On(first) \cup On(in) /\ ReadyLast(first \o in)
    BY <2>1, <1>5, WriteMore
  <2> QED
    BY <2>1, <2>2, <2>3, <1>5 DEF first, Demand
<1>7. \E ms : Fit(ms) /\ Reply(ms, srv)
  <2> HIDE DEF Fit, in
  <2> QED
    BY <1>3, <1>5, <1>6 DEF Authenticate, Answers, Demand, in
<1> QED
  BY <1>1, <1>2, <1>7, OpenInv

\* A message of the call is read that is not its last: what is answered does
\* not end the call.
LEMMA ReplyInv ==
  ASSUME WireInv, at \in Stages, to # <<>>, Head(to).t # "Sync", NEW ms \in Seq(Answer), NEW backend,
         Reply(ms, backend), UNCHANGED notes, SrvT', BookT', Verdict',
         \A m \in On(ms) : m.t \notin {"Ready", "Note"} /\ m.req = call.req,
         \A n \in DOMAIN srv.stmts : n \in DOMAIN srv'.stmts /\ srv'.stmts[n].text = srv.stmts[n].text,
         \A m \in On(ms) : m.t = "ParseComplete" => Backed(call.name, call.text)',
         \A r \in Request : r # call.req => did'[r] = did[r]
  PROVE  WireInv'
<1>1. /\ to' = Tail(to) /\ wire' = wire \o ms /\ srv' = backend
      /\ UNCHANGED <<at, me, call, ends, dials, notes, cut>>
  BY DEF Reply
<1>2. /\ to' \in Seq(Ask) /\ to' # <<>> /\ EndsWith(to', "Sync") /\ RunsLast(to')
      /\ \A m \in On(to') : m \in On(to)
  BY <1>1, ReadOne, ReadOrder DEF WireInv, StreamT, Asked
<1>3. \A m \in On(wire) : m.t # "Ready"
  BY DEF WireInv, LastWord
<1>4. wire' \in Seq(Answer) /\ On(wire') = On(wire) \cup On(ms) /\ ReadyLast(wire')
  <2>1. ReadyLast(ms)
    BY DEF ReadyLast, On
  <2> QED
    BY <1>1, <1>3, <2>1, WriteMore DEF WireInv, StreamT
<1>5. ConnT' /\ StreamT'
  BY <1>1, <1>2, <1>4 DEF WireInv, ConnT, StreamT
<1>6. Place' /\ Dialogue'
  BY <1>1 DEF WireInv, Place, Dialogue, InCall, Stages, Extended, Startup
<1>7. Asked'
  BY <1>1, <1>2 DEF WireInv, Asked, Stages, Extended
<1>8. LastWord' /\ Own'
  BY <1>1, <1>2, <1>3, <1>4 DEF WireInv, LastWord, Own
<1>9. Past'
  <2>1. call.req \in Request /\ ends[call.req] = "none"
    BY DEF WireInv, Place, ConnT, Calls, InCall
  <2> QED
    BY <2>1, <1>1 DEF WireInv, Past
<1>10. Cache'
  BY <1>1, <1>4 DEF WireInv, Cache, Backed
<1> QED
  BY <1>5, <1>6, <1>7, <1>8, <1>9, <1>10, InvParts

\* What the verdict needs of such a step, when the step decides nothing.
LEMMA UndecidedInv ==
  ASSUME WireInv, at \in Stages, to # <<>>, NEW ms \in Seq(Answer), NEW backend,
         Head(to).t # "Sync", Reply(ms, backend), UNCHANGED did, srv'.skip = srv.skip,
         \A m \in On(ms) : m.t \notin {"Ready", "Note", "Complete", "Error"}
  PROVE  Verdict'
<1>1. /\ to' = Tail(to) /\ wire' = wire \o ms /\ UNCHANGED <<at, call, did>>
  BY DEF Reply
<1>2. \A m \in On(to') : m \in On(to)
  BY <1>1, ReadOne DEF WireInv, StreamT
<1>5. to' # <<>>
  <2>1. to \in Seq(Ask) /\ EndsWith(to, "Sync")
    BY DEF WireInv, StreamT, Asked
  <2> QED
    BY <2>1, <1>1, ReadOrder
<1>3. On(wire') = On(wire) \cup On(ms)
  BY <1>1, WriteMore DEF WireInv, StreamT
<1>4. at # "simple"
  BY DEF Stages, Extended
<1> QED
  BY <1>1, <1>2, <1>3, <1>4, <1>5 DEF WireInv, Verdict

\* ... and when it decides.
LEMMA DecidedInv ==
  ASSUME WireInv, at \in Stages, to # <<>>, Head(to).t # "Sync", ~ srv.skip,
         NEW ms \in Seq(Answer), NEW backend, NEW what \in {"done", "pending", "refused"},
         Reply(ms, backend), Did(call.req, what),
         srv'.skip \/ \A m \in On(to') : m.t = "Sync",
         \A m \in On(ms) : /\ m.t = "Complete" => what # "refused"
                           /\ m.t = "Error" => what = "refused"
  PROVE  Verdict'
<1>1. /\ to' = Tail(to) /\ wire' = wire \o ms /\ UNCHANGED <<at, call>>
  BY DEF Reply
<1>2. On(wire') = On(wire) \cup On(ms)
  BY <1>1, WriteMore DEF WireInv, StreamT
<1>3. call.req \in Request /\ did'[call.req] = what
  BY DEF WireInv, Place, ConnT, BookT, Calls, InCall, Did
<1>4. at # "simple" /\ at \in InCall
  BY DEF InCall, Stages, Extended
<1>5. Head(to) \in On(to)
  BY ReadOne DEF WireInv, StreamT
<1>6. did[call.req] = "none"
  BY <1>4, <1>5 DEF WireInv, Verdict
<1>7. to' # <<>>
  BY <1>1, ReadOrder DEF WireInv, StreamT, Asked
<1> QED
  BY <1>1, <1>2, <1>3, <1>4, <1>6, <1>7 DEF WireInv, Verdict, BookT, Ran

LEMMA SkipInv ==
  ASSUME WireInv, Skip
  PROVE  WireInv'
<1>1. /\ to # <<>> /\ srv.skip /\ Head(to).t # "Sync" /\ Reply(<<>>, srv) /\ UNCHANGED <<did, notes>>
  BY DEF Skip, Quiet
<1>2. at \in Stages
  BY <1>1 DEF WireInv, Asked
<1>3. srv' = srv /\ ends' = ends /\ cut' = cut
  BY <1>1 DEF Reply
<1>4. <<>> \in Seq(Answer) /\ On(<<>>) = {}
  BY NewTypes
<1>5. SrvT' /\ BookT'
  BY <1>1, <1>3 DEF WireInv, SrvT, BookT
<1>6. Verdict'
  BY <1>1, <1>2, <1>3, <1>4, UndecidedInv
<1> QED
  BY <1>1, <1>2, <1>3, <1>4, <1>5, <1>6, ReplyInv

LEMMA AnswersTyped ==
  ASSUME WireInv, NEW t \in Answers
  PROVE  /\ Msg(t, call.req) \in Answer /\ Msg(t, call.req).t = t /\ Msg(t, call.req).req = call.req
         /\ <<Msg(t, call.req)>> \in Seq(Answer) /\ On(<<Msg(t, call.req)>>) = {Msg(t, call.req)}
BY Messages, One DEF WireInv, ConnT, Calls

\* The backend refuses a message of the extended protocol.
LEMMA RefuseInv ==
  ASSUME WireInv, at \in Stages, to # <<>>, Head(to).t # "Sync", ~ srv.skip,
         Refuse(call.req, [srv EXCEPT !.skip = TRUE])
  PROVE  WireInv'
<1> DEFINE e == Msg("Error", call.req)
           b == Aborted([srv EXCEPT !.skip = TRUE])
<1>1. Did(call.req, "refused") /\ UNCHANGED notes /\ Reply(<<e>>, b)
  BY DEF Refuse
<1>2. srv' = b /\ UNCHANGED <<at, call, ends>>
  BY <1>1 DEF Reply
<1>3. SrvT' /\ srv'.skip /\ srv'.stmts = srv.stmts
  BY <1>2 DEF WireInv, SrvT, Aborted, Status
<1>4. BookT' /\ \A r \in Request : r # call.req => did'[r] = did[r]
  BY <1>1, <1>2 DEF WireInv, BookT, Did, Reply, Deeds
<1>5. <<e>> \in Seq(Answer) /\ \A m \in On(<<e>>) : m.t = "Error" /\ m.req = call.req
  <2>1. /\ e \in Answer /\ e.t = "Error" /\ e.req = call.req
        /\ <<e>> \in Seq(Answer) /\ On(<<e>>) = {e}
    BY AnswersTyped DEF Answers
  <2> QED
    BY <2>1
<1> HIDE DEF e, b
<1>6. Verdict'
  BY <1>1, <1>3, <1>5, DecidedInv
<1> QED
  BY <1>1, <1>3, <1>4, <1>5, <1>6, ReplyInv

LEMMA ParseInv ==
  ASSUME WireInv, Parse
  PROVE  WireInv'
<1> DEFINE p == Head(to)
           c == Msg("ParseComplete", call.req)
<1>1. to # <<>> /\ p.t = "Parse" /\ ~ srv.skip
  BY DEF Parse, Next2
<1>2. at \in Stages /\ p.req = call.req /\ p.name = call.name /\ p.text = call.text
  BY <1>1, HeadOf DEF WireInv, Asked, Steps
<1>3. CASE Refuse(p.req, [srv EXCEPT !.skip = TRUE])
  BY <1>1, <1>2, <1>3, RefuseInv
<1>4. CASE /\ p.name \notin DOMAIN srv.stmts /\ Quiet
           /\ Reply(<<c>>, [srv EXCEPT !.stmts = With(@, p.name, [text |-> p.text, stale |-> FALSE])])
  <2>1. /\ srv' = [srv EXCEPT !.stmts = With(@, p.name, [text |-> p.text, stale |-> FALSE])]
        /\ UNCHANGED <<at, me, call, ends, did, notes, cut>>
    BY <1>4 DEF Reply, Quiet
  <2>2. srv'.stmts = With(srv.stmts, call.name, [text |-> call.text, stale |-> FALSE])
    BY <2>1, <1>2 DEF WireInv, SrvT
  <2>3. call.text \in Text /\ call.name \notin DOMAIN srv.stmts
    BY <1>2, <1>4 DEF WireInv, ConnT
  <2>4. /\ srv'.stmts \in [DOMAIN srv'.stmts -> [text : Text, stale : BOOLEAN]]
        /\ \A n \in DOMAIN srv.stmts : n \in DOMAIN srv'.stmts /\ srv'.stmts[n].text = srv.stmts[n].text
        /\ call.name \in DOMAIN srv'.stmts /\ srv'.stmts[call.name].text = call.text
    BY <2>2, <2>3 DEF WireInv, SrvT, With
  <2>5. SrvT' /\ srv'.skip = srv.skip
    BY <2>1, <2>4 DEF WireInv, SrvT
  <2>6. BookT' /\ Backed(call.name, call.text)'
    BY <2>1, <2>4 DEF WireInv, BookT, Backed
  <2>7. c \in Answer /\ c.t = "ParseComplete" /\ c.req = call.req /\ <<c>> \in Seq(Answer) /\ On(<<c>>) = {c}
    BY AnswersTyped DEF Answers
  <2>8. \A m \in On(<<c>>) : m.t = "ParseComplete" /\ m.req = call.req
    BY <2>7
  <2> HIDE DEF c
  <2>9. Verdict'
    BY <1>1, <1>2, <1>4, <2>1, <2>5, <2>7, <2>8, UndecidedInv
  <2> QED
    BY <1>1, <1>2, <1>4, <2>1, <2>4, <2>5, <2>6, <2>7, <2>8, <2>9, ReplyInv
<1> QED
  BY <1>1, <1>2, <1>3, <1>4 DEF Parse

LEMMA OneMoreInv ==
  ASSUME WireInv, at \in Stages, to # <<>>, Head(to).t # "Sync", NEW t \in {"BindComplete", "RowDescription"},
         Quiet, Reply(<<Msg(t, call.req)>>, srv)
  PROVE  WireInv'
<1> DEFINE c == Msg(t, call.req)
<1>1. UNCHANGED <<at, me, call, srv, ends, did, notes, cut>>
  BY DEF Reply, Quiet
<1>2. SrvT' /\ BookT'
  BY <1>1 DEF WireInv, SrvT, BookT
<1>3. <<c>> \in Seq(Answer) /\ \A m \in On(<<c>>) : m.t = t /\ m.req = call.req
  <2>1. c.t = t /\ c.req = call.req /\ <<c>> \in Seq(Answer) /\ On(<<c>>) = {c}
    BY AnswersTyped DEF Answers
  <2> QED
    BY <2>1
<1>4. Reply(<<c>>, srv)
  OBVIOUS
<1> HIDE DEF c
<1>5. Verdict'
  BY <1>1, <1>3, <1>4, UndecidedInv
<1> QED
  BY <1>1, <1>2, <1>3, <1>4, <1>5, ReplyInv

LEMMA BindInv ==
  ASSUME WireInv, BindPortal \/ Describe
  PROVE  WireInv'
<1>1. to # <<>> /\ Head(to).t \in {"Bind", "Describe"} /\ ~ srv.skip
  BY DEF BindPortal, Describe, Next2
<1>2. at \in Stages /\ Head(to).req = call.req
  BY <1>1, HeadOf DEF Steps
<1>3. \/ Refuse(call.req, [srv EXCEPT !.skip = TRUE])
      \/ Quiet /\ Reply(<<Msg("BindComplete", call.req)>>, srv)
      \/ Quiet /\ Reply(<<Msg("RowDescription", call.req)>>, srv)
  BY <1>2 DEF BindPortal, Describe
<1> QED
  BY <1>1, <1>2, <1>3, RefuseInv, OneMoreInv

LEMMA ExecuteInv ==
  ASSUME WireInv, Execute
  PROVE  WireInv'
<1>1. to # <<>> /\ Head(to).t = "Execute" /\ ~ srv.skip
  BY DEF Execute, Next2
<1>2. at \in Stages /\ Head(to).req = call.req
  BY <1>1, HeadOf DEF Steps
<1>3. PICK rows \in {<<>>, <<Msg("DataRow", call.req)>>} :
        \/ /\ Did(call.req, IF srv.tx = "T" THEN "pending" ELSE "done") /\ UNCHANGED notes
           /\ Reply(rows \o <<Msg("Complete", call.req)>>, srv)
        \/ /\ Did(call.req, "refused") /\ UNCHANGED notes
           /\ Reply(rows \o <<Msg("Error", call.req)>>, Aborted([srv EXCEPT !.skip = TRUE]))
  BY <1>2 DEF Execute
<1>4. rows \in Seq(Answer) /\ \A m \in On(rows) : m.t = "DataRow" /\ m.req = call.req
  <2>1. <<Msg("DataRow", call.req)>> \in Seq(Answer) /\ On(<<Msg("DataRow", call.req)>>) = {Msg("DataRow", call.req)}
        /\ Msg("DataRow", call.req).t = "DataRow" /\ Msg("DataRow", call.req).req = call.req
    BY AnswersTyped DEF Answers
  <2> QED
    BY <2>1, NewTypes
<1>5. ASSUME NEW t \in {"Complete", "Error"}
      PROVE  /\ rows \o <<Msg(t, call.req)>> \in Seq(Answer)
             /\ \A m \in On(rows \o <<Msg(t, call.req)>>) : m.t \in {"DataRow", t} /\ m.req = call.req
  <2> DEFINE last == <<Msg(t, call.req)>>
  <2>1. last \in Seq(Answer) /\ \A m \in On(last) : m.t = t /\ m.req = call.req
    <3>1. /\ last \in Seq(Answer) /\ On(last) = {Msg(t, call.req)}
          /\ Msg(t, call.req).t = t /\ Msg(t, call.req).req = call.req
      BY AnswersTyped DEF Answers
    <3> QED
      BY <3>1
  <2> HIDE DEF last
  <2>2. rows \o last \in Seq(Answer) /\ On(rows \o last) = On(rows) \cup On(last)
    BY <2>1, <1>4, WriteMore
  <2> QED
    BY <2>1, <2>2, <1>4 DEF last
<1>6. PICK what \in {"done", "pending", "refused"}, t \in {"Complete", "Error"}, b \in {srv, Aborted([srv EXCEPT !.skip = TRUE])} :
        /\ Did(call.req, what) /\ UNCHANGED notes /\ Reply(rows \o <<Msg(t, call.req)>>, b)
        /\ (t = "Complete" => what # "refused") /\ (t = "Error" => what = "refused")
  BY <1>3
<1> DEFINE ms == rows \o <<Msg(t, call.req)>>
<1>7. srv' = b /\ to' = Tail(to) /\ UNCHANGED <<at, call, ends>>
  BY <1>6 DEF Reply
<1>8. \A m \in On(to') : m.t = "Sync"
  BY <1>1, <1>2, <1>7, ReadOrder DEF WireInv, StreamT, Asked
<1>9. SrvT' /\ srv'.stmts = srv.stmts
  BY <1>7 DEF WireInv, SrvT, Aborted, Status
<1>10. BookT' /\ \A r \in Request : r # call.req => did'[r] = did[r]
  BY <1>6, <1>7 DEF WireInv, BookT, Did, Reply, Deeds, Ran
<1>11. ms \in Seq(Answer) /\ Reply(ms, b) /\ \A m \in On(ms) : m.t \in {"DataRow", t} /\ m.req = call.req
  BY <1>5, <1>6
<1> HIDE DEF ms
<1>12. Verdict'
  BY <1>1, <1>2, <1>6, <1>8, <1>11, DecidedInv
<1> QED
  BY <1>1, <1>2, <1>6, <1>9, <1>10, <1>11, <1>12, ReplyInv

\* The notifications that go out in one batch.
LEMMA Batch ==
  ASSUME WireInv, NEW ready \in BOOLEAN
  PROVE  LET out == IF ready THEN [i \in 1 .. Waiting |-> Msg("Note", "none")] ELSE <<>>
         IN /\ out \in Seq(Answer) /\ Len(out) = IF ready THEN Waiting ELSE 0
            /\ \A m \in On(out) : m.t = "Note"
<1> DEFINE c == Msg("Note", "none")
           n == Waiting
           all == [i \in 1 .. n |-> c]
           out == IF ready THEN all ELSE <<>>
<1>1. c \in Answer /\ c.t = "Note"
  BY Messages DEF Answers
<1>2. n \in Nat
  BY DEF WireInv, BookT, Waiting
<1> HIDE DEF c, n
<1>3. all \in Seq(Answer) /\ Len(all) = n /\ \A i \in 1 .. n : all[i] = c
  BY <1>1, <1>2
<1> HIDE DEF all
<1>4. \A m \in On(all) : m.t = "Note"
  BY <1>1, <1>3 DEF On
<1>5. out \in Seq(Answer) /\ Len(out) = (IF ready THEN n ELSE 0) /\ \A m \in On(out) : m.t = "Note"
  BY <1>3, <1>4, NewTypes
<1> QED
  BY <1>5 DEF all, n, c

\* The last message of a call is read: what is answered ends with Ready.
LEMMA IdleInv ==
  ASSUME WireInv, at \in InCall, to # <<>>, Tail(to) = <<>>,
         NEW ms \in Seq(Answer), NEW backend, ToIdle(ms, backend),
         SrvT', ~ srv'.skip, srv'.stmts = srv.stmts, did' \in [Request -> Deeds],
         \A r \in Request : r # call.req => did'[r] = did[r],
         \A m \in On(ms) : m.t \notin {"Ready", "Note", "ParseComplete"} /\ m.req = call.req,
         \/ /\ at # "simple" /\ \A m \in On(ms) : m.t = "CommitError"
            /\ \/ did[call.req] # "done" /\ UNCHANGED did
               \/ did[call.req] = "done" /\ did'[call.req] \in {"kept", "undone"}
         \/ /\ at = "simple" /\ did'[call.req] # "none"
            /\ \A m \in On(ms) : /\ m.t = "Complete" => did'[call.req] = "kept"
                                 /\ m.t = "Error" => did'[call.req] = "refused"
            /\ did'[call.req] = "kept" \/ \E m \in On(ms) : m.t \in {"Error", "CopyIn"}
  PROVE  WireInv'
<1> DEFINE out == IF backend.tx = "I" THEN [i \in 1 .. Waiting |-> Msg("Note", "none")] ELSE <<>>
           last == <<Msg("Ready", backend.tx)>>
<1>1. /\ to' = <<>> /\ srv' = backend /\ wire' = wire \o ((ms \o out) \o last)
      /\ notes' = [notes EXCEPT !.sent = @ + Len(out)]
      /\ UNCHANGED <<at, me, call, ends, dials, cut>>
  BY DEF ToIdle, Reply
<1>2. /\ out \in Seq(Answer) /\ Len(out) = (IF backend.tx = "I" THEN Waiting ELSE 0)
      /\ \A m \in On(out) : m.t = "Note"
  BY Batch
<1>3. last \in Seq(Answer) /\ ReadyLast(last) /\ \A m \in On(last) : m.t = "Ready" /\ m.req = srv'.tx
  <2>1. Msg("Ready", backend.tx) \in Answer /\ Msg("Ready", backend.tx).t = "Ready"
        /\ Msg("Ready", backend.tx).req = backend.tx
    <3>1. backend.tx \in Status
      BY <1>1 DEF SrvT
    <3>2. "Ready" \in Answers
      BY DEF Answers
    <3> QED
      BY <3>1, <3>2, Messages
  <2> QED
    BY <2>1, <1>1, One
<1>4. \E m \in On(last) : m.t = "Ready"
  BY <1>3, One DEF On
<1> HIDE DEF out, last
<1> DEFINE body == ms \o out
           more == body \o last
<1>5. body \in Seq(Answer) /\ On(body) = On(ms) \cup On(out)
  BY <1>2, WriteMore
<1>6. \A m \in On(body) : m.t # "Ready"
  BY <1>2, <1>5
<1> HIDE DEF body
<1>7. more \in Seq(Answer) /\ On(more) = On(body) \cup On(last) /\ ReadyLast(more)
  BY <1>3, <1>5, <1>6, WriteMore
<1> HIDE DEF more
<1>8. \A m \in On(wire) : m.t # "Ready"
  BY DEF WireInv, LastWord
<1>9. wire' = wire \o more
  BY <1>1 DEF more, body
<1>10. /\ wire' \in Seq(Answer) /\ ReadyLast(wire')
       /\ On(wire') = On(wire) \cup On(ms) \cup On(out) \cup On(last)
  BY <1>5, <1>7, <1>8, <1>9, WriteMore DEF WireInv, StreamT
<1>11. On(to') = {} /\ to' \in Seq(Ask)
  BY <1>1, NewTypes
<1>12. ConnT' /\ StreamT'
  BY <1>1, <1>10, <1>11 DEF WireInv, ConnT, StreamT
<1>13. BookT'
  <2>1. notes.sent \in Nat /\ notes.raised \in Nat /\ Waiting \in Nat /\ notes.sent + Waiting = notes.raised
    BY DEF WireInv, BookT, Waiting
  <2>2. Len(out) \in Nat /\ notes.sent + Len(out) <= notes.raised
    BY <2>1, <1>2
  <2>3. /\ notes' \in [raised : Nat, sent : Nat, got : Nat, drained : Nat] /\ notes'.sent <= notes'.raised
    <3> DEFINE k == notes.sent + Len(out)
    <3>1. k \in Nat /\ k <= notes.raised
      BY <2>1, <2>2
    <3>2. notes' = [notes EXCEPT !.sent = k]
      BY <1>1
    <3> HIDE DEF k
    <3> QED
      BY <3>1, <3>2 DEF WireInv, BookT
  <2> QED
    BY <2>3, <1>1 DEF WireInv, BookT
<1>14. Place' /\ Dialogue'
  BY <1>1 DEF WireInv, Place, Dialogue, InCall, Stages, Extended, Startup
<1>15. Asked'
  BY <1>1, <1>11 DEF Asked, EndsWith, RunsLast
<1>16. LastWord'
  BY <1>1, <1>2, <1>3, <1>4, <1>8, <1>10 DEF LastWord
<1>17. Own'
  BY <1>1, <1>2, <1>3, <1>10 DEF WireInv, Own
<1>18. Verdict'
  <2>1. CASE at # "simple"
    <3>1. /\ did'[call.req] # "done" /\ (did[call.req] \in Ran => did'[call.req] \in Ran)
          /\ did[call.req] = "refused" => did'[call.req] = "refused"
      BY <2>1 DEF Ran
    <3>2. \A m \in On(wire') : m.t \in {"Complete", "Error"} => m \in On(wire)
      BY <2>1, <1>2, <1>3, <1>10
    <3> QED
      BY <2>1, <3>1, <3>2, <1>1, <1>11 DEF WireInv, Verdict
  <2>2. CASE at = "simple" /\ did'[call.req] # "none"
    <3>1. did[call.req] = "none"
      <4>1. Head(to) \in On(to) /\ Head(to).t = "Query" /\ ~ srv.skip
        BY <2>2, ReadOne DEF WireInv, StreamT, Asked, Stages, Extended
      <4> QED
        BY <4>1 DEF WireInv, Verdict
    <3> QED
      BY <2>2, <3>1, <1>1, <1>2, <1>3, <1>10, <1>11 DEF WireInv, Verdict, Stages, Extended, Ran
  <2> QED
    BY <2>1, <2>2
<1>19. Past'
  <2>1. call.req \in Request /\ ends[call.req] = "none"
    BY DEF WireInv, Place, ConnT, Calls, InCall
  <2> QED
    BY <2>1, <1>1 DEF WireInv, Past
<1>20. Cache'
  BY <1>1, <1>2, <1>3, <1>10 DEF WireInv, Cache, Backed
<1> QED
  BY <1>12, <1>13, <1>14, <1>15, <1>16, <1>17, <1>18, <1>19, <1>20, InvParts

LEMMA SyncInv ==
  ASSUME WireInv, Sync
  PROVE  WireInv'
<1> DEFINE b == [srv EXCEPT !.skip = FALSE]
           e == <<Msg("CommitError", call.req)>>
<1>1. to # <<>> /\ Head(to).t = "Sync"
  BY DEF Sync, Next2
<1>2. at \in Stages /\ Head(to).req = call.req
  BY <1>1, HeadOf
<1>3. PICK ms \in {<<>>, e} :
        /\ ToIdle(ms, b)
        /\ \/ did[call.req] # "done" /\ UNCHANGED did
           \/ did[call.req] = "done" /\ (Did(call.req, "kept") \/ Did(call.req, "undone"))
  BY <1>2 DEF Sync
<1>4. Tail(to) = <<>>
  BY <1>1, <1>2, ReadOrder DEF WireInv, StreamT, Asked
<1>5. srv' = b
  BY <1>3 DEF ToIdle, Reply
<1>6. SrvT' /\ ~ srv'.skip /\ srv'.stmts = srv.stmts
  BY <1>5 DEF WireInv, SrvT
<1>7. at \in InCall /\ at # "simple" /\ call.req \in Request
  BY <1>2 DEF WireInv, Place, ConnT, Calls, InCall, Stages, Extended
<1>8. /\ did' \in [Request -> Deeds] /\ \A r \in Request : r # call.req => did'[r] = did[r]
      /\ \/ did[call.req] # "done" /\ UNCHANGED did
         \/ did[call.req] = "done" /\ did'[call.req] \in {"kept", "undone"}
  BY <1>3, <1>7 DEF WireInv, BookT, Did, Deeds, Ran
<1>9. ms \in Seq(Answer) /\ \A m \in On(ms) : m.t = "CommitError" /\ m.req = call.req
  <2>1. /\ e \in Seq(Answer) /\ On(e) = {Msg("CommitError", call.req)}
        /\ Msg("CommitError", call.req).t = "CommitError" /\ Msg("CommitError", call.req).req = call.req
    BY AnswersTyped DEF Answers
  <2> QED
    BY <2>1, <1>3, NewTypes
<1> HIDE DEF b, e
<1> QED
  BY <1>1, <1>3, <1>4, <1>6, <1>7, <1>8, <1>9, IdleInv

LEMMA SimpleQueryInv ==
  ASSUME WireInv, SimpleQuery
  PROVE  WireInv'
<1> DEFINE q == Head(to)
           r == call.req
<1>1. to # <<>> /\ q.t = "Query"
  BY DEF SimpleQuery, Next2
<1>2. at = "simple" /\ q.req = r /\ r \in Request
  BY <1>1, HeadOf DEF WireInv, Place, ConnT, Calls, InCall
<1>3. Tail(to) = <<>> /\ ~ srv.skip
  BY <1>1, <1>2, ReadOrder DEF WireInv, StreamT, Asked, Stages, Extended
<1>4. PICK what \in {"done", "kept", "refused"}, t \in {"Complete", "Error", "CopyIn"} :
        /\ Did(r, what) /\ ToIdle(<<Msg(t, r)>>, srv')
        /\ (t = "Complete" <=> what = "kept") /\ (t = "Error" <=> what = "refused")
        /\ \/ srv' = srv
           \/ \E tx \in Status : srv' = [srv EXCEPT !.tx = tx]
           \/ srv' = [srv EXCEPT !.listens = TRUE]
  <2> DEFINE after == CASE q.text = "begin" -> [srv EXCEPT !.tx = "T"]
                        [] q.text \in {"commit", "rollback"} -> [srv EXCEPT !.tx = "I"]
                        [] q.text = "listen" -> [srv EXCEPT !.listens = TRUE]
                        [] OTHER -> srv
             failed == IF q.text \in {"commit", "rollback"} THEN after ELSE Aborted(srv)
             Fit(b) == \/ b = srv
                       \/ \E tx \in Status : b = [srv EXCEPT !.tx = tx]
                       \/ b = [srv EXCEPT !.listens = TRUE]
  <2>1. Fit(after)
    BY DEF Status
  <2>2. Fit(Aborted(srv))
    BY DEF Aborted, Status, WireInv, SrvT
  <2>3. Fit(failed)
    BY <2>1, <2>2
  <2>4. \/ Did(r, "kept") /\ ToIdle(<<Msg("Complete", r)>>, after)
        \/ Did(r, "refused") /\ ToIdle(<<Msg("Error", r)>>, failed)
        \/ Did(r, "done") /\ ToIdle(<<Msg("CopyIn", r)>>, after)
    BY <1>2 DEF SimpleQuery
  <2>5. \A ms, b : ToIdle(ms, b) => srv' = b
    BY DEF ToIdle, Reply
  <2> HIDE DEF after, failed
  <2>6. CASE Did(r, "kept") /\ ToIdle(<<Msg("Complete", r)>>, after)
    BY <2>1, <2>5, <2>6
  <2>7. CASE Did(r, "refused") /\ ToIdle(<<Msg("Error", r)>>, failed)
    BY <2>3, <2>5, <2>7
  <2>8. CASE Did(r, "done") /\ ToIdle(<<Msg("CopyIn", r)>>, after)
    BY <2>1, <2>5, <2>8
  <2> QED
    BY <2>4, <2>6, <2>7, <2>8
<1>6. SrvT' /\ ~ srv'.skip /\ srv'.stmts = srv.stmts
  BY <1>3, <1>4 DEF WireInv, SrvT
<1>7. /\ did' \in [Request -> Deeds] /\ did'[r] = what
      /\ \A x \in Request : x # r => did'[x] = did[x]
  BY <1>2, <1>4 DEF WireInv, BookT, Did, Deeds, Ran
<1> DEFINE ms == <<Msg(t, r)>>
<1>8. ms \in Seq(Answer) /\ (\A m \in On(ms) : m.t = t /\ m.req = r) /\ \E m \in On(ms) : m.t = t
  <2>1. ms \in Seq(Answer) /\ On(ms) = {Msg(t, r)} /\ Msg(t, r).t = t /\ Msg(t, r).req = r
    BY AnswersTyped DEF Answers
  <2> QED
    BY <2>1
<1>9. ToIdle(ms, srv') /\ at \in InCall
  BY <1>2, <1>4 DEF InCall
<1> HIDE DEF ms
<1> QED
  BY <1>1, <1>2, <1>3, <1>4, <1>6, <1>7, <1>8, <1>9, IdleInv

LEMMA PassOnInv ==
  ASSUME WireInv, PassOn
  PROVE  WireInv'
<1> DEFINE out == IF TRUE THEN [i \in 1 .. Waiting |-> Msg("Note", "none")] ELSE <<>>
<1>1. /\ to = <<>> /\ Waiting > 0 /\ wire' = wire \o out /\ notes' = [notes EXCEPT !.sent = notes.raised]
      /\ UNCHANGED <<at, me, call, to, srv, ends, did, dials, cut>>
  BY DEF PassOn
<1>2. out \in Seq(Answer) /\ \A m \in On(out) : m.t = "Note"
  BY Batch
<1> HIDE DEF out
<1>3. wire' \in Seq(Answer) /\ On(wire') = On(wire) \cup On(out) /\ ReadyLast(wire')
  BY <1>1, <1>2, WriteMore DEF WireInv, StreamT, LastWord
<1>4. at \notin {"none"} \cup Startup
  BY <1>1 DEF WireInv, Place, Waiting
<1>5. ConnT' /\ StreamT' /\ SrvT'
  BY <1>1, <1>3 DEF WireInv, ConnT, StreamT, SrvT
<1>6. BookT'
  BY <1>1 DEF WireInv, BookT
<1>7. Place'
  BY <1>1, <1>2, <1>3, <1>4 DEF WireInv, Place
<1>8. Dialogue' /\ Asked'
  BY <1>1, <1>4 DEF WireInv, Dialogue, Asked
<1>9. LastWord' /\ Own'
  BY <1>1, <1>2, <1>3 DEF WireInv, LastWord, Own
<1>10. Verdict'
  BY <1>1, <1>2, <1>3 DEF WireInv, Verdict
<1>11. Past' /\ Cache'
  BY <1>1, <1>2, <1>3 DEF WireInv, Past, Cache, Backed
<1> QED
  BY <1>5, <1>6, <1>7, <1>8, <1>9, <1>10, <1>11, InvParts

-----------------------------------------------------------------------------
(* Every step *)

LEMMA WireStep == WireInv /\ [Next]_vars => WireInv'
<1>1. SUFFICES ASSUME WireInv, [Next]_vars PROVE WireInv'
  OBVIOUS
<1>2. CASE Connect \/ Release \/ Acquire \/ Read \/ Environment
  BY <1>1, <1>2, ConnectInv, PoolInv, ReadInv, EnvironmentInv
<1>3. CASE Start
  BY <1>1, <1>3, QueryInv, EncodeInv, SimpleInv DEF Start
<1>4. CASE Backend
  BY <1>1, <1>4, AuthInv, SkipInv, ParseInv, BindInv, ExecuteInv, SyncInv, SimpleQueryInv, PassOnInv DEF Backend
<1>5. CASE UNCHANGED vars
  BY <1>1, <1>5 DEF vars, WireInv, ConnT, StreamT, SrvT, BookT, Place, Dialogue, Asked, LastWord, Own, Verdict,
              Past, Cache, Backed
<1> QED
  BY <1>1, <1>2, <1>3, <1>4, <1>5 DEF Next

LEMMA WireHolds == Spec => []WireInv
BY InvInit, WireStep, PTL DEF Spec

-----------------------------------------------------------------------------
(* The order of a call *)

\* The stage that reads on after a message, and the message of the call that
\* the backend answers with what a stage waits for.
Leads(t) == t \in {"ParseComplete", "BindComplete", "RowDescription", "DataRow"}
NextStage(t) == CASE t = "ParseComplete" -> "bind"
                  [] t = "BindComplete" -> "describe"
                  [] OTHER -> "rows"
Due(stage) == CASE stage = "parse" -> "Parse"
                [] stage = "bind" -> "Bind"
                [] stage = "describe" -> "Describe"
                [] OTHER -> "Execute"

\* What stage meets after the first k messages of w: one that it waits for, or
\* none yet, and the backend is about to answer the message due.
Met(w, q, skip, k, stage) ==
  IF k < Len(w) THEN w[k + 1].t \in Expects(stage)
                ELSE q # <<>> /\ Head(q).t = Due(stage) /\ ~ skip
Chain(w, q, skip) ==
  \A i \in 1 .. Len(w) : Leads(w[i].t) => Met(w, q, skip, i, NextStage(w[i].t))
\* The reader comes to its message past the notifications of earlier days.
Awaits(w, q, skip, stage) ==
  \E k \in 0 .. Len(w) : (\A i \in 1 .. k : w[i].t = "Note") /\ Met(w, q, skip, k, stage)

\* The messages of a call come in one order.
Canonical(q) ==
  \A i \in 1 .. Len(q) :
    /\ q[i].t = "Parse" => i < Len(q) /\ q[i + 1].t = "Bind"
    /\ q[i].t = "Bind" => i < Len(q) /\ q[i + 1].t = "Describe"
    /\ q[i].t = "Describe" => i < Len(q) /\ q[i + 1].t = "Execute"

OrderInv ==
  /\ at \in Extended => /\ Canonical(to) /\ Chain(wire, to, srv.skip)
                        /\ Awaits(wire, to, srv.skip, at)
  /\ at = "simple" =>
       /\ \A m \in On(to) : m.text = call.text
       /\ \A m \in On(wire) : /\ m.t \in Expects("simple") \cup {"CopyIn", "Note"}
                              /\ m.t = "CopyIn" => call.text = "script"

LEMMA StagesExpect ==
  /\ Expects("parse") = {"ParseComplete", "Error"} /\ Expects("bind") = {"BindComplete", "Error"}
  /\ Expects("describe") = {"RowDescription", "Error"}
  /\ Expects("rows") = {"DataRow", "Complete", "Error"}
  /\ Expects("simple") = {"RowDescription", "DataRow", "Complete", "Error", "Ready"}
BY DEF Expects

LEMMA TailOrder ==
  ASSUME NEW s \in Seq(Ask), s # <<>>, Canonical(s)
  PROVE  /\ Canonical(Tail(s))
         /\ Head(s).t = "Parse" => Tail(s) # <<>> /\ Head(Tail(s)).t = "Bind"
         /\ Head(s).t = "Bind" => Tail(s) # <<>> /\ Head(Tail(s)).t = "Describe"
         /\ Head(s).t = "Describe" => Tail(s) # <<>> /\ Head(Tail(s)).t = "Execute"
<1> DEFINE q == Tail(s)
<1>1. /\ q \in Seq(Ask) /\ Len(q) = Len(s) - 1 /\ Len(s) \in Nat \ {0} /\ Head(s) = s[1]
      /\ \A i \in 1 .. Len(s) - 1 : q[i] = s[i + 1] /\ i + 1 \in 1 .. Len(s)
  BY HeadTailProperties
<1>2. 1 < Len(s) => q # <<>> /\ Head(q) = s[2]
  <2>1. ASSUME 1 < Len(s) PROVE q # <<>> /\ Head(q) = q[1]
    BY <1>1, <2>1, EmptySeq, HeadTailProperties
  <2>2. 1 < Len(s) => q[1] = s[1 + 1]
    BY <1>1
  <2> QED
    BY <2>1, <2>2
<1>3. /\ s[1].t = "Parse" => 1 < Len(s) /\ s[2].t = "Bind"
      /\ s[1].t = "Bind" => 1 < Len(s) /\ s[2].t = "Describe"
      /\ s[1].t = "Describe" => 1 < Len(s) /\ s[2].t = "Execute"
  <2>1. 1 \in 1 .. Len(s) /\ 1 + 1 = 2
    BY <1>1
  <2> QED
    BY <2>1 DEF Canonical
<1> HIDE DEF q
<1>4. ASSUME NEW i \in 1 .. Len(q)
      PROVE  /\ q[i].t = "Parse" => i < Len(q) /\ q[i + 1].t = "Bind"
             /\ q[i].t = "Bind" => i < Len(q) /\ q[i + 1].t = "Describe"
             /\ q[i].t = "Describe" => i < Len(q) /\ q[i + 1].t = "Execute"
  <2>1. i + 1 \in 1 .. Len(s) /\ q[i] = s[i + 1] /\ (i + 1 < Len(s) <=> i < Len(q))
    BY <1>1
  <2>2. i < Len(q) => q[i + 1] = s[(i + 1) + 1]
    BY <1>1
  <2> QED
    BY <2>1, <2>2 DEF Canonical
<1> QED
  BY <1>1, <1>2, <1>3, <1>4 DEF Canonical, q

\* The reader takes a message off: the positions move by one.
LEMMA MetTail ==
  ASSUME NEW w \in Seq(Answer), w # <<>>, NEW q, NEW skip, NEW stage, NEW k \in 1 .. Len(w)
  PROVE  Met(Tail(w), q, skip, k - 1, stage) <=> Met(w, q, skip, k, stage)
<1>1. /\ Len(Tail(w)) = Len(w) - 1 /\ Len(w) \in Nat \ {0}
      /\ \A i \in 1 .. Len(w) - 1 : Tail(w)[i] = w[i + 1]
  BY HeadTailProperties
<1>2. k < Len(w) => Tail(w)[(k - 1) + 1] = w[k + 1]
  BY <1>1
<1>3. k - 1 < Len(Tail(w)) <=> k < Len(w)
  BY <1>1
<1> QED
  BY <1>2, <1>3 DEF Met

LEMMA ReadChain ==
  ASSUME NEW w \in Seq(Answer), w # <<>>, NEW q, NEW skip, Chain(w, q, skip)
  PROVE  /\ Chain(Tail(w), q, skip)
         /\ Leads(Head(w).t) => Awaits(Tail(w), q, skip, NextStage(Head(w).t))
<1>1. /\ Tail(w) \in Seq(Answer) /\ Len(Tail(w)) = Len(w) - 1 /\ Len(w) \in Nat \ {0} /\ Head(w) = w[1]
      /\ \A i \in 1 .. Len(w) - 1 : Tail(w)[i] = w[i + 1] /\ i + 1 \in 1 .. Len(w)
  BY HeadTailProperties
<1>2. ASSUME NEW i \in 1 .. Len(Tail(w)), Leads(Tail(w)[i].t)
      PROVE  Met(Tail(w), q, skip, i, NextStage(Tail(w)[i].t))
  <2>1. i + 1 \in 1 .. Len(w) /\ Tail(w)[i] = w[i + 1] /\ (i + 1) - 1 = i
    BY <1>1
  <2>2. Met(w, q, skip, i + 1, NextStage(w[i + 1].t))
    BY <2>1, <1>2 DEF Chain
  <2>3. Met(Tail(w), q, skip, (i + 1) - 1, NextStage(w[i + 1].t))
    BY <2>1, <2>2, MetTail
  <2> QED
    BY <2>1, <2>3
<1>3. ASSUME Leads(Head(w).t) PROVE Awaits(Tail(w), q, skip, NextStage(Head(w).t))
  <2>1. 1 \in 1 .. Len(w) /\ 1 - 1 = 0 /\ 0 \in 0 .. Len(Tail(w))
    BY <1>1
  <2>2. Met(w, q, skip, 1, NextStage(Head(w).t))
    BY <2>1, <1>1, <1>3 DEF Chain
  <2>3. Met(Tail(w), q, skip, 1 - 1, NextStage(Head(w).t))
    BY <2>1, <2>2, MetTail
  <2> QED
    BY <2>1, <2>3 DEF Awaits
<1> QED
  BY <1>2, <1>3 DEF Chain

LEMMA ReadAwaits ==
  ASSUME NEW w \in Seq(Answer), w # <<>>, NEW q, NEW skip, NEW stage \in Extended, Awaits(w, q, skip, stage)
  PROVE  IF Head(w).t = "Note" THEN Awaits(Tail(w), q, skip, stage) ELSE Head(w).t \in Expects(stage)
<1>1. /\ Len(Tail(w)) = Len(w) - 1 /\ Len(w) \in Nat \ {0} /\ Head(w) = w[1]
      /\ \A i \in 1 .. Len(w) - 1 : Tail(w)[i] = w[i + 1]
  BY HeadTailProperties
<1>2. PICK k \in 0 .. Len(w) : (\A i \in 1 .. k : w[i].t = "Note") /\ Met(w, q, skip, k, stage)
  BY DEF Awaits
<1>3. CASE k = 0
  <2>1. w[1].t \in Expects(stage)
    BY <1>1, <1>2, <1>3 DEF Met
  <2> QED
    BY <2>1, <1>1, StagesExpect DEF Extended
<1>4. CASE k # 0
  <2>1. k \in 1 .. Len(w) /\ Head(w).t = "Note" /\ k - 1 \in 0 .. Len(Tail(w))
    BY <1>1, <1>2, <1>4
  <2>2. Met(Tail(w), q, skip, k - 1, stage)
    BY <2>1, <1>2, MetTail
  <2>3. \A i \in 1 .. k - 1 : Tail(w)[i].t = "Note"
    <3>1. SUFFICES ASSUME NEW i \in 1 .. k - 1 PROVE Tail(w)[i].t = "Note"
      OBVIOUS
    <3>2. i + 1 \in 1 .. k /\ Tail(w)[i] = w[i + 1]
      BY <1>1, <2>1
    <3> QED
      BY <3>2, <1>2
  <2> QED
    BY <2>1, <2>2, <2>3 DEF Awaits
<1> QED
  BY <1>3, <1>4

\* The backend answers: ms begins with what the stage whose message was due
\* waits for.
Fits(q, skip, ms) ==
  \A stage \in Extended : q # <<>> /\ Head(q).t = Due(stage) /\ ~ skip =>
    Len(ms) > 0 /\ ms[1].t \in Expects(stage)

LEMMA WriteChain ==
  ASSUME NEW w \in Seq(Answer), NEW ms \in Seq(Answer), NEW q, NEW skip, NEW q2, NEW skip2,
         Chain(w, q, skip), Chain(ms, q2, skip2), Fits(q, skip, ms)
  PROVE  /\ Chain(w \o ms, q2, skip2)
         /\ \A stage \in Extended : Awaits(w, q, skip, stage) => Awaits(w \o ms, q2, skip2, stage)
<1> DEFINE v == w \o ms
<1>1. /\ v \in Seq(Answer) /\ Len(v) = Len(w) + Len(ms) /\ Len(w) \in Nat /\ Len(ms) \in Nat
      /\ \A i \in 1 .. Len(w) + Len(ms) : v[i] = IF i <= Len(w) THEN w[i] ELSE ms[i - Len(w)]
  BY ConcatProperties
<1> HIDE DEF v
<1>2. ASSUME NEW k \in 0 .. Len(w), NEW stage \in Extended, Met(w, q, skip, k, stage)
      PROVE  Met(v, q2, skip2, k, stage)
  <2>1. CASE k < Len(w)
    <3>1. k + 1 \in 1 .. Len(w) + Len(ms) /\ k + 1 <= Len(w) /\ k < Len(v)
      BY <2>1, <1>1
    <3> QED
      BY <3>1, <2>1, <1>1, <1>2 DEF Met
  <2>2. CASE ~ k < Len(w)
    <3>1. Len(ms) > 0 /\ ms[1].t \in Expects(stage)
      BY <2>2, <1>2 DEF Met, Fits
    <3>2. k = Len(w) /\ k < Len(v) /\ k + 1 \in 1 .. Len(w) + Len(ms) /\ ~ k + 1 <= Len(w) /\ (k + 1) - Len(w) = 1
      BY <2>2, <3>1, <1>1
    <3>3. v[k + 1] = ms[1]
      BY <3>2, <1>1
    <3> QED
      BY <3>1, <3>2, <3>3 DEF Met
  <2> QED
    BY <2>1, <2>2
<1>3. ASSUME NEW i \in 1 .. Len(v), Leads(v[i].t) PROVE Met(v, q2, skip2, i, NextStage(v[i].t))
  <2>1. CASE i <= Len(w)
    <3>1. i \in 1 .. Len(w) /\ i \in 0 .. Len(w) /\ v[i] = w[i]
      BY <2>1, <1>1
    <3>2. NextStage(v[i].t) \in Extended
      BY DEF NextStage, Extended
    <3> QED
      BY <3>1, <3>2, <1>2, <1>3 DEF Chain
  <2>2. CASE ~ i <= Len(w)
    <3>1. i - Len(w) \in 1 .. Len(ms) /\ v[i] = ms[i - Len(w)]
      BY <2>2, <1>1
    <3>2. Met(ms, q2, skip2, i - Len(w), NextStage(v[i].t))
      BY <3>1, <1>3 DEF Chain
    <3>3. i < Len(v) <=> i - Len(w) < Len(ms)
      BY <1>1
    <3>4. ASSUME i < Len(v) PROVE v[i + 1] = ms[(i - Len(w)) + 1]
      <4>1. i + 1 \in 1 .. Len(w) + Len(ms) /\ ~ i + 1 <= Len(w) /\ (i + 1) - Len(w) = (i - Len(w)) + 1
        BY <3>4, <2>2, <1>1
      <4> QED
        BY <4>1, <1>1
    <3> QED
      BY <3>2, <3>3, <3>4 DEF Met
  <2> QED
    BY <2>1, <2>2
<1>4. ASSUME NEW stage \in Extended, Awaits(w, q, skip, stage) PROVE Awaits(v, q2, skip2, stage)
  <2>1. PICK k \in 0 .. Len(w) : (\A i \in 1 .. k : w[i].t = "Note") /\ Met(w, q, skip, k, stage)
    BY <1>4 DEF Awaits
  <2>2. k \in 0 .. Len(v) /\ Met(v, q2, skip2, k, stage)
    BY <2>1, <1>1, <1>2
  <2>3. \A i \in 1 .. k : v[i].t = "Note"
    <3>1. SUFFICES ASSUME NEW i \in 1 .. k PROVE v[i].t = "Note"
      OBVIOUS
    <3>2. i \in 1 .. Len(w) + Len(ms) /\ i <= Len(w)
      BY <2>1, <1>1
    <3> QED
      BY <3>2, <2>1, <1>1
  <2> QED
    BY <2>2, <2>3 DEF Awaits
<1> QED
  BY <1>3, <1>4 DEF Chain, v

LEMMA OneChain ==
  ASSUME NEW c \in Answer, NEW q, NEW skip,
         Leads(c.t) => q # <<>> /\ Head(q).t = Due(NextStage(c.t)) /\ ~ skip
  PROVE  Chain(<<c>>, q, skip)
BY DEF Chain, Met

LEMMA QuietChain ==
  ASSUME NEW s \in Seq(Answer), NEW q, NEW skip, \A m \in On(s) : ~ Leads(m.t)
  PROVE  Chain(s, q, skip)
BY DEF Chain, On

LEMMA OrderInit == Init => OrderInv
BY DEF Init, OrderInv, Extended

\* Nothing that the order speaks of changes.
LEMMA SameOrder ==
  ASSUME OrderInv, UNCHANGED <<at, to, wire>>, call'.text = call.text, srv'.skip = srv.skip
  PROVE  OrderInv'
<1>1. at \in Extended => Canonical(to)' /\ Chain(wire, to, srv.skip)' /\ Awaits(wire, to, srv.skip, at)'
  BY DEF OrderInv, Canonical, Chain, Awaits, Met, Expects
<1> QED
  BY <1>1 DEF OrderInv, Expects

LEMMA NoOrder ==
  ASSUME at' \notin Extended \cup {"simple"}
  PROVE  OrderInv'
BY DEF OrderInv

\* A call reads on.
LEMMA ReadOrderInv ==
  ASSUME WireInv, OrderInv, at \in Extended, wire # <<>>, Take, UNCHANGED <<to, srv>>,
         \/ Head(wire).t = "Note" /\ at' = at
         \/ Leads(Head(wire).t) /\ at' = NextStage(Head(wire).t)
  PROVE  OrderInv'
<1> DEFINE w == Tail(wire)
<1>1. /\ wire' = w /\ to' = to /\ srv' = srv /\ wire \in Seq(Answer)
      /\ Canonical(to) /\ Chain(wire, to, srv.skip) /\ Awaits(wire, to, srv.skip, at)
  BY DEF Take, WireInv, StreamT, OrderInv
<1>2. Chain(w, to, srv.skip)
  BY <1>1, ReadChain
<1>3. at' \in Extended /\ Awaits(w, to, srv.skip, at')
  <2>1. CASE Head(wire).t = "Note" /\ at' = at
    BY <2>1, <1>1, ReadAwaits
  <2>2. CASE Leads(Head(wire).t) /\ at' = NextStage(Head(wire).t)
    BY <2>2, <1>1, ReadChain DEF NextStage, Extended
  <2> QED
    BY <2>1, <2>2
<1> HIDE DEF w
<1>4. Canonical(to') /\ Chain(wire', to', srv'.skip) /\ Awaits(wire', to', srv'.skip, at')
  BY <1>1, <1>2, <1>3
<1> QED
  BY <1>3, <1>4 DEF OrderInv, Extended

LEMMA ReadSimpleOrderInv ==
  ASSUME WireInv, OrderInv, at = "simple", wire # <<>>, Take, UNCHANGED to,
         at' = "simple", call'.text = call.text
  PROVE  OrderInv'
<1>1. \A m \in On(wire') : m \in On(wire)
  BY ReadOne DEF WireInv, StreamT, Take
<1> QED
  BY <1>1, StagesExpect DEF OrderInv, Extended

\* The backend writes.
LEMMA WriteOrderInv ==
  ASSUME WireInv, OrderInv, at \in Stages, to # <<>>, to' = Tail(to), UNCHANGED at,
         NEW ms \in Seq(Answer), wire' = wire \o ms,
         Chain(ms, to', srv'.skip), Fits(to, srv.skip, ms)
  PROVE  OrderInv'
<1>1. at # "simple" /\ wire \in Seq(Answer) /\ to \in Seq(Ask)
  BY DEF WireInv, StreamT, Stages, Extended
<1>2. ASSUME at \in Extended
      PROVE  Canonical(to') /\ Chain(wire', to', srv'.skip) /\ Awaits(wire', to', srv'.skip, at')
  <2>1. Canonical(to) /\ Chain(wire, to, srv.skip) /\ Awaits(wire, to, srv.skip, at)
    BY <1>2 DEF OrderInv
  <2>2. Canonical(to')
    BY <1>1, <2>1, TailOrder
  <2> QED
    BY <1>1, <1>2, <2>1, <2>2, WriteChain
<1> QED
  BY <1>1, <1>2 DEF OrderInv

LEMMA DuesDiffer ==
  ASSUME NEW stage \in Extended
  PROVE  /\ Due(stage) = "Parse" => stage = "parse"
         /\ Due(stage) = "Bind" => stage = "bind"
         /\ Due(stage) = "Describe" => stage = "describe"
         /\ Due(stage) = "Execute" => stage = "rows"
         /\ Due(stage) \in Steps
BY DEF Due, Extended, Steps

\* One answer to a message of the call.
LEMMA OneOrderInv ==
  ASSUME WireInv, OrderInv, at \in Stages, to # <<>>, NEW t \in Answers, NEW r \in {call.req}, NEW backend,
         Reply(<<Msg(t, r)>>, backend), Head(to).t \in Steps,
         \/ t = "Error"
         \/ /\ ~ srv.skip /\ ~ srv'.skip
            /\ \/ t = "ParseComplete" /\ Head(to).t = "Parse"
               \/ t = "BindComplete" /\ Head(to).t = "Bind"
               \/ t = "RowDescription" /\ Head(to).t = "Describe"
  PROVE  OrderInv'
<1> DEFINE c == Msg(t, r)
<1>1. to' = Tail(to) /\ UNCHANGED <<at, call>> /\ wire' = wire \o <<c>>
  BY DEF Reply
<1>2. c \in Answer /\ c.t = t /\ <<c>> \in Seq(Answer)
  BY AnswersTyped
<1>3. CASE at \notin Extended
  BY <1>1, <1>3, NoOrder DEF Stages
<1>4. CASE at \in Extended
  <2>1. Canonical(to) /\ to \in Seq(Ask)
    BY <1>4 DEF OrderInv, WireInv, StreamT
  <2> HIDE DEF c
  <2>2. Chain(<<c>>, to', srv'.skip)
    <3>1. Leads(c.t) => to' # <<>> /\ Head(to').t = Due(NextStage(c.t)) /\ ~ srv'.skip
      BY <1>1, <1>2, <2>1, TailOrder DEF Leads, NextStage, Due
    <3> QED
      BY <3>1, <1>2, OneChain
  <2>3. Len(<<c>>) = 1 /\ <<c>>[1] = c
    OBVIOUS
  <2>4. ASSUME NEW stage \in Extended, Head(to).t = Due(stage) PROVE c.t \in Expects(stage)
    <3>1. CASE t = "Error"
      BY <3>1, <1>2, StagesExpect DEF Extended
    <3>2. CASE t # "Error"
      BY <3>2, <2>4, <1>2, DuesDiffer, StagesExpect
    <3> QED
      BY <3>1, <3>2
  <2>5. Fits(to, srv.skip, <<c>>)
    BY <2>3, <2>4 DEF Fits
  <2> QED
    BY <1>1, <1>2, <2>2, <2>5, WriteOrderInv
<1> QED
  BY <1>3, <1>4

LEMMA ExecuteOrderInv ==
  ASSUME WireInv, OrderInv, Execute
  PROVE  OrderInv'
<1>1. to # <<>> /\ Head(to).t = "Execute" /\ ~ srv.skip
  BY DEF Execute, Next2
<1>2. at \in Stages /\ Head(to).req = call.req
  BY <1>1, HeadOf DEF Steps
<1>3. PICK rows \in {<<>>, <<Msg("DataRow", call.req)>>}, t \in {"Complete", "Error"} :
        /\ to' = Tail(to) /\ wire' = wire \o (rows \o <<Msg(t, call.req)>>) /\ UNCHANGED at
  BY <1>2 DEF Execute, Reply
<1> DEFINE c == Msg(t, call.req)
           d == Msg("DataRow", call.req)
           ms == rows \o <<c>>
<1>4. c \in Answer /\ c.t = t /\ d \in Answer /\ d.t = "DataRow"
  BY AnswersTyped DEF Answers
<1>5. rows = <<>> \/ rows = <<d>>
  BY <1>3
<1> HIDE DEF c, d
<1>6. /\ ms \in Seq(Answer) /\ Len(ms) > 0 /\ ms[1].t \in {"DataRow", "Complete", "Error"}
      /\ Chain(ms, to', srv'.skip)
  <2> DEFINE last == <<c>>
  <2>1. last \in Seq(Answer) /\ Len(last) = 1 /\ last[1] = c
    BY <1>4
  <2>2. rows \in Seq(Answer) /\ Len(rows) \in {0, 1} /\ (Len(rows) = 1 => rows[1] = d)
    <3>1. <<d>> \in Seq(Answer) /\ Len(<<d>>) = 1 /\ <<d>>[1] = d
      BY <1>4
    <3> QED
      BY SMTT(60), <3>1, <1>5, NewTypes
  <2> HIDE DEF last
  <2>3. /\ rows \o last \in Seq(Answer) /\ Len(rows \o last) = Len(rows) + Len(last)
        /\ \A i \in 1 .. Len(rows) + Len(last) :
             (rows \o last)[i] = IF i <= Len(rows) THEN rows[i] ELSE last[i - Len(rows)]
    BY <2>1, <2>2, ConcatProperties
  <2> DEFINE p == rows \o last
  <2> HIDE DEF p
  <2>4. /\ p \in Seq(Answer) /\ Len(p) = Len(rows) + 1 /\ p[Len(rows) + 1] = c
        /\ Len(rows) = 1 => p[1] = d
    BY <2>1, <2>2, <2>3 DEF p
  <2>5. ASSUME NEW i \in 1 .. Len(p), Leads(p[i].t) PROVE Met(p, to', srv'.skip, i, NextStage(p[i].t))
    <3>1. i = 1 /\ Len(rows) = 1
      <4>1. i # Len(rows) + 1
        BY <2>4, <2>5, <1>3, <1>4 DEF Leads
      <4> QED
        BY <4>1, <2>2, <2>4
    <3>2. NextStage(p[i].t) = "rows" /\ p[i + 1].t \in Expects("rows") /\ i < Len(p)
      BY <2>4, <3>1, <1>3, <1>4, StagesExpect DEF NextStage
    <3> QED
      BY <3>2 DEF Met
  <2>6. Len(p) > 0 /\ p[1].t \in {"DataRow", "Complete", "Error"}
    <3>1. CASE Len(rows) = 0
      <4>1. Len(p) = 1 /\ p[1] = c
        BY <2>4, <3>1
      <4> QED
        BY <4>1, <1>3, <1>4
    <3>2. CASE Len(rows) = 1
      <4>1. Len(p) = 2 /\ p[1] = d
        BY <2>4, <3>2
      <4> QED
        BY <4>1, <1>4
    <3> QED
      BY <2>2, <3>1, <3>2
  <2>7. Chain(p, to', srv'.skip)
    BY <2>5 DEF Chain
  <2> QED
    BY <2>4, <2>6, <2>7 DEF p, last
<1>7. wire' = wire \o ms
  BY <1>3 DEF c
<1> HIDE DEF ms
<1>8. Fits(to, srv.skip, ms)
  <2>1. ASSUME NEW stage \in Extended, Head(to).t = Due(stage) PROVE ms[1].t \in Expects(stage)
    BY <2>1, <1>1, <1>6, DuesDiffer, StagesExpect
  <2> QED
    BY <2>1, <1>6 DEF Fits
<1> QED
  BY <1>1, <1>2, <1>3, <1>6, <1>7, <1>8, WriteOrderInv

LEMMA SkipOrderInv ==
  ASSUME WireInv, OrderInv, Skip
  PROVE  OrderInv'
<1>1. /\ to # <<>> /\ srv.skip /\ to' = Tail(to) /\ wire' = wire \o <<>> /\ UNCHANGED <<at, srv>>
  BY DEF Skip, Reply
<1>2. at \in Stages
  BY <1>1 DEF WireInv, Asked
<1>3. <<>> \in Seq(Answer) /\ Chain(<<>>, to', srv'.skip) /\ Fits(to, srv.skip, <<>>)
  BY <1>1 DEF Chain, Fits
<1> QED
  BY <1>1, <1>2, <1>3, WriteOrderInv

\* What goes out with Ready.
LEMMA IdleWire ==
  ASSUME WireInv, NEW ms \in Seq(Answer), NEW backend, ToIdle(ms, backend), SrvT'
  PROVE  \E more \in Seq(Answer) :
           /\ wire' = wire \o more /\ to' = Tail(to) /\ UNCHANGED <<at, call>>
           /\ \A m \in On(more) : m \in On(ms) \/ m.t \in {"Note", "Ready"}
<1> DEFINE out == IF backend.tx = "I" THEN [i \in 1 .. Waiting |-> Msg("Note", "none")] ELSE <<>>
           last == <<Msg("Ready", backend.tx)>>
<1>1. /\ to' = Tail(to) /\ srv' = backend /\ wire' = wire \o ((ms \o out) \o last) /\ UNCHANGED <<at, call>>
  BY DEF ToIdle, Reply
<1>2. out \in Seq(Answer) /\ \A m \in On(out) : m.t = "Note"
  BY Batch
<1>3. last \in Seq(Answer) /\ \A m \in On(last) : m.t = "Ready"
  <2>1. backend.tx \in Status /\ "Ready" \in Answers
    BY <1>1 DEF SrvT, Answers
  <2>2. Msg("Ready", backend.tx) \in Answer /\ Msg("Ready", backend.tx).t = "Ready"
    BY <2>1, Messages
  <2> QED
    BY <2>2, One
<1> HIDE DEF out, last
<1>4. ms \o out \in Seq(Answer) /\ On(ms \o out) = On(ms) \cup On(out)
  BY <1>2, WriteMore
<1> DEFINE body == ms \o out
<1>5. body \o last \in Seq(Answer) /\ On(body \o last) = On(body) \cup On(last)
  <2>1. body \in Seq(Answer)
    BY <1>4
  <2> HIDE DEF body
  <2> QED
    BY <2>1, <1>3, WriteMore
<1>6. \A m \in On(body \o last) : m \in On(ms) \/ m.t \in {"Note", "Ready"}
  BY <1>2, <1>3, <1>4, <1>5
<1> QED
  BY <1>1, <1>5, <1>6

LEMMA SyncOrderInv ==
  ASSUME WireInv, WireInv', OrderInv, Sync
  PROVE  OrderInv'
<1> DEFINE e == <<Msg("CommitError", call.req)>>
<1>1. to # <<>> /\ Head(to).t = "Sync"
  BY DEF Sync, Next2
<1>2. at \in Stages /\ Head(to).req = call.req
  BY <1>1, HeadOf
<1>3. PICK ms \in {<<>>, e} : ToIdle(ms, [srv EXCEPT !.skip = FALSE])
  BY <1>2 DEF Sync
<1>4. ms \in Seq(Answer) /\ \A m \in On(ms) : m.t = "CommitError"
  <2>1. /\ e \in Seq(Answer) /\ On(e) = {Msg("CommitError", call.req)}
        /\ Msg("CommitError", call.req).t = "CommitError"
    BY AnswersTyped DEF Answers
  <2> QED
    BY <2>1, <1>3, NewTypes
<1> HIDE DEF e
<1>5. PICK more \in Seq(Answer) :
        /\ wire' = wire \o more /\ to' = Tail(to) /\ UNCHANGED <<at, call>>
        /\ \A m \in On(more) : m \in On(ms) \/ m.t \in {"Note", "Ready"}
  <2>1. SrvT'
    BY DEF WireInv
  <2> QED
    BY <1>3, <1>4, <2>1, IdleWire
<1>6. Chain(more, to', srv'.skip)
  <2>1. \A m \in On(more) : ~ Leads(m.t)
    BY <1>4, <1>5 DEF Leads
  <2> QED
    BY <2>1, QuietChain
<1>7. Fits(to, srv.skip, more)
  BY <1>1, DuesDiffer DEF Fits, Steps
<1> QED
  BY <1>1, <1>2, <1>5, <1>6, <1>7, WriteOrderInv

LEMMA SimpleOrderInv ==
  ASSUME WireInv, WireInv', OrderInv, SimpleQuery
  PROVE  OrderInv'
<1> DEFINE q == Head(to)
<1>1. to # <<>> /\ q.t = "Query"
  BY DEF SimpleQuery, Next2
<1>2. at = "simple" /\ q \in On(to) /\ q.text = call.text /\ q.req = call.req
  BY <1>1, HeadOf DEF OrderInv
<1>3. PICK t \in {"Complete", "Error", "CopyIn"} :
        (\E b : ToIdle(<<Msg(t, call.req)>>, b)) /\ (t = "CopyIn" => call.text = "script")
  BY <1>2 DEF SimpleQuery
<1> DEFINE c == Msg(t, call.req)
<1>4. <<c>> \in Seq(Answer) /\ On(<<c>>) = {c} /\ c.t = t
  BY AnswersTyped DEF Answers
<1>5. PICK b : ToIdle(<<c>>, b) /\ SrvT'
  BY <1>3 DEF WireInv
<1> HIDE DEF c
<1>6. PICK more \in Seq(Answer) :
        /\ wire' = wire \o more /\ to' = Tail(to) /\ UNCHANGED <<at, call>>
        /\ \A m \in On(more) : m \in On(<<c>>) \/ m.t \in {"Note", "Ready"}
  BY <1>4, <1>5, IdleWire
<1>7. On(wire') = On(wire) \cup On(more) /\ \A m \in On(to') : m \in On(to)
  BY <1>1, <1>6, ReadOne, WriteMore DEF WireInv, StreamT
<1>8. \A m \in On(more) : /\ m.t \in Expects("simple") \cup {"CopyIn", "Note"}
                          /\ m.t = "CopyIn" => call.text = "script"
  BY <1>3, <1>4, <1>6, StagesExpect
<1> QED
  BY <1>2, <1>6, <1>7, <1>8, StagesExpect DEF OrderInv, Extended

LEMMA PassOnOrderInv ==
  ASSUME WireInv, OrderInv, PassOn
  PROVE  OrderInv'
<1> DEFINE out == IF TRUE THEN [i \in 1 .. Waiting |-> Msg("Note", "none")] ELSE <<>>
<1>1. to = <<>> /\ wire' = wire \o out /\ UNCHANGED <<at, call, to, srv>>
  BY DEF PassOn
<1>2. out \in Seq(Answer) /\ \A m \in On(out) : m.t = "Note"
  BY Batch
<1> HIDE DEF out
<1>3. wire \in Seq(Answer) /\ On(wire') = On(wire) \cup On(out)
  BY <1>1, <1>2, WriteMore DEF WireInv, StreamT
<1>4. CASE at \in Extended
  <2>1. Chain(out, to, srv.skip) /\ Fits(to, srv.skip, out)
    BY <1>1, <1>2, QuietChain DEF Leads, Fits
  <2>2. Canonical(to) /\ Chain(wire, to, srv.skip) /\ Awaits(wire, to, srv.skip, at)
    BY <1>4 DEF OrderInv
  <2>3. Chain(wire', to', srv'.skip) /\ Awaits(wire', to', srv'.skip, at')
    BY <1>1, <1>2, <1>3, <1>4, <2>1, <2>2, WriteChain
  <2> QED
    BY <1>1, <1>4, <2>2, <2>3 DEF OrderInv, Extended
<1>5. CASE at = "simple"
  BY <1>1, <1>2, <1>3, <1>5, StagesExpect DEF OrderInv, Extended
<1>6. CASE at \notin Extended \cup {"simple"}
  BY <1>1, <1>6, NoOrder
<1> QED
  BY <1>4, <1>5, <1>6

LEMMA StartOrderInv ==
  ASSUME WireInv, OrderInv, Start
  PROVE  OrderInv'
<1>1. PICK r \in Request :
        \/ \E text \in Text : Query(r, text) \/ EncodeFails(r, text)
        \/ \E command \in Command : ExecSimple(r, command)
  BY DEF Start
<1>2. CASE \E text \in Text : EncodeFails(r, text)
  BY <1>2, NoOrder DEF EncodeFails, Extended
<1>3. CASE \E command \in Command : ExecSimple(r, command)
  <2>1. PICK command \in Command : ExecSimple(r, command)
    BY <1>3
  <2> DEFINE q == [t |-> "Query", req |-> r, text |-> command, name |-> 0]
  <2>2. at = "held" /\ at' = "simple" /\ UNCHANGED wire /\ Send(<<q>>) /\ call'.text = command
    BY <2>1 DEF ExecSimple, NoCall
  <2>3. to = <<>> /\ \A m \in On(wire) : m.t = "Note"
    BY <2>2 DEF WireInv, Place
  <2>4. to' = <<q>> /\ On(<<q>>) = {q} /\ q.text = command
    BY <2>2, <2>3 DEF Send, On
  <2> HIDE DEF q
  <2> QED
    BY <2>2, <2>3, <2>4 DEF OrderInv, Extended
<1>4. CASE \E text \in Text : Query(r, text)
  <2>1. PICK text \in Text : Query(r, text)
    BY <1>4
  <2> DEFINE new == text \notin DOMAIN me.prepared
             name == IF new THEN me.seq + 1 ELSE me.prepared[text]
             kinds == (IF new THEN <<"Parse">> ELSE <<>>) \o <<"Bind", "Describe", "Execute", "Sync">>
             ms == [i \in DOMAIN kinds |-> [t |-> kinds[i], req |-> r, text |-> text, name |-> name]]
  <2>2. at = "held" /\ Send(ms) /\ at' = (IF new THEN "parse" ELSE "bind") /\ UNCHANGED <<wire, srv>>
    BY <2>1 DEF Query
  <2>3. to = <<>> /\ (\A m \in On(wire) : m.t = "Note") /\ wire \in Seq(Answer) /\ ~ srv.skip
    BY <2>2 DEF WireInv, Place, StreamT, Asked, Stages, Extended
  <2>4. /\ kinds \in Seq(Steps \cup {"Sync"}) /\ Len(kinds) = IF new THEN 5 ELSE 4
        /\ \A i \in 1 .. Len(kinds) :
             kinds[i] = IF new THEN <<"Parse", "Bind", "Describe", "Execute", "Sync">>[i]
                               ELSE <<"Bind", "Describe", "Execute", "Sync">>[i]
    BY KindsOf
  <2> HIDE DEF kinds
  <2> DEFINE n == Len(kinds)
  <2>5. n \in {4, 5} /\ DOMAIN kinds = 1 .. n
    BY <2>4, LenProperties
  <2>6. name \in Nat
    BY DEF WireInv, ConnT
  <2> HIDE DEF n, name
  <2>7. /\ ms \in [1 .. n -> Ask] /\ \A i \in 1 .. n : ms[i].t = kinds[i]
    <3>1. \A i \in 1 .. n : kinds[i] \in Steps \cup {"Sync"}
      BY <2>4, <2>5
    <3> QED
      BY <2>5, <2>6, <3>1 DEF Ask, Asks
  <2> HIDE DEF ms
  <2>8. ms \in Seq(Ask) /\ Len(ms) = n
    BY <2>5, <2>7
  <2>9. ms # <<>> /\ Head(ms) = ms[1]
    BY <2>5, <2>8, EmptySeq, HeadTailProperties
  <2>10. Canonical(ms) /\ Head(ms).t = IF new THEN "Parse" ELSE "Bind"
    <3> HIDE DEF new
    <3>1. CASE new
      <4>1. n = 5 /\ kinds[1] = "Parse" /\ kinds[2] = "Bind" /\ kinds[3] = "Describe" /\ kinds[4] = "Execute"
            /\ kinds[5] = "Sync"
        BY <3>1, <2>4 DEF n
      <4> QED
        BY <3>1, <4>1, <2>7, <2>8, <2>9 DEF Canonical
    <3>2. CASE ~ new
      <4>1. n = 4 /\ kinds[1] = "Bind" /\ kinds[2] = "Describe" /\ kinds[3] = "Execute" /\ kinds[4] = "Sync"
        BY <3>2, <2>4 DEF n
      <4> QED
        BY <3>2, <4>1, <2>7, <2>8, <2>9 DEF Canonical
    <3> QED
      BY <3>1, <3>2
  <2>11. to' = ms
    BY <2>2, <2>3, <2>8, ConcatEmptySeq DEF Send
  <2>12. at' \in Extended /\ Head(ms).t = Due(at')
    BY <2>2, <2>10 DEF Extended, Due
  <2>13. Chain(wire', to', srv'.skip)
    BY <2>2, <2>3, QuietChain DEF Leads
  <2>14. Awaits(wire', to', srv'.skip, at')
    <3>1. Met(wire', to', srv'.skip, Len(wire'), at')
      BY <2>2, <2>3, <2>9, <2>11, <2>12 DEF Met
    <3>2. Len(wire') \in 0 .. Len(wire') /\ \A i \in 1 .. Len(wire') : wire'[i].t = "Note"
      BY <2>2, <2>3 DEF On
    <3> QED
      BY <3>1, <3>2 DEF Awaits
  <2> QED
    BY <2>10, <2>11, <2>12, <2>13, <2>14 DEF OrderInv, Extended
<1> QED
  BY <1>1, <1>2, <1>3, <1>4

LEMMA ReadOrderStep ==
  ASSUME WireInv, OrderInv, Read
  PROVE  OrderInv'
<1>1. CASE ReadStartup \/ ReadSasl \/ ReadFails
  <2>1. at' \in {"none", "held"} \cup Startup
    BY <1>1 DEF ReadStartup, ReadSasl, ReadFails, Answered, Destroy, Gone, Startup
  <2> QED
    BY <2>1, NoOrder DEF Startup, Extended
<1>2. CASE DeliverNotification
  <2>1. wire # <<>> /\ Head(wire).t = "Note" /\ Take /\ at \in Extended \cup {"simple"} /\ UNCHANGED <<at, call, to, srv>>
    BY <1>2 DEF DeliverNotification, Head1
  <2> QED
    BY <2>1, ReadOrderInv, ReadSimpleOrderInv
<1>3. CASE ReadParse \/ ReadBind \/ ReadDescription \/ ReadRow
  <2>1. at \in Extended /\ wire # <<>>
    BY <1>3 DEF ReadParse, ReadBind, ReadDescription, ReadRow, Reading, Extended
  <2>2. \/ at' \in {"none", "drain"}
        \/ Take /\ UNCHANGED <<to, srv>> /\ Leads(Head(wire).t) /\ at' = NextStage(Head(wire).t)
    BY <1>3 DEF ReadParse, ReadBind, ReadDescription, ReadRow, Reading, Head1, Next1, ToReady, Destroy, Gone,
                Leads, NextStage
  <2> QED
    BY <2>1, <2>2, ReadOrderInv, NoOrder DEF Extended
<1>4. CASE ReadSimple
  <2>1. at = "simple" /\ wire # <<>>
    BY <1>4 DEF ReadSimple, Reading
  <2>2. \/ at' \in {"none", "held"}
        \/ Take /\ UNCHANGED to /\ at' = "simple" /\ call'.text = call.text
    BY <2>1, <1>4 DEF ReadSimple, Head1, Next1, Told, Destroy, Gone, WireInv, ConnT, Calls
  <2> QED
    BY <2>1, <2>2, ReadSimpleOrderInv, NoOrder DEF Extended
<1>5. CASE Drain
  <2>1. at' \in {"drain", "held"}
    BY <1>5 DEF Drain, Told
  <2> QED
    BY <2>1, NoOrder DEF Extended
<1> QED
  BY <1>1, <1>2, <1>3, <1>4, <1>5 DEF Read

LEMMA BackendOrderStep ==
  ASSUME WireInv, WireInv', OrderInv, Backend
  PROVE  OrderInv'
<1>1. CASE Authenticate
  <2>1. to # <<>> /\ Head(to).t \in Opening /\ UNCHANGED at
    BY <1>1 DEF Authenticate, Next2, Reply, Opening
  <2>2. at \in Startup
    BY <2>1, HeadOf
  <2> QED
    BY <2>1, <2>2, NoOrder DEF Startup, Extended
<1>2. CASE Parse \/ BindPortal \/ Describe
  <2>1. to # <<>> /\ Head(to).t \in {"Parse", "Bind", "Describe"} /\ ~ srv.skip
    BY <1>2 DEF Parse, BindPortal, Describe, Next2
  <2>2. at \in Stages /\ Head(to).req = call.req /\ Head(to).t \in Steps
    BY <2>1, HeadOf DEF Steps
  <2>3. PICK t \in {"Error", "ParseComplete", "BindComplete", "RowDescription"} :
          /\ \E backend : Reply(<<Msg(t, call.req)>>, backend)
          /\ \/ t = "Error"
             \/ /\ ~ srv.skip /\ ~ srv'.skip
                /\ \/ t = "ParseComplete" /\ Head(to).t = "Parse"
                   \/ t = "BindComplete" /\ Head(to).t = "Bind"
                   \/ t = "RowDescription" /\ Head(to).t = "Describe"
    <3>1. CASE Parse
      BY <3>1, <2>1, <2>2 DEF Parse, Next2, Refuse, Reply, WireInv, SrvT
    <3>2. CASE BindPortal
      BY <3>2, <2>1, <2>2 DEF BindPortal, Next2, Refuse, Reply
    <3>3. CASE Describe
      BY <3>3, <2>1, <2>2 DEF Describe, Next2, Reply
    <3> QED
      BY <1>2, <3>1, <3>2, <3>3
  <2>4. PICK backend : t \in Answers /\ Reply(<<Msg(t, call.req)>>, backend)
    BY <2>3 DEF Answers
  <2> QED
    BY <2>1, <2>2, <2>3, <2>4, OneOrderInv
<1> QED
  BY <1>1, <1>2, SkipOrderInv, ExecuteOrderInv, SyncOrderInv, SimpleOrderInv, PassOnOrderInv DEF Backend

LEMMA OrderStep == WireInv /\ WireInv' /\ OrderInv /\ [Next]_vars => OrderInv'
<1>1. SUFFICES ASSUME WireInv, WireInv', OrderInv, [Next]_vars PROVE OrderInv'
  OBVIOUS
<1>2. CASE Connect \/ Release \/ Acquire
  <2>1. at' \in {"none", "pooled", "held", "startup"}
    BY <1>2 DEF Connect, Release, Acquire, Destroy, Gone
  <2> QED
    BY <2>1, NoOrder DEF Extended
<1>3. CASE Start
  BY <1>1, <1>3, StartOrderInv
<1>4. CASE Environment \/ UNCHANGED vars
  <2>1. UNCHANGED <<at, to, wire, call>> /\ srv'.skip = srv.skip
    BY <1>1, <1>4 DEF Environment, CtxEnds, Notify, Reshape, BackendDies, vars, WireInv, SrvT
  <2> QED
    BY <1>1, <2>1, SameOrder
<1> QED
  BY <1>1, <1>2, <1>3, <1>4, ReadOrderStep, BackendOrderStep DEF Next

LEMMA OrderHolds == Spec => []OrderInv
BY InvInit, OrderInit, WireStep, OrderStep, PTL DEF Spec

-----------------------------------------------------------------------------
(* The theorems *)

\* InStep, whatever the sets of requests and texts: between two calls nothing
\* of the last one is on its way in either direction, and the status byte that
\* decides whether the pool keeps the connection is the backend's; in a call
\* the reader always comes to a message that it reads on, so that the
\* connection is never given up for a message out of its order.
THEOREM AlwaysInStep == Spec => []InStep
<1>1. ASSUME WireInv, OrderInv PROVE InStep
  <2>1. ASSUME Boundary PROVE \A i \in DOMAIN wire : wire[i].t \in Async
    <3>1. DOMAIN wire = 1 .. Len(wire)
      BY <1>1 DEF WireInv, StreamT
    <3> QED
      BY <1>1, <2>1, <3>1 DEF WireInv, Place, Boundary, On, Async
  <2>2. Boundary => to = <<>> /\ me.tx = srv.tx /\ ~ srv.skip /\ (at = "pooled" => srv.tx = "I")
    BY <1>1 DEF WireInv, Place, Asked, Boundary, Stages, Extended
  <2>3. ASSUME at \in Extended, wire # <<>>, Head(wire).t \notin Async PROVE Head(wire).t \in Expects(at)
    BY <1>1, <2>3, ReadAwaits DEF OrderInv, WireInv, StreamT, Async
  <2>4. ASSUME at = "simple", wire # <<>>, Head(wire).t \notin Async
        PROVE  \/ Head(wire).t \in Expects(at)
               \/ Head(wire).t = "CopyIn" /\ call.text = "script"
    <3>1. Head(wire) \in On(wire)
      BY <1>1, <2>4, ReadOne DEF WireInv, StreamT
    <3>2. /\ Head(wire).t \in Expects("simple") \cup {"CopyIn", "Note"}
          /\ Head(wire).t = "CopyIn" => call.text = "script"
      BY <1>1, <2>4, <3>1 DEF OrderInv
    <3> QED
      BY <2>4, <3>2 DEF Async
  <2> QED
    BY <2>1, <2>2, <2>3, <2>4 DEF InStep
<1> QED
  BY <1>1, WireHolds, OrderHolds, PTL

\* AnswersAreOwn: a call is told what the backend did for its own statement,
\* whatever was refused, skipped, cancelled or drained before it.  An SQL error is
\* always true; a success is, but for the two that drainToReady makes: the commit
\* at Sync failed, or the backend died before it, and the drain did not say.
THEOREM AnswersStayOwn == Spec => []AnswersAreOwn
<1>1. ASSUME WireInv PROVE AnswersAreOwn
  <2>1. \A r \in Request :
          /\ ends[r] = "ok" => did[r] \in {"kept", "pending", "undone"} \/ (did[r] = "done" /\ r \in cut)
          /\ ends[r] = "refused" => did[r] = "refused"
    BY <1>1 DEF WireInv, Past, Ran
  <2>2. wire # <<>> => Head(wire) \in On(wire)
    BY <1>1, ReadOne DEF WireInv, StreamT
  <2> QED
    BY Zenon, <1>1, <2>1, <2>2 DEF WireInv, Own, AnswersAreOwn, Async
<1> QED
  BY <1>1, WireHolds, PTL

\* CacheIsBacked: the statement cache names statements that the backend has,
\* under the text they were parsed from.  The invariant has it at every moment
\* of the connection's life, not only between two calls.
THEOREM CacheStaysBacked == Spec => []CacheIsBacked
<1>1. WireInv => CacheIsBacked
  BY DEF WireInv, Cache, Backed, CacheIsBacked
<1> QED
  BY <1>1, WireHolds, PTL

\* AnswerIsComing: of a call that has not returned, either the backend has
\* something to read or the Ready that ends it is on the wire.
THEOREM AnswersCome == Spec => []AnswerIsComing
<1>1. ASSUME WireInv PROVE AnswerIsComing
  <2>1. call.req # "none" => at \in InCall
    BY <1>1 DEF WireInv, Place, NoCall
  <2>2. ASSUME NEW m \in On(wire), m.t = "Ready" PROVE \E i \in DOMAIN wire : wire[i].t = "Ready"
    <3>1. DOMAIN wire = 1 .. Len(wire)
      BY <1>1 DEF WireInv, StreamT
    <3> QED
      BY <2>2, <3>1 DEF On
  <2> QED
    BY <1>1, <2>1, <2>2 DEF WireInv, LastWord, AnswerIsComing
<1> QED
  BY <1>1, WireHolds, PTL
=============================================================================
