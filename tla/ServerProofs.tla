----------------------------- MODULE ServerProofs -----------------------------
(***************************************************************************)
(* Proofs about Server for every set of clients and scripts, every kind of *)
(* backend and every bound.                                                *)
(***************************************************************************)
EXTENDS ServerInv, TLAPS, FiniteSetTheorems

(* The invariant, by the part of the system it speaks of.                    *)
HandlerOK(h) ==
    /\ h \in Handlers /\ h.n \in 1..serial[h.from]
    /\ IF h.verb \in {"POST", "PUT"} THEN h.body \in Bodies ELSE h.body = NoFile
    /\ h.retries > 0 => h.pc \in {"count", "counted"} /\ Success(h) /\ backend = "remote"
    /\ h.pc = "counted" => h.retries > 0
    /\ h.pc = "assigning" => backend = "memory"

HandlersOK == \A h \in handlers : HandlerOK(h)

StoreOK ==
    /\ backend \in Backends /\ up \in BOOLEAN
    /\ data \in Trees /\ strays \subseteq Operations

CountersOK == requestCount \in [Labels -> Nat] /\ retryCount \in [Methods -> Nat]

ClientsOK ==
    /\ at \in [Clients -> {"idle", "ready", "waiting"}]
    /\ step \in [Clients -> Nat] /\ \A c \in Clients : step[c] \in DOMAIN ScriptOf[c]
    /\ names \in [Clients -> Paths \X Paths]
    /\ serial \in [Clients -> Nat]
    /\ reply \in [Clients -> Codes]
    /\ stats \in [Clients -> [requests : Counts, actions : Counts]]
    /\ \A c \in Clients : ActionsOf(c) <= MaxActions[c]
    /\ SpareInv

HistoryOK ==
    /\ arrived \in Nat /\ givenUp \in Nat /\ excused \subseteq Clients
    /\ raced \in BOOLEAN
    /\ raced => backend = "memory" /\ excused = Clients

LEMMA Parts ==
    TypesInv <=> HandlersOK /\ StoreOK /\ CountersOK /\ ClientsOK /\ HistoryOK
BY DEF TypesInv, TypeOK, BodyInv, RetryInv, MapInv, HandlersOK, HandlerOK, StoreOK,
       CountersOK, ClientsOK, HistoryOK

LEMMA Assembled ==
    ASSUME HandlersOK', StoreOK', CountersOK', ClientsOK', HistoryOK'
    PROVE  TypesInv'
BY DEF TypesInv, TypeOK, BodyInv, RetryInv, MapInv, HandlersOK, HandlerOK, StoreOK,
       CountersOK, ClientsOK, HistoryOK

LEMMA StatusTyped ==
    ASSUME NEW verb, NEW code
    PROVE  /\ Status(verb, code) \in Codes \ {NoReply, Broken}
           /\ Status(verb, code) \in {200, 201, 204} => code = "ok"
           /\ code = "ok" /\ verb \in Methods \ {"PATCH"} =>
                Status(verb, code) \in {200, 201, 204}
BY DEF Status, Codes, NoReply, Broken, Methods

-----------------------------------------------------------------------------
(* The clients.                                                              *)

(* What a client asks for next.                                              *)
LEMMA AskTyped ==
    ASSUME ClientsOK, NEW c \in Clients
    PROVE  /\ ScriptOf[c] \in Seq(Asks) /\ step[c] \in 1..Len(ScriptOf[c])
           /\ Len(ScriptOf[c]) \in Nat \ {0}
           /\ ScriptOf[c][step[c]] \in Asks
<1>1. ScriptOf[c] \in Seq(Asks) /\ ScriptOf[c] # <<>>
  BY ServerAssumption
<1>2. step[c] \in 1..Len(ScriptOf[c])
  BY <1>1 DEF ClientsOK
<1>3. QED
  BY <1>1, <1>2

(* Recording an outcome counts one more request, and one more action if it   *)
(* ends one.                                                                 *)
LEMMA Recorded ==
    ASSUME ClientsOK, NEW c \in Clients, NEW good \in BOOLEAN
    PROVE  /\ RecordRequest(c, good) \in [Clients -> [requests : Counts, actions : Counts]]
           /\ \A e \in Clients : RecordRequest(c, good)[e].actions = stats[e].actions
           /\ RecordAction(c, good) \in [Clients -> [requests : Counts, actions : Counts]]
           /\ \A e \in Clients \ {c} : RecordAction(c, good)[e].actions = stats[e].actions
           /\ RecordAction(c, good)[c].actions.good + RecordAction(c, good)[c].actions.bad
                = ActionsOf(c) + 1
<1>1. stats \in [Clients -> [requests : Counts, actions : Counts]]
  BY DEF ClientsOK
<1>2. /\ stats[c].requests \in Counts /\ stats[c].actions \in Counts
  BY <1>1
<1>3. /\ Tally(stats[c].requests, good) \in Counts
      /\ Tally(stats[c].actions, good) \in Counts
      /\ Tally(stats[c].actions, good).good + Tally(stats[c].actions, good).bad
           = ActionsOf(c) + 1
  BY <1>2 DEF Counts, Tally, ActionsOf
<1>4. /\ RecordRequest(c, good) \in [Clients -> [requests : Counts, actions : Counts]]
      /\ RecordRequest(c, good)[c].actions = stats[c].actions
      /\ \A e \in Clients \ {c} : RecordRequest(c, good)[e] = stats[e]
  BY <1>1, <1>3 DEF RecordRequest
<1>5. /\ RecordAction(c, good) \in [Clients -> [requests : Counts, actions : Counts]]
      /\ RecordAction(c, good)[c].actions = Tally(stats[c].actions, good)
      /\ \A e \in Clients \ {c} : RecordAction(c, good)[e] = RecordRequest(c, good)[e]
  BY <1>3, <1>4 DEF RecordAction
<1>6. QED
  BY <1>3, <1>4, <1>5

(* An action that fails leaves a client that may begin another.               *)
LEMMA FailStep ==
    ASSUME ClientsOK, NEW c \in Clients, at[c] # "idle", Fail(c),
           UNCHANGED <<names, serial>>
    PROVE  ClientsOK'
<1>1. /\ stats' \in [Clients -> [requests : Counts, actions : Counts]]
      /\ \A e \in Clients \ {c} : stats'[e].actions = stats[e].actions
      /\ stats'[c].actions.good + stats'[c].actions.bad = ActionsOf(c) + 1
  BY Recorded DEF Fail
<1>2. ActionsOf(c)' = ActionsOf(c) + 1 /\ \A e \in Clients \ {c} : ActionsOf(e)' = ActionsOf(e)
  BY <1>1 DEF ActionsOf
<1>3. ActionsOf(c) \in Nat /\ MaxActions[c] \in Nat /\ ActionsOf(c) < MaxActions[c]
  BY ServerAssumption DEF ClientsOK, SpareInv, ActionsOf, Counts
<1>4. at' \in [Clients -> {"idle", "ready", "waiting"}] /\ SpareInv'
  BY <1>2 DEF Fail, ClientsOK, SpareInv
<1>5. \A e \in Clients : ActionsOf(e)' <= MaxActions[e]
  BY <1>2, <1>3 DEF ClientsOK
<1>6. reply' \in [Clients -> Codes]
  BY DEF Fail, ClientsOK, Codes
<1>7. QED
  BY <1>1, <1>4, <1>5, <1>6 DEF Fail, ClientsOK

LEMMA BeginStep ==
    ASSUME ClientsOK, HistoryOK, NEW c \in Clients, BeginAction(c)
    PROVE  ClientsOK' /\ HistoryOK'
<1>1. ScriptOf[c] \in Seq(Asks) /\ 1 \in DOMAIN ScriptOf[c]
  BY AskTyped
<1>2. \A e \in Clients : step'[e] \in DOMAIN ScriptOf[e]
  BY <1>1 DEF BeginAction, ClientsOK
<1>3. NamesFor[c] \subseteq Paths \X Paths
  BY ServerAssumption
<1>4. names' \in [Clients -> Paths \X Paths]
  BY <1>3 DEF BeginAction, ClientsOK
<1>5. excused' \subseteq Clients /\ (excused = Clients /\ raced => excused' = Clients)
  BY DEF BeginAction, HistoryOK
<1>6. (\A e \in Clients : ActionsOf(e)' = ActionsOf(e)) /\ ActionsOf(c) < MaxActions[c]
  BY DEF BeginAction, ActionsOf
<1>7. SpareInv'
  BY <1>6 DEF BeginAction, ClientsOK, SpareInv
<1>8. QED
  BY <1>2, <1>4, <1>5, <1>6, <1>7 DEF BeginAction, ClientsOK, HistoryOK, serverVars

(* A reply moves the client to its next request, or ends its action.          *)
LEMMA ReceiveStep ==
    ASSUME ClientsOK, NEW c \in Clients, Receive(c)
    PROVE  ClientsOK'
<1>1. at[c] # "idle" /\ UNCHANGED <<names, serial>>
  BY DEF Receive
<1>2. CASE Fail(c)
  BY <1>1, <1>2, FailStep
<1> DEFINE last == step[c] = Len(ScriptOf[c])
<1>3. CASE /\ ~Fail(c)
           /\ reply' = [reply EXCEPT ![c] = NoReply]
           /\ at' = [at EXCEPT ![c] = IF last THEN "idle" ELSE "ready"]
           /\ step' = IF last THEN step ELSE [step EXCEPT ![c] = @ + 1]
           /\ stats' = IF last THEN RecordAction(c, TRUE) ELSE RecordRequest(c, TRUE)
  <2>1. ActionsOf(c) \in Nat /\ MaxActions[c] \in Nat /\ ActionsOf(c) < MaxActions[c]
    BY <1>1, ServerAssumption DEF ClientsOK, SpareInv, ActionsOf, Counts
  <2>2. /\ stats' \in [Clients -> [requests : Counts, actions : Counts]]
        /\ \A e \in Clients \ {c} : stats'[e].actions = stats[e].actions
    BY <1>3, Recorded
  <2>3. /\ \A e \in Clients \ {c} : ActionsOf(e)' = ActionsOf(e)
        /\ ActionsOf(c)' = IF last THEN ActionsOf(c) + 1 ELSE ActionsOf(c)
    BY <1>3, <2>2, Recorded DEF ActionsOf
  <2>4. \A e \in Clients : ActionsOf(e)' <= MaxActions[e]
    <3>1. \A e \in Clients : ActionsOf(e) <= MaxActions[e]
      BY DEF ClientsOK
    <3>2. ActionsOf(c)' <= MaxActions[c]
      BY <2>1, <2>3, <3>1
    <3>3. QED
      BY <2>3, <3>1, <3>2
  <2>5. at' \in [Clients -> {"idle", "ready", "waiting"}] /\ SpareInv'
    BY <1>3, <2>1, <2>3 DEF ClientsOK, SpareInv
  <2>6. step' \in [Clients -> Nat] /\ \A e \in Clients : step'[e] \in DOMAIN ScriptOf[e]
    <3>1. /\ ScriptOf[c] \in Seq(Asks) /\ step[c] \in 1..Len(ScriptOf[c])
          /\ step \in [Clients -> Nat]
      BY AskTyped DEF ClientsOK
    <3>2. ~last => step[c] + 1 \in DOMAIN ScriptOf[c] /\ step[c] + 1 \in Nat
      BY <3>1
    <3>3. step' = IF last THEN step ELSE [step EXCEPT ![c] = step[c] + 1]
      BY <1>3
    <3> HIDE DEF last
    <3>4. step' \in [Clients -> Nat]
      BY <3>1, <3>2, <3>3
    <3>5. QED
      BY <3>1, <3>2, <3>3 DEF ClientsOK
  <2>7. reply' \in [Clients -> Codes]
    BY <1>3 DEF ClientsOK, Codes
  <2>8. QED
    BY <1>1, <2>2, <2>4, <2>5, <2>6, <2>7 DEF ClientsOK
<1>4. QED
  BY <1>2, <1>3 DEF Receive

(* A handler that stays is as good as it was, when nothing it speaks of goes  *)
(* back.                                                                      *)
LEMMA HandlersKept ==
    ASSUME HandlersOK, ClientsOK, backend' = backend, handlers' \subseteq handlers,
           serial' = serial
    PROVE  HandlersOK'
BY DEF HandlersOK, HandlerOK, Success

LEMMA SendStep ==
    ASSUME HandlersOK, ClientsOK, HistoryOK, NEW c \in Clients, Send(c)
    PROVE  HandlersOK' /\ ClientsOK' /\ HistoryOK'
<1> DEFINE ask == ScriptOf[c][step[c]]
           h == [from |-> c, n |-> serial[c] + 1, verb |-> ask.verb,
                 path |-> names[c][ask.name], body |-> ask.body,
                 pc |-> "received", retries |-> 0, code |-> NoReply]
<1>1. /\ at[c] = "ready" /\ handlers' = handlers \cup {h}
      /\ serial' = [serial EXCEPT ![c] = @ + 1]
      /\ at' = [at EXCEPT ![c] = "waiting"]
      /\ UNCHANGED <<backend, raced, step, names, reply, stats, givenUp, excused>>
      /\ arrived' \in {arrived, arrived + 1}
  BY DEF Send
<1>2. ask \in Asks /\ names[c] \in Paths \X Paths /\ serial[c] \in Nat
  BY AskTyped DEF ClientsOK
<1>3. /\ ask.verb \in Methods
      /\ names[c][ask.name] \in Paths
      /\ IF ask.verb \in {"POST", "PUT"} THEN ask.body \in Bodies ELSE ask.body = NoFile
  BY <1>2 DEF Asks, Methods
<1>4. 0 \in 0..MaxRetries /\ NoReply \in Codes
  BY ServerAssumption DEF Codes
<1> HIDE DEF ask
<1>5. PICK new : new = h
  OBVIOUS
<1>6. new \in Handlers
  BY <1>2, <1>3, <1>4, <1>5 DEF Handlers
<1>7. HandlerOK(new)'
  <2>1. /\ new.n = serial'[c] /\ serial'[c] \in Nat /\ new.n \in Nat /\ new.n > 0
        /\ new.from = c
    BY <1>1, <1>2, <1>5 DEF ClientsOK
  <2>2. /\ IF new.verb \in {"POST", "PUT"} THEN new.body \in Bodies ELSE new.body = NoFile
        /\ new.retries = 0 /\ new.pc = "received"
    BY <1>3, <1>5
  <2>3. QED
    BY <1>6, <2>1, <2>2 DEF HandlerOK
<1>8. \A g \in handlers : HandlerOK(g)'
  <2>1. SUFFICES ASSUME NEW g \in handlers PROVE HandlerOK(g)'
    OBVIOUS
  <2>2. HandlerOK(g) /\ g.from \in Clients /\ serial[g.from] \in Nat /\ g.n \in Nat
    BY DEF HandlersOK, HandlerOK, ClientsOK, Handlers
  <2>3. serial'[g.from] \in Nat /\ serial'[g.from] >= serial[g.from]
    BY <1>1, <2>2 DEF ClientsOK
  <2>4. g.n \in 1..serial'[g.from]
    BY <2>2, <2>3 DEF HandlerOK
  <2>5. QED
    BY <1>1, <2>2, <2>4 DEF HandlerOK, Success
<1>9. HandlersOK'
  BY <1>1, <1>5, <1>7, <1>8 DEF HandlersOK
<1>10. \A e \in Clients : ActionsOf(e)' = ActionsOf(e)
  BY <1>1 DEF ActionsOf
<1>11. ClientsOK'
  BY <1>1, <1>2, <1>10 DEF ClientsOK, SpareInv
<1>12. HistoryOK'
  BY <1>1 DEF HistoryOK
<1>13. QED
  BY <1>9, <1>11, <1>12

LEMMA ClientStep ==
    ASSUME TypesInv, NEW c \in Clients, Client(c) \/ Timeout(c)
    PROVE  TypesInv'
<1>1. HandlersOK /\ StoreOK /\ CountersOK /\ ClientsOK /\ HistoryOK
  BY Parts
<1>2. UNCHANGED <<backend, up, data, strays, raced, requestCount, retryCount>>
  BY DEF Client, Timeout, BeginAction, Send, SendFails, Receive, serverVars
<1>3. StoreOK' /\ CountersOK'
  BY <1>1, <1>2 DEF StoreOK, CountersOK
<1>4. CASE Send(c)
  BY <1>1, <1>3, <1>4, SendStep, Assembled
<1>5. CASE ~Send(c)
  <2>1. /\ handlers' = handlers /\ serial' = serial
    BY <1>5 DEF Client, Timeout, BeginAction, SendFails, Receive, serverVars
  <2>2. HandlersOK'
    BY <1>1, <1>2, <2>1, HandlersKept
  <2>3. CASE BeginAction(c)
    BY <1>1, <1>3, <2>2, <2>3, BeginStep, Assembled
  <2>4. CASE SendFails(c) \/ Receive(c)
    <3>1. HistoryOK'
      BY <1>1, <1>2, <2>4 DEF SendFails, Receive, HistoryOK, history
    <3>2. ClientsOK'
      BY <1>1, <2>4, FailStep, ReceiveStep DEF SendFails
    <3>3. QED
      BY <1>3, <2>2, <3>1, <3>2, Assembled
  <2>5. CASE Timeout(c)
    <3>1. HistoryOK'
      BY <1>1, <1>2, <2>5 DEF Timeout, HistoryOK
    <3>2. ClientsOK'
      BY <1>1, <2>5, FailStep DEF Timeout, serverVars
    <3>3. QED
      BY <1>3, <2>2, <3>1, <3>2, Assembled
  <2>6. QED
    BY <1>5, <2>3, <2>4, <2>5 DEF Client
<1>6. QED
  BY <1>4, <1>5

-----------------------------------------------------------------------------
(* The handlers.                                                             *)

LEMMA Replaced ==
    ASSUME HandlersOK, NEW h \in handlers, NEW g, HandlerOK(g), Becomes(h, g),
           backend' = backend, serial' = serial
    PROVE  HandlersOK'
BY DEF HandlersOK, HandlerOK, Becomes, Success

(* What a handler writes counts retries only for a success.                   *)
LEMMA Written ==
    ASSUME HandlersOK, NEW h \in handlers, NEW code, NEW n \in 0..MaxRetries,
           n > 0 => backend = "remote" /\ h.verb # "PATCH",
           Write(h, code, n), backend' = backend, serial' = serial
    PROVE  HandlersOK'
<1> DEFINE g == [h EXCEPT !.pc = "count", !.code = Status(h.verb, code),
                          !.retries = IF code = "ok" THEN n ELSE 0]
<1>1. HandlerOK(h) /\ h \in Handlers /\ MaxRetries \in Nat
  BY ServerAssumption DEF HandlersOK, HandlerOK
<1>2. /\ Status(h.verb, code) \in Codes
      /\ code = "ok" /\ h.verb # "PATCH" => Status(h.verb, code) \in {200, 201, 204}
  BY <1>1, StatusTyped DEF Handlers
<1>3. PICK k \in 0..MaxRetries : k = IF code = "ok" THEN n ELSE 0
  BY <1>1
<1>4. /\ g = [h EXCEPT !.pc = "count", !.code = Status(h.verb, code), !.retries = k]
      /\ Becomes(h, g)
  BY <1>3 DEF Write
<1> HIDE DEF g
<1>5. /\ g \in Handlers /\ g.code = Status(h.verb, code) /\ g.pc = "count"
      /\ g.retries = k
      /\ g.from = h.from /\ g.n = h.n /\ g.verb = h.verb /\ g.body = h.body
  BY <1>1, <1>2, <1>4 DEF Handlers
<1>6. HandlerOK(g)
  BY <1>1, <1>2, <1>3, <1>5 DEF HandlerOK, Success
<1>7. QED
  BY <1>4, <1>6, Replaced

(* A handler that goes on without retries to report is as good as before.     *)
LEMMA GoesOn ==
    ASSUME HandlersOK, NEW h \in handlers,
           NEW pc \in {"assigning", "count", "flush"}, NEW code \in Codes,
           pc = "assigning" => backend = "memory",
           Becomes(h, [h EXCEPT !.pc = pc, !.code = code, !.retries = 0]),
           backend' = backend, serial' = serial
    PROVE  HandlersOK'
<1> DEFINE g == [h EXCEPT !.pc = pc, !.code = code, !.retries = 0]
<1>1. HandlerOK(h) /\ h \in Handlers /\ 0 \in 0..MaxRetries
  BY ServerAssumption DEF HandlersOK, HandlerOK
<1>2. /\ g \in Handlers /\ g.retries = 0 /\ g.pc = pc
      /\ g.from = h.from /\ g.n = h.n /\ g.verb = h.verb /\ g.body = h.body
  BY <1>1, Zenon DEF Handlers
<1> HIDE DEF g
<1>3. HandlerOK(g)
  BY <1>1, <1>2 DEF HandlerOK
<1>4. QED
  BY <1>3, Replaced DEF g

(* Every step of a handler keeps the handlers as they have to be.             *)
LEMMA HandlersStep ==
    ASSUME HandlersOK, ClientsOK, NEW h \in handlers, Handler(h)
    PROVE  HandlersOK'
<1>1. backend' = backend /\ serial' = serial
  BY DEF Handler, Scrape, NotAllowed, BodyBreaks, Lookup, Assign, Panics, RemoteAnswers,
         RemoteFails, CountRequest, CountOne, CountRetries, Flush, Within, clientVars
<1>2. /\ HandlerOK(h) /\ h \in Handlers /\ h.retries \in 0..MaxRetries
      /\ 0 \in 0..MaxRetries /\ MaxRetries \in Nat
  BY ServerAssumption DEF HandlersOK, HandlerOK, Handlers
<1>3. h.pc \notin {"count", "counted"} => h.retries = 0
  BY <1>2 DEF HandlerOK
<1>4. CASE Scrape(h) \/ NotAllowed(h)
  <2>1. PICK pc \in {"flush", "count"}, code \in {200, 405} :
          Becomes(h, [h EXCEPT !.pc = pc, !.code = code])
    BY <1>4 DEF Scrape, NotAllowed
  <2>2. h.retries = 0
    BY <1>3, <1>4 DEF Scrape, NotAllowed, Received
  <2>3. [h EXCEPT !.pc = pc, !.code = code] = [h EXCEPT !.pc = pc, !.code = code, !.retries = 0]
    BY <1>2, <2>2 DEF Handlers
  <2>4. code \in Codes
    BY DEF Codes
  <2>5. QED
    BY <1>1, <2>1, <2>3, <2>4, GoesOn
<1>5. CASE BodyBreaks(h)
  BY <1>1, <1>2, <1>5, Written DEF BodyBreaks
<1>6. CASE Lookup(h)
  <2>1. h.pc = "received" /\ h.verb # "PATCH" /\ backend = "memory"
    BY <1>6 DEF Lookup, AtBackend, Received
  <2>2. CASE Becomes(h, [h EXCEPT !.pc = "assigning"])
    <3>1. h.code \in Codes /\ [h EXCEPT !.pc = "assigning"]
             = [h EXCEPT !.pc = "assigning", !.code = h.code, !.retries = 0]
      BY <1>2, <1>3, <2>1 DEF Handlers
    <3>2. QED
      BY <1>1, <2>1, <2>2, <3>1, GoesOn
  <2>3. CASE \E code : Write(h, code, 0)
    BY <1>1, <1>2, <2>1, <2>3, Written
  <2>4. QED
    BY <1>6, <2>2, <2>3 DEF Lookup
<1>7. CASE Assign(h)
  BY <1>1, <1>2, <1>7, Written DEF Assign
<1>8. CASE RemoteAnswers(h) \/ RemoteFails(h)
  <2>1. h.verb # "PATCH" /\ backend = "remote"
    BY <1>8 DEF RemoteAnswers, RemoteFails, AtBackend
  <2>2. PICK n \in 0..MaxRetries : \E code : Write(h, code, n)
    BY <1>8 DEF RemoteAnswers, RemoteFails, RetriesLeft
  <2>3. PICK code : Write(h, code, n)
    BY <2>2
  <2>4. QED
    BY <1>1, <2>1, <2>3, Written
<1>9. CASE Flush(h)
  BY <1>1, <1>9, HandlersKept DEF Flush
<1>10. CASE Panics(h)
  <2>1. h.retries = 0 /\ Broken \in Codes
    BY <1>3, <1>10 DEF Panics, UsesMap, AtBackend, Received, Codes
  <2>2. [h EXCEPT !.pc = "count", !.code = Broken]
          = [h EXCEPT !.pc = "count", !.code = Broken, !.retries = 0]
    BY <1>2, <2>1 DEF Handlers
  <2>3. QED
    BY <1>1, <1>10, <2>1, <2>2, GoesOn DEF Panics
<1>11. CASE CountRequest(h)
  <2>1. h.pc = "count"
    BY <1>11 DEF CountRequest, CountOne
  <2>2. PICK g : /\ g = [h EXCEPT !.pc = IF h.retries > 0 THEN "counted" ELSE "flush"]
                 /\ Becomes(h, g)
    BY <1>11 DEF CountRequest, CountOne
  <2>3. /\ g \in Handlers /\ g.retries = h.retries /\ g.code = h.code
        /\ g.from = h.from /\ g.n = h.n /\ g.verb = h.verb /\ g.body = h.body
        /\ g.pc = IF h.retries > 0 THEN "counted" ELSE "flush"
    BY <1>2, <2>2 DEF Handlers
  <2>4. h.retries > 0 \/ h.retries = 0
    BY <1>2
  <2>5. HandlerOK(g)
    BY <1>2, <2>3, <2>4 DEF HandlerOK, Success
  <2>6. QED
    BY <1>1, <2>2, <2>5, Replaced
<1>12. CASE CountRetries(h)
  <2>1. h.code \in Codes /\ [h EXCEPT !.pc = "flush", !.retries = 0]
           = [h EXCEPT !.pc = "flush", !.code = h.code, !.retries = 0]
    BY <1>2 DEF Handlers
  <2>2. QED
    BY <1>1, <1>12, <2>1, GoesOn DEF CountRetries
<1>13. QED
  BY <1>4, <1>5, <1>6, <1>7, <1>8, <1>9, <1>10, <1>11, <1>12 DEF Handler

(* What a call of the backend asks for, and what a write leaves.              *)
LEMMA EffectTyped ==
    ASSUME data \in Trees, NEW o \in Operations
    PROVE  Effect(o, data) \in Trees
<1>1. o.path \in Paths /\ o.body \in Bodies \cup {NoFile}
  BY DEF Operations
<1>2. QED
  BY <1>1 DEF Effect, Trees

LEMMA OperationTyped ==
    ASSUME NEW h, HandlerOK(h), h.verb # "PATCH"
    PROVE  Operation(h) \in Operations
<1>1. h.path \in Paths /\ h.verb \in {"GET", "POST", "PUT", "DELETE"}
  BY DEF HandlerOK, Handlers, Methods
<1>2. CASE h.verb \in {"POST", "PUT"}
  BY <1>1, <1>2 DEF HandlerOK, Operation, Operations
<1>3. CASE h.verb \in {"GET", "DELETE"}
  BY <1>1, <1>3 DEF HandlerOK, Operation, Operations
<1>4. QED
  BY <1>1, <1>2, <1>3

LEMMA LabelsDiffer ==
    ASSUME NEW u, NEW v, NEW x, NEW y, NEW a, NEW b, <<u, x, a>> = <<v, y, b>>
    PROVE  u = v /\ x = y /\ a = b
OBVIOUS

(* Counting one more request, or its retries.                                 *)
LEMMA CountStep ==
    ASSUME HandlersOK, CountersOK, NEW h \in handlers, CountRequest(h) \/ CountRetries(h)
    PROVE  CountersOK'
<1>1. h.verb \in Methods /\ h.retries \in Nat
  BY ServerAssumption DEF HandlersOK, HandlerOK, Handlers
<1>2. CASE CountRequest(h)
  <2> DEFINE label == <<h.verb, StatusOf(h), h.retries > 0>>
  <2>1. StatusOf(h) \in {"success", "error", ""} /\ (h.retries > 0) \in BOOLEAN
    BY <1>1 DEF StatusOf
  <2>2. label \in Labels
    BY <1>1, <2>1 DEF Labels
  <2>3. requestCount' = [requestCount EXCEPT ![label] = @ + 1] /\ retryCount' = retryCount
    BY <1>2 DEF CountRequest, CountOne
  <2> HIDE DEF label
  <2>4. QED
    BY <2>2, <2>3 DEF CountersOK
<1>3. CASE CountRetries(h)
  BY <1>1, <1>3 DEF CountRetries, CountersOK
<1>4. QED
  BY <1>2, <1>3

LEMMA HandlerStep ==
    ASSUME TypesInv, NEW h \in handlers, Handler(h)
    PROVE  TypesInv'
<1>1. HandlersOK /\ StoreOK /\ CountersOK /\ ClientsOK /\ HistoryOK /\ HandlerOK(h)
  BY Parts DEF HandlersOK
<1>2. HandlersOK'
  BY <1>1, HandlersStep
<1>3. StoreOK'
  <2>1. backend' = backend /\ up' = up
    BY DEF Handler, Scrape, NotAllowed, BodyBreaks, Lookup, Assign, Panics,
           RemoteAnswers, RemoteFails, CountRequest, CountOne, CountRetries, Flush, Within
  <2>2. CASE Assign(h)
    <3>1. h.path \in Paths /\ h.body \in Bodies \cup {NoFile}
      BY <1>1 DEF HandlerOK, Handlers
    <3>2. QED
      BY <1>1, <2>1, <2>2, <3>1 DEF Assign, StoreOK, Trees
  <2>3. CASE RemoteAnswers(h) \/ RemoteFails(h)
    <3>1. Operation(h) \in Operations
      BY <1>1, <2>3, OperationTyped DEF RemoteAnswers, RemoteFails, AtBackend
    <3>2. QED
      BY <1>1, <2>1, <2>3, <3>1, EffectTyped DEF RemoteAnswers, RemoteFails, StoreOK
  <2>4. CASE ~(Assign(h) \/ RemoteAnswers(h) \/ RemoteFails(h))
    BY <1>1, <2>1, <2>4 DEF Handler, Scrape, NotAllowed, BodyBreaks, Lookup, Panics,
       CountRequest, CountOne, CountRetries, Flush, StoreOK
  <2>5. QED
    BY <2>2, <2>3, <2>4
<1>4. CountersOK'
  <2>1. CASE CountRequest(h) \/ CountRetries(h)
    BY <1>1, <2>1, CountStep
  <2>2. CASE ~(CountRequest(h) \/ CountRetries(h))
    <3>1. UNCHANGED <<requestCount, retryCount>>
      BY <2>2 DEF Handler, Scrape, NotAllowed, BodyBreaks, Lookup, Assign, Panics,
         RemoteAnswers, RemoteFails, Flush, Within
    <3>2. QED
      BY <1>1, <3>1 DEF CountersOK
  <2>3. QED
    BY <2>1, <2>2
<1>5. ClientsOK'
  <2>1. UNCHANGED <<at, step, names, serial, stats>>
    BY DEF Handler, Scrape, NotAllowed, BodyBreaks, Lookup, Assign, Panics,
       RemoteAnswers, RemoteFails, CountRequest, CountOne, CountRetries, Flush, Within,
       clientVars
  <2>2. reply' \in [Clients -> Codes]
    <3>1. CASE Flush(h)
      BY <1>1, <3>1 DEF Flush, ClientsOK, HandlerOK, Handlers
    <3>2. CASE ~Flush(h)
      BY <1>1, <3>2 DEF Handler, Scrape, NotAllowed, BodyBreaks, Lookup, Assign,
         Panics, RemoteAnswers, RemoteFails, CountRequest, CountOne, CountRetries, Within,
         clientVars, ClientsOK
    <3>3. QED
      BY <3>1, <3>2
  <2>3. QED
    BY <1>1, <2>1, <2>2 DEF ClientsOK, SpareInv, ActionsOf
<1>6. HistoryOK'
  <2>1. h.from \in Clients
    BY <1>1 DEF HandlerOK, Handlers
  <2> USE DEF Handler, Scrape, NotAllowed, BodyBreaks, Lookup, Assign, Panics,
      RemoteAnswers, RemoteFails, CountRequest, CountOne, CountRetries, Flush, Within, history
  <2>2. excused \subseteq excused' /\ excused' \subseteq excused \cup {h.from}
    OBVIOUS
  <2>3. UNCHANGED <<backend, raced, arrived, givenUp>>
    OBVIOUS
  <2>4. QED
    BY <1>1, <2>1, <2>2, <2>3 DEF HistoryOK
<1>7. QED
  BY <1>2, <1>3, <1>4, <1>5, <1>6, Assembled

-----------------------------------------------------------------------------
(* The invariant.                                                            *)

LEMMA RaceStep ==
    ASSUME TypesInv, MapRace
    PROVE  TypesInv'
<1>1. HandlersOK /\ StoreOK /\ CountersOK /\ ClientsOK /\ HistoryOK
  BY Parts
<1>2. HandlersOK' /\ StoreOK' /\ CountersOK' /\ HistoryOK'
  BY <1>1 DEF MapRace, HandlersOK, StoreOK, CountersOK, HistoryOK
<1>3. reply' \in [Clients -> Codes]
  BY <1>1 DEF MapRace, ClientsOK, Codes
<1>4. ClientsOK'
  BY <1>1, <1>3 DEF MapRace, ClientsOK, SpareInv, ActionsOf
<1>5. QED
  BY <1>2, <1>4, Assembled

LEMMA SpoiledStep ==
    ASSUME TypesInv, MapSpoiled
    PROVE  TypesInv'
<1>1. HandlersOK /\ StoreOK /\ CountersOK /\ ClientsOK /\ HistoryOK
  BY Parts
<1>2. /\ UNCHANGED <<backend, up, data, strays, handlers, requestCount, retryCount>>
      /\ UNCHANGED <<at, step, names, serial, reply, stats, arrived, givenUp>>
      /\ raced' = TRUE /\ excused' = Clients
  BY DEF MapSpoiled, clientVars
<1>3. backend = "memory"
  BY <1>1 DEF MapSpoiled, HandlersOK, HandlerOK
<1>4. HandlersOK' /\ StoreOK' /\ CountersOK' /\ HistoryOK'
  BY <1>1, <1>2, <1>3, HandlersKept DEF StoreOK, CountersOK, HistoryOK
<1>5. ClientsOK'
  BY <1>1, <1>2 DEF ClientsOK, SpareInv, ActionsOf
<1>6. QED
  BY <1>4, <1>5, Assembled

LEMMA AppliesStep ==
    ASSUME TypesInv, RemoteApplies
    PROVE  TypesInv'
<1>1. HandlersOK /\ StoreOK /\ CountersOK /\ ClientsOK /\ HistoryOK
  BY Parts
<1>2. UNCHANGED <<backend, up, raced, handlers, requestCount, retryCount, clientVars, history>>
  BY DEF RemoteApplies
<1>3. HandlersOK' /\ CountersOK' /\ ClientsOK' /\ HistoryOK'
  <2>1. HandlersOK'
    BY <1>1, <1>2, HandlersKept DEF clientVars
  <2>2. CountersOK'
    BY <1>1, <1>2 DEF CountersOK
  <2>3. ClientsOK' /\ HistoryOK'
    BY <1>1, <1>2 DEF ClientsOK, SpareInv, ActionsOf, HistoryOK, clientVars, history
  <2>4. QED
    BY <2>1, <2>2, <2>3
<1>4. StoreOK'
  <2>1. PICK o \in strays : data' = Effect(o, data) /\ strays' = strays \ {o}
    BY DEF RemoteApplies
  <2>2. o \in Operations
    BY <1>1 DEF StoreOK
  <2>3. QED
    BY <1>1, <1>2, <2>1, <2>2, EffectTyped DEF StoreOK
<1>5. QED
  BY <1>3, <1>4, Assembled

LEMMA InvInit == Init => TypesInv
<1> SUFFICES ASSUME Init PROVE TypesInv
  OBVIOUS
<1>1. HandlersOK
  BY DEF Init, HandlersOK
<1>2. StoreOK
  <2>1. Found \subseteq Trees /\ [x \in Paths |-> NoFile] \in Trees
    BY ServerAssumption DEF Trees
  <2>2. QED
    BY <2>1 DEF Init, StoreOK
<1>3. CountersOK
  BY DEF Init, CountersOK
<1>4. ClientsOK
  <2>1. \A c \in Clients : step[c] \in DOMAIN ScriptOf[c]
    <3>1. ASSUME NEW c \in Clients PROVE 1 \in DOMAIN ScriptOf[c]
      <4>1. ScriptOf[c] \in Seq(Asks) /\ ScriptOf[c] # <<>>
        BY ServerAssumption
      <4>2. QED
        BY <4>1
    <3>2. QED
      BY <3>1 DEF Init
  <2>2. /\ names \in [Clients -> Paths \X Paths] /\ step \in [Clients -> Nat]
        /\ at \in [Clients -> {"idle", "ready", "waiting"}] /\ serial \in [Clients -> Nat]
        /\ reply \in [Clients -> Codes]
    BY ServerAssumption DEF Init, Codes
  <2>3. stats \in [Clients -> [requests : Counts, actions : Counts]]
    BY DEF Init, Counts
  <2>4. \A c \in Clients : ActionsOf(c) = 0 /\ MaxActions[c] \in Nat
    BY ServerAssumption DEF Init, ActionsOf
  <2>5. SpareInv /\ \A c \in Clients : ActionsOf(c) <= MaxActions[c]
    BY <2>4 DEF Init, SpareInv
  <2>6. QED
    BY <2>1, <2>2, <2>3, <2>5 DEF ClientsOK
<1>5. HistoryOK
  BY DEF Init, HistoryOK
<1>6. QED
  BY <1>1, <1>2, <1>3, <1>4, <1>5, Parts

LEMMA InvStep == TypesInv /\ [Next]_vars => TypesInv'
<1> SUFFICES ASSUME TypesInv, [Next]_vars PROVE TypesInv'
  OBVIOUS
<1>1. ASSUME NEW c \in Clients, Client(c) \/ Timeout(c) PROVE TypesInv'
  BY <1>1, ClientStep
<1>2. ASSUME NEW h \in handlers, Handler(h) PROVE TypesInv'
  BY <1>2, HandlerStep
<1>3. CASE MapRace
  BY <1>3, RaceStep
<1>4. CASE RemoteApplies
  BY <1>4, AppliesStep
<1>5. CASE MapSpoiled
  BY <1>5, SpoiledStep
<1>6. CASE UNCHANGED vars
  BY <1>6 DEF vars, serverVars, clientVars, history, TypesInv, TypeOK, SpareInv, BodyInv,
     RetryInv, MapInv, Success, ActionsOf
<1>7. QED
  BY <1>1, <1>2, <1>3, <1>4, <1>5, <1>6 DEF Next

(* The inductive invariant holds in every reachable state.                   *)
THEOREM Invariance == Spec => []TypesInv
BY InvInit, InvStep, PTL DEF Spec

(* Every variable has its type: no handler outlives its request's number, no  *)
(* client is asked for more actions than it has.                             *)
THEOREM TypeCorrect == Spec => []TypeOK
<1>1. TypesInv => TypeOK
  BY DEF TypesInv
<1>2. QED
  BY <1>1, Invariance, PTL

-----------------------------------------------------------------------------
(* What a step of a handler does.                                            *)

(* The handler h has become g; the same request, further on.                 *)
Turn(h, g) ==
    /\ handlers' = (handlers \ {h}) \cup {g}
    /\ g.from = h.from /\ g.n = h.n
    /\ g.verb = h.verb /\ g.path = h.path /\ g.body = h.body

Changes(h) == h.verb \in {"POST", "PUT", "DELETE"}

(* What can become of a request that is served: /metrics answers 200; a       *)
(* write of the memory backend starts; or there is an answer, and the data is  *)
(* changed if it is a success.                                               *)
Served(h, g) ==
    \/ /\ h.path = MetricsPath
       /\ g.pc = "flush" /\ g.code = 200
       /\ data' = data
    \/ /\ h.path # MetricsPath
       /\ g.pc = "assigning"
       /\ h.pc = "received" /\ Changes(h)
       /\ data' = data
    \/ /\ h.path # MetricsPath
       /\ g.pc = "count"
       /\ g.code # NoReply
       /\ g.code = Expected(g.verb) <=> Success(g) \/ g.verb = "PATCH"
       /\ data' = IF g.code = Expected(g.verb) /\ Changes(h)
                    THEN [data EXCEPT ![h.path] = h.body] ELSE data

(* Its answer is the one hoped for, if the data is what it needs, its client   *)
(* is still there, the remote does not fail and nobody disturbs it in the map. *)
Fits(h) ==
    /\ Awaited(h) /\ h.from \notin excused'
    /\ h.pc = "received" => h.verb = "PATCH" \/ Outcome(Operation(h), data).code = "ok"

Serving(h) ==
    \/ Scrape(h) \/ NotAllowed(h) \/ BodyBreaks(h)
    \/ Lookup(h) \/ Assign(h) \/ Panics(h) \/ RemoteAnswers(h) \/ RemoteFails(h)

LEMMA StatusMeans ==
    ASSUME NEW verb \in Methods \ {"PATCH"}, NEW code
    PROVE  /\ Status(verb, code) \notin {NoReply, Broken}
           /\ Status(verb, code) = Expected(verb) <=> Status(verb, code) \in {200, 201, 204}
           /\ Status(verb, code) = Expected(verb) <=> code = "ok"
BY DEF Status, Expected, Methods, NoReply, Broken

LEMMA WriteTurns ==
    ASSUME TypesInv, NEW h \in handlers, NEW code, NEW n, Write(h, code, n),
           h.verb # "PATCH"
    PROVE  \E g : /\ Turn(h, g) /\ g.pc = "count"
                  /\ g.code \notin {NoReply, Broken}
                  /\ g.code = Expected(g.verb) <=> Success(g) \/ g.verb = "PATCH"
                  /\ g.code = Expected(g.verb) <=> code = "ok"
<1>1. h \in Handlers
  BY DEF TypesInv, TypeOK
<1> DEFINE k == IF code = "ok" THEN n ELSE 0
           s == Status(h.verb, code)
<1>2. PICK g : g = [h EXCEPT !.pc = "count", !.code = s, !.retries = k] /\ Becomes(h, g)
  BY DEF Write
<1> HIDE DEF k, s
<1>3. Turn(h, g) /\ g.pc = "count" /\ g.code = s
  BY <1>1, <1>2 DEF Handlers, Turn, Becomes
<1>4. h.verb \in Methods \ {"PATCH"} /\ g.verb = h.verb
  BY <1>1, <1>3 DEF Handlers, Turn
<1>5. QED
  BY <1>3, <1>4, StatusMeans DEF Success, s

LEMMA ServingStep ==
    ASSUME TypesInv, HandlerInv, NEW h \in handlers, Serving(h)
    PROVE  \E g : /\ Turn(h, g) /\ Served(h, g) /\ ~Answered(h)
                  /\ Fits(h) /\ g.pc = "count" => g.code = Expected(g.verb)
<1>1. /\ h \in Handlers
      /\ h.path = MetricsPath => h.pc \in {"received", "flush"}
      /\ h.pc = "assigning" => Changes(h)
      /\ h.from \in Clients /\ h.path \in Paths /\ data \in Trees
  BY DEF TypesInv, TypeOK, HandlerInv, FitHandler, Handlers, Changes
<1>2. CASE Scrape(h)
  <2>1. PICK g : g = [h EXCEPT !.pc = "flush", !.code = 200, !.retries = h.retries] /\ Becomes(h, g)
    <3>1. [h EXCEPT !.pc = "flush", !.code = 200]
            = [h EXCEPT !.pc = "flush", !.code = 200, !.retries = h.retries]
      BY <1>1 DEF Handlers
    <3>2. QED
      BY <1>2, <3>1 DEF Scrape
  <2>2. Turn(h, g) /\ g.pc = "flush" /\ g.code = 200
    BY <1>1, <2>1 DEF Handlers, Turn, Becomes
  <2>3. QED
    BY <1>2, <2>2 DEF Scrape, Served, Answered
<1>3. CASE NotAllowed(h)
  <2>1. PICK g : g = [h EXCEPT !.pc = "count", !.code = 405, !.retries = h.retries] /\ Becomes(h, g)
    <3>1. [h EXCEPT !.pc = "count", !.code = 405]
            = [h EXCEPT !.pc = "count", !.code = 405, !.retries = h.retries]
      BY <1>1 DEF Handlers
    <3>2. QED
      BY <1>3, <3>1 DEF NotAllowed
  <2>2. Turn(h, g) /\ g.pc = "count" /\ g.code = 405
    BY <1>1, <2>1 DEF Handlers, Turn, Becomes
  <2>3. g.verb = "PATCH" /\ ~Changes(h) /\ data' = data /\ Received(h)
    BY <1>3, <2>2 DEF NotAllowed, Turn, Changes
  <2>4. QED
    BY <2>2, <2>3 DEF Served, Answered, Received, Expected, NoReply, Broken
<1>4. CASE BodyBreaks(h)
  <2>1. PICK g : /\ Turn(h, g) /\ g.pc = "count" /\ g.code \notin {NoReply, Broken}
                 /\ g.code = Expected(g.verb) <=> Success(g) \/ g.verb = "PATCH"
                 /\ g.code # Expected(g.verb)
    BY <1>4, WriteTurns DEF BodyBreaks
  <2>2. QED
    BY <1>4, <2>1 DEF BodyBreaks, Served, Received, Answered, Fits
<1>5. CASE Lookup(h)
  <2>1. Received(h) /\ h.verb # "PATCH" /\ h.verb \in Methods /\ data' = data
    BY <1>1, <1>5 DEF Lookup, AtBackend, Handlers
  <2>w. PICK found \in MapAnswers(h) :
           /\ IF Writes(Operation(h), found)
                THEN Becomes(h, [h EXCEPT !.pc = "assigning"])
                ELSE Write(h, Outcome(Operation(h), found).code, 0)
           /\ excused' = IF found = data THEN excused ELSE excused \cup {h.from}
    BY <1>5 DEF Lookup
  <2>2. CASE Writes(Operation(h), found)
    <3>1. PICK g : /\ g = [h EXCEPT !.pc = "assigning", !.code = h.code, !.retries = h.retries]
                   /\ Becomes(h, g)
      <4>1. [h EXCEPT !.pc = "assigning"]
              = [h EXCEPT !.pc = "assigning", !.code = h.code, !.retries = h.retries]
        BY <1>1 DEF Handlers
      <4>2. QED
        BY <2>w, <2>2, <4>1
    <3>2. Turn(h, g) /\ g.pc = "assigning"
      BY <1>1, <3>1 DEF Handlers, Turn, Becomes
    <3>3. Changes(h)
      BY <2>1, <2>2 DEF Writes, IsWrite, Operation, Changes, Methods
    <3>4. QED
      BY <2>1, <3>2, <3>3 DEF Served, Received, Answered
  <2>3. CASE ~Writes(Operation(h), found)
    <3>1. PICK code : code = Outcome(Operation(h), found).code /\ Write(h, code, 0)
      BY <2>w, <2>3
    <3>2. PICK g : /\ Turn(h, g) /\ g.pc = "count" /\ g.code \notin {NoReply, Broken}
                   /\ g.code = Expected(g.verb) <=> Success(g) \/ g.verb = "PATCH"
                   /\ g.code = Expected(g.verb) <=> code = "ok"
      BY <2>1, <3>1, WriteTurns
    <3>3. g.code = Expected(g.verb) => ~Changes(h)
      BY <2>3, <3>1, <3>2 DEF Writes, IsWrite, Operation, Changes
    <3>4. Fits(h) => g.code = Expected(g.verb)
      BY <2>1, <2>w, <3>1, <3>2 DEF Fits, Received
    <3>5. QED
      BY <2>1, <3>2, <3>3, <3>4 DEF Served, Received, Answered
  <2>4. QED
    BY <2>2, <2>3
<1>6. CASE Assign(h)
  <2>1. h.pc = "assigning" /\ Changes(h) /\ h.path # MetricsPath /\ h.verb # "PATCH"
    BY <1>1, <1>6 DEF Assign, Changes
  <2>2. PICK g : /\ Turn(h, g) /\ g.pc = "count" /\ g.code \notin {NoReply, Broken}
                 /\ g.code = Expected(g.verb) <=> Success(g) \/ g.verb = "PATCH"
                 /\ g.code = Expected(g.verb)
    BY <1>6, <2>1, WriteTurns DEF Assign
  <2>3. data' = [data EXCEPT ![h.path] = h.body]
    BY <1>6 DEF Assign
  <2>4. QED
    BY <2>1, <2>2, <2>3 DEF Served, Answered
<1>7. CASE RemoteAnswers(h)
  <2>1. Received(h) /\ h.verb # "PATCH" /\ h.verb \in Methods
    BY <1>1, <1>7 DEF RemoteAnswers, AtBackend, Handlers
  <2>2. PICK code, n : code = Outcome(Operation(h), data).code /\ Write(h, code, n)
    BY <1>7 DEF RemoteAnswers
  <2>3. PICK g : /\ Turn(h, g) /\ g.pc = "count" /\ g.code \notin {NoReply, Broken}
                 /\ g.code = Expected(g.verb) <=> Success(g) \/ g.verb = "PATCH"
                 /\ g.code = Expected(g.verb) <=> code = "ok"
    BY <2>1, <2>2, WriteTurns
  <2>4. data' = IF g.code = Expected(g.verb) /\ Changes(h)
                  THEN [data EXCEPT ![h.path] = h.body] ELSE data
    <3>1. Writes(Operation(h), data) <=> g.code = Expected(g.verb) /\ Changes(h)
      BY <2>1, <2>2, <2>3 DEF Writes, IsWrite, Operation, Changes, Methods
    <3>2. QED
      BY <1>7, <3>1 DEF RemoteAnswers, Effect, Operation
  <2>5. Fits(h) => g.code = Expected(g.verb)
    BY <2>1, <2>2, <2>3 DEF Fits, Received
  <2>6. QED
    BY <2>1, <2>3, <2>4, <2>5 DEF Served, Received, Answered
<1>8. CASE RemoteFails(h)
  <2>1. Received(h) /\ h.verb # "PATCH" /\ data' = data /\ h.from \in excused'
    BY <1>8 DEF RemoteFails, AtBackend
  <2>2. PICK n : Write(h, "error", n)
    BY <1>8 DEF RemoteFails
  <2>3. PICK g : /\ Turn(h, g) /\ g.pc = "count" /\ g.code \notin {NoReply, Broken}
                 /\ g.code = Expected(g.verb) <=> Success(g) \/ g.verb = "PATCH"
                 /\ g.code # Expected(g.verb)
    BY <2>1, <2>2, WriteTurns
  <2>4. QED
    BY <2>1, <2>3 DEF Served, Received, Answered, Fits
<1>9. CASE Panics(h)
  <2>1. /\ h.pc \in {"received", "assigning"} /\ h.path # MetricsPath /\ h.verb # "PATCH"
        /\ data' = data /\ h.from \in excused'
    BY <1>1, <1>9 DEF Panics, UsesMap, AtBackend, Received, Changes
  <2>2. PICK g : /\ g = [h EXCEPT !.pc = "count", !.code = Broken, !.retries = h.retries]
                 /\ Becomes(h, g)
    <3>1. [h EXCEPT !.pc = "count", !.code = Broken]
            = [h EXCEPT !.pc = "count", !.code = Broken, !.retries = h.retries]
      BY <1>1 DEF Handlers
    <3>2. QED
      BY <1>9, <3>1 DEF Panics
  <2>3. Turn(h, g) /\ g.pc = "count" /\ g.code = Broken
    BY <1>1, <2>2 DEF Handlers, Turn, Becomes
  <2>4. g.verb # "PATCH" /\ ~Success(g) /\ g.code # Expected(g.verb) /\ g.code # NoReply
    BY <2>1, <2>3 DEF Turn, Success, Expected, Broken, NoReply
  <2>5. QED
    BY <2>1, <2>3, <2>4 DEF Served, Answered, Fits
<1>10. QED
  BY <1>2, <1>3, <1>4, <1>5, <1>6, <1>7, <1>8, <1>9 DEF Serving

(* And what it leaves alone.                                                 *)
LEMMA ServingFrame ==
    ASSUME NEW h, Serving(h)
    PROVE  /\ UNCHANGED <<backend, up, requestCount, at, step, names, serial, reply, stats,
                          arrived, givenUp>>
           /\ excused \subseteq excused'
           /\ \A o \in strays' \ strays : o.path = h.path /\ h.from \in excused' /\ h.pc = "received"
BY DEF Serving, Scrape, NotAllowed, BodyBreaks, Lookup, Assign, Panics, RemoteAnswers,
       RemoteFails, Within, clientVars, Operation, AtBackend, Received

-----------------------------------------------------------------------------
(* Requests and their answers.                                               *)

Counting(h) == CountRequest(h) \/ CountRetries(h)

(* A request is counted, and then its retries if it has any.                  *)
Counted(h, g) ==
    \/ h.pc = "count" /\ g.pc \in {"counted", "flush"}
    \/ h.pc = "counted" /\ g.pc = "flush"

LEMMA CountTurns ==
    ASSUME TypesInv, NEW h \in handlers, Counting(h)
    PROVE  /\ \E g : Turn(h, g) /\ Counted(h, g) /\ g.code = h.code
           /\ UNCHANGED <<backend, up, data, strays, at, step, names, serial, reply, stats,
                          arrived, givenUp, excused>>
<1>1. h \in Handlers
  BY DEF TypesInv, TypeOK
<1>2. PICK pc \in {"counted", "flush"}, k \in Nat :
         /\ Becomes(h, [h EXCEPT !.pc = pc, !.retries = k])
         /\ h.pc = "count" \/ (h.pc = "counted" /\ pc = "flush")
  <2>1. CASE CountRequest(h)
    <3>1. PICK pc \in {"counted", "flush"} : Becomes(h, [h EXCEPT !.pc = pc])
      BY <2>1 DEF CountRequest, CountOne
    <3>2. [h EXCEPT !.pc = pc] = [h EXCEPT !.pc = pc, !.retries = h.retries]
      BY <1>1 DEF Handlers
    <3>3. h.retries \in Nat
      BY <1>1, ServerAssumption DEF Handlers
    <3>4. QED
      BY <2>1, <3>1, <3>2, <3>3 DEF CountRequest, CountOne
  <2>2. CASE CountRetries(h)
    BY <2>2 DEF CountRetries
  <2>3. QED
    BY <2>1, <2>2 DEF Counting
<1>3. PICK g : g = [h EXCEPT !.pc = pc, !.retries = k] /\ Becomes(h, g)
  BY <1>2
<1>4. Turn(h, g) /\ Counted(h, g) /\ g.code = h.code
  BY <1>1, <1>2, <1>3 DEF Handlers, Turn, Becomes, Counted
<1>5. QED
  BY <1>4 DEF Counting, CountRequest, CountOne, CountRetries, clientVars, history

(* A handler that has gone on is a new element of the set, if it has.         *)
LEMMA TurnKeeps ==
    ASSUME HandlerInv, NEW h \in handlers, NEW g, Turn(h, g), FitHandler(g)
    PROVE  HandlerInv' /\ (g.pc # h.pc => g \notin handlers)
<1>1. IsFiniteSet(handlers')
  BY FS_RemoveElement, FS_AddElement DEF HandlerInv, Turn
<1>2. \A e, f \in handlers' : f.from = e.from /\ f.n = e.n => f = e
  BY DEF HandlerInv, Turn
<1>3. \A e : FitHandler(e)' <=> FitHandler(e)
  BY DEF FitHandler, Answered, Success
<1>4. \A e \in handlers' : FitHandler(e)
  BY DEF HandlerInv, Turn
<1>5. g.pc # h.pc => g \notin handlers
  BY DEF HandlerInv, Turn
<1>6. QED
  BY <1>1, <1>2, <1>3, <1>4, <1>5 DEF HandlerInv

LEMMA ServedFits ==
    ASSUME NEW h, NEW g, Turn(h, g), Served(h, g)
    PROVE  FitHandler(g)
BY DEF Turn, Served, FitHandler, Answered, Success, Changes, NoReply, Broken

LEMMA FewerHandlers ==
    ASSUME HandlerInv, handlers' \subseteq handlers
    PROVE  HandlerInv'
<1>1. IsFiniteSet(handlers')
  BY FS_Subset DEF HandlerInv
<1>2. QED
  BY <1>1 DEF HandlerInv, FitHandler, Answered, Success

(* A new request's number is higher than that of any before.                  *)
LEMMA SendNew ==
    ASSUME TypesInv, NEW c \in Clients, Send(c)
    PROVE  \E h : /\ handlers' = handlers \cup {h} /\ h.from = c /\ h.n = serial[c] + 1
                  /\ h.pc = "received"
                  /\ h.verb = AskOf(c).verb /\ h.body = AskOf(c).body
                  /\ h.path = names[c][AskOf(c).name]
                  /\ arrived' = IF h.path = MetricsPath THEN arrived ELSE arrived + 1
                  /\ \A g \in handlers : g.from = c => g.n # h.n /\ g.n # serial'[c]
                  /\ serial' = [serial EXCEPT ![c] = serial[c] + 1]
                  /\ serial'[c] = h.n /\ h \notin handlers
<1> DEFINE ask == ScriptOf[c][step[c]]
           h == [from |-> c, n |-> serial[c] + 1, verb |-> ask.verb,
                 path |-> names[c][ask.name], body |-> ask.body,
                 pc |-> "received", retries |-> 0, code |-> NoReply]
<1>1. /\ handlers' = handlers \cup {h}
      /\ serial' = [serial EXCEPT ![c] = @ + 1]
      /\ arrived' = IF h.path = MetricsPath THEN arrived ELSE arrived + 1
  BY DEF Send
<1>2. serial \in [Clients -> Nat] /\ serial'[c] = serial[c] + 1 /\ serial[c] \in Nat
  BY <1>1 DEF TypesInv, TypeOK
<1>3. \A g \in handlers : g.from = c => g.n \in 1..serial[c]
  BY DEF TypesInv, TypeOK
<1>4. \A g \in handlers : g.from = c => g.n # serial[c] + 1
  BY <1>2, <1>3
<1> HIDE DEF ask
<1>5. /\ h.from = c /\ h.n = serial[c] + 1 /\ h.pc = "received"
      /\ h.verb = ask.verb /\ h.body = ask.body /\ h.path = names[c][ask.name]
  OBVIOUS
<1> HIDE DEF h
<1>6. QED
  BY <1>1, <1>2, <1>4, <1>5 DEF ask, AskOf

LEMMA HandlerInvStep ==
    ASSUME TypesInv, HandlerInv, Next
    PROVE  HandlerInv'
<1>1. CASE handlers' \subseteq handlers
  BY <1>1, FewerHandlers
<1>2. ASSUME NEW h \in handlers, Serving(h) \/ Counting(h)
      PROVE  HandlerInv'
  <2>1. CASE Serving(h)
    <3>1. PICK g : Turn(h, g) /\ Served(h, g)
      BY <2>1, ServingStep
    <3>2. QED
      BY <3>1, ServedFits, TurnKeeps
  <2>2. CASE Counting(h)
    <3>1. PICK g : Turn(h, g) /\ Counted(h, g) /\ g.code = h.code
      BY <2>2, CountTurns
    <3>2. FitHandler(h)
      BY DEF HandlerInv
    <3>3. FitHandler(g)
      BY <3>1, <3>2 DEF FitHandler, Turn, Counted, Answered, Success
    <3>4. QED
      BY <3>1, <3>3, TurnKeeps
  <2>3. QED
    BY <1>2, <2>1, <2>2
<1>3. ASSUME NEW c \in Clients, Send(c)
      PROVE  HandlerInv'
  <2>1. PICK h : /\ handlers' = handlers \cup {h} /\ h.from = c /\ h.pc = "received"
                 /\ \A g \in handlers : g.from = c => g.n # h.n
    BY <1>3, SendNew
  <2>2. IsFiniteSet(handlers')
    BY <2>1, FS_AddElement DEF HandlerInv
  <2>3. \A e \in handlers' : FitHandler(e)'
    <3>1. FitHandler(h)
      BY <2>1 DEF FitHandler, Answered
    <3>2. \A e : FitHandler(e)' <=> FitHandler(e)
      BY DEF FitHandler, Answered, Success
    <3>3. QED
      BY <2>1, <3>1, <3>2 DEF HandlerInv
  <2>4. \A e, g \in handlers' : g.from = e.from /\ g.n = e.n => g = e
    BY <2>1 DEF HandlerInv
  <2>5. QED
    BY <2>2, <2>3, <2>4 DEF HandlerInv
<1>4. ASSUME NEW c \in Clients, BeginAction(c) \/ SendFails(c) \/ Receive(c) \/ Timeout(c)
      PROVE  handlers' = handlers
  BY <1>4 DEF BeginAction, SendFails, Receive, Timeout, serverVars
<1>5. ASSUME NEW h \in handlers, Flush(h)
      PROVE  handlers' \subseteq handlers
  BY <1>5 DEF Flush
<1>6. CASE MapSpoiled \/ MapRace \/ RemoteApplies
  BY <1>1, <1>6 DEF MapSpoiled, MapRace, RemoteApplies
<1>7. QED
  BY <1>1, <1>2, <1>3, <1>4, <1>5, <1>6 DEF Next, Client, Handler, Serving, Counting

(* A step of a client is nothing to the others.                              *)
Elsewhere(c) ==
    \A e \in Clients \ {c} :
       /\ at'[e] = at[e] /\ step'[e] = step[e] /\ names'[e] = names[e]
       /\ serial'[e] = serial[e] /\ reply'[e] = reply[e] /\ stats'[e] = stats[e]

LEMMA FailFrame ==
    ASSUME TypesInv, NEW c \in Clients, Fail(c), UNCHANGED <<names, serial>>
    PROVE  /\ Elsewhere(c) /\ at'[c] = "idle" /\ reply'[c] = NoReply
           /\ stats'[c].requests.good = stats[c].requests.good
           /\ stats'[c].actions.good = stats[c].actions.good
<1>1. /\ stats \in [Clients -> [requests : Counts, actions : Counts]]
      /\ at \in [Clients -> {"idle", "ready", "waiting"}] /\ reply \in [Clients -> Codes]
  BY DEF TypesInv, TypeOK
<1>2. stats[c].requests \in Counts /\ stats[c].actions \in Counts
  BY <1>1
<1>3. /\ Tally(stats[c].requests, FALSE).good = stats[c].requests.good
      /\ Tally(stats[c].actions, FALSE).good = stats[c].actions.good
  BY <1>2 DEF Tally, Counts
<1>4. /\ RecordRequest(c, FALSE)[c].requests = Tally(stats[c].requests, FALSE)
      /\ RecordRequest(c, FALSE)[c].actions = stats[c].actions
      /\ \A e \in Clients \ {c} : RecordRequest(c, FALSE)[e] = stats[e]
      /\ RecordRequest(c, FALSE) \in [Clients -> [requests : Counts, actions : Counts]]
  <2>1. Tally(stats[c].requests, FALSE) \in Counts
    BY <1>2 DEF Tally, Counts
  <2>2. QED
    BY <1>1, <2>1 DEF RecordRequest
<1>5. /\ stats'[c].requests = Tally(stats[c].requests, FALSE)
      /\ stats'[c].actions = Tally(stats[c].actions, FALSE)
      /\ \A e \in Clients \ {c} : stats'[e] = stats[e]
  BY <1>4 DEF Fail, RecordAction
<1>6. QED
  BY <1>1, <1>3, <1>5 DEF Fail, Elsewhere

(* What Receive makes of a good answer.                                      *)
LEMMA ReceiveGood ==
    ASSUME TypesInv, NEW c \in Clients, Receive(c), Good(c)
    PROVE  /\ Elsewhere(c) /\ names' = names /\ serial' = serial
           /\ reply'[c] = NoReply
           /\ stats'[c].requests.good = stats[c].requests.good + 1
           /\ stats'[c].actions.bad = stats[c].actions.bad
           /\ \/ /\ step[c] = Len(ScriptOf[c]) /\ at'[c] = "idle"
                 /\ step'[c] = step[c]
                 /\ stats'[c].actions.good = stats[c].actions.good + 1
              \/ /\ step[c] # Len(ScriptOf[c]) /\ at'[c] = "ready"
                 /\ step'[c] = step[c] + 1
                 /\ stats'[c].actions = stats[c].actions
<1> DEFINE last == step[c] = Len(ScriptOf[c])
<1>1. /\ reply' = [reply EXCEPT ![c] = NoReply]
      /\ at' = [at EXCEPT ![c] = IF last THEN "idle" ELSE "ready"]
      /\ step' = IF last THEN step ELSE [step EXCEPT ![c] = @ + 1]
      /\ stats' = IF last THEN RecordAction(c, TRUE) ELSE RecordRequest(c, TRUE)
      /\ names' = names /\ serial' = serial
  BY DEF Receive, Good, AskOf
<1>2. /\ stats \in [Clients -> [requests : Counts, actions : Counts]]
      /\ at \in [Clients -> {"idle", "ready", "waiting"}] /\ reply \in [Clients -> Codes]
  BY DEF TypesInv, TypeOK
<1>3. step \in [Clients -> Nat]
  BY DEF TypesInv, TypeOK
<1>4. stats[c].requests \in Counts /\ stats[c].actions \in Counts
  BY <1>2
<1>5. /\ Tally(stats[c].requests, TRUE).good = stats[c].requests.good + 1
      /\ Tally(stats[c].actions, TRUE).good = stats[c].actions.good + 1
      /\ Tally(stats[c].actions, TRUE).bad = stats[c].actions.bad
      /\ Tally(stats[c].requests, TRUE) \in Counts
  BY <1>4 DEF Tally, Counts
<1>6. /\ RecordRequest(c, TRUE)[c].requests = Tally(stats[c].requests, TRUE)
      /\ RecordRequest(c, TRUE)[c].actions = stats[c].actions
      /\ \A e \in Clients \ {c} : RecordRequest(c, TRUE)[e] = stats[e]
      /\ RecordRequest(c, TRUE) \in [Clients -> [requests : Counts, actions : Counts]]
  BY <1>2, <1>5 DEF RecordRequest
<1>7. /\ RecordAction(c, TRUE)[c].requests = Tally(stats[c].requests, TRUE)
      /\ RecordAction(c, TRUE)[c].actions = Tally(stats[c].actions, TRUE)
      /\ \A e \in Clients \ {c} : RecordAction(c, TRUE)[e] = stats[e]
  BY <1>6 DEF RecordAction
<1>8. \A e \in Clients \ {c} : stats'[e] = stats[e]
  BY <1>1, <1>6, <1>7
<1>9. Elsewhere(c)
  <2>1. step' = step \/ step' = [step EXCEPT ![c] = step[c] + 1]
    BY <1>1
  <2>2. \A e \in Clients \ {c} : step'[e] = step[e]
    BY <2>1, <1>3
  <2>3. QED
    BY <1>1, <1>2, <1>8, <2>2 DEF Elsewhere
<1>10. CASE last
  BY <1>1, <1>2, <1>5, <1>7, <1>9, <1>10
<1>11. CASE ~last
  <2>1. step'[c] = step[c] + 1
    BY <1>1, <1>3, <1>11
  <2>2. QED
    BY <1>1, <1>2, <1>4, <1>5, <1>6, <1>9, <1>11, <2>1
<1>12. QED
  BY <1>10, <1>11

LEMMA ReceiveBad ==
    ASSUME NEW c \in Clients, Receive(c), ~Good(c)
    PROVE  Fail(c)
BY DEF Receive, Good, AskOf

LEMMA ReceiveFrame ==
    ASSUME TypesInv, NEW c \in Clients, Receive(c)
    PROVE  /\ Elsewhere(c) /\ at'[c] \in {"idle", "ready"} /\ reply'[c] = NoReply
           /\ names' = names /\ at[c] = "waiting" /\ reply[c] # NoReply
<1>1. names' = names /\ serial' = serial /\ at[c] = "waiting" /\ reply[c] # NoReply
  BY DEF Receive
<1>2. QED
  BY <1>1, FailFrame, ReceiveBad, ReceiveGood

(* Flushing a reply changes what one client has got.                          *)
LEMMA FlushFrame ==
    ASSUME TypesInv, NEW h \in handlers, Flush(h)
    PROVE  /\ UNCHANGED <<up, data, strays, requestCount, at, step, names, serial, stats,
                          arrived, givenUp, excused>>
           /\ h.from \in Clients /\ reply' \in [Clients -> Codes]
           /\ \A c \in Clients :
                reply'[c] = IF c = h.from /\ Awaited(h) THEN h.code ELSE reply[c]
           /\ handlers' = handlers \ {h} /\ h.pc = "flush"
<1>1. h.from \in Clients /\ h.code \in Codes /\ reply \in [Clients -> Codes]
  BY DEF TypesInv, TypeOK, Handlers
<1>2. /\ reply' \in [Clients -> Codes]
      /\ \A c \in Clients :
           reply'[c] = IF c = h.from /\ Awaited(h) THEN h.code ELSE reply[c]
  BY <1>1 DEF Flush
<1>3. QED
  BY <1>1, <1>2 DEF Flush, history

(* Only one handler is current, and it is awaited until there is a reply.     *)
LEMMA OneCurrent ==
    ASSUME HandlerInv, NEW h \in handlers, NEW g \in handlers,
           Current(h), Current(g), h.from = g.from
    PROVE  g = h
BY DEF HandlerInv, Current

LEMMA AwaitedCurrent ==
    ASSUME NEW h
    PROVE  Awaited(h) <=> Current(h) /\ reply[h.from] = NoReply
BY DEF Awaited, Current

LEMMA AskedClient ==
    ASSUME TypesInv, AskedInv, NEW c \in Clients, Elsewhere(c), handlers' = handlers,
           up' = up, at'[c] # "waiting", reply'[c] = NoReply
    PROVE  AskedInv'
<1>1. ASSUME NEW h \in handlers' PROVE AskedFor(h)'
  <2>1. AskedFor(h) /\ h.from \in Clients
    BY <1>1 DEF AskedInv, TypesInv, TypeOK, Handlers
  <2>2. CASE h.from = c
    BY <2>2 DEF AskedFor, Current
  <2>3. CASE h.from # c
    BY <2>1, <2>3 DEF AskedFor, Current, AskOf, Elsewhere
  <2>4. QED
    BY <2>2, <2>3
<1>2. ASSUME NEW e \in Clients PROVE Attended(e)'
  BY DEF AskedInv, Attended, Elsewhere
<1>3. QED
  BY <1>1, <1>2 DEF AskedInv

LEMMA AskedSend ==
    ASSUME TypesInv, HandlerInv, AskedInv, NEW c \in Clients, Send(c)
    PROVE  AskedInv'
<1>1. PICK h : /\ handlers' = handlers \cup {h} /\ h.from = c /\ h.pc = "received"
               /\ h.verb = AskOf(c).verb /\ h.body = AskOf(c).body
               /\ h.path = names[c][AskOf(c).name]
               /\ \A g \in handlers : g.from = c => g.n # serial'[c]
               /\ serial' = [serial EXCEPT ![c] = serial[c] + 1]
               /\ serial'[c] = h.n
  BY SendNew
<1>2. /\ at' = [at EXCEPT ![c] = "waiting"] /\ up /\ at[c] = "ready"
      /\ UNCHANGED <<up, step, names, reply>>
      /\ reply[c] = NoReply
  BY DEF Send, AskedInv, Attended
<1>3. at \in [Clients -> {"idle", "ready", "waiting"}] /\ serial \in [Clients -> Nat]
  BY DEF TypesInv, TypeOK
<1>4. AskedFor(h)'
  BY <1>1, <1>2 DEF AskedFor, AskOf
<1>5. ASSUME NEW g \in handlers PROVE AskedFor(g)'
  <2>1. AskedFor(g) /\ g.from \in Clients
    BY DEF AskedInv, TypesInv, TypeOK, Handlers
  <2>2. CASE g.from = c
    BY <1>1, <2>2 DEF AskedFor, Current
  <2>3. CASE g.from # c
    BY <1>1, <1>2, <1>3, <2>1, <2>3 DEF AskedFor, Current, AskOf
  <2>4. QED
    BY <2>2, <2>3
<1>6. ASSUME NEW e \in Clients PROVE Attended(e)'
  <2>1. CASE e = c
    BY <1>1, <1>2, <1>3, <2>1 DEF Attended
  <2>2. CASE e # c
    BY <1>1, <1>2, <1>3, <2>2 DEF AskedInv, Attended
  <2>3. QED
    BY <2>1, <2>2
<1>7. QED
  BY <1>1, <1>2, <1>4, <1>5, <1>6 DEF AskedInv

(* A handler that goes on keeps its request.                                   *)
LEMMA AskedTurn ==
    ASSUME TypesInv, HandlerInv, AskedInv, NEW h \in handlers, NEW g, Turn(h, g),
           UNCHANGED <<up, at, step, names, serial, reply>>
    PROVE  AskedInv'
<1>1. \A e \in handlers : AskedFor(e) /\ AskedFor(e)'
  BY DEF AskedInv, AskedFor, Current, AskOf
<1>2. AskedFor(g)'
  <2>1. AskedFor(h)
    BY <1>1
  <2>2. QED
    BY <2>1 DEF AskedFor, Current, AskOf, Turn
<1>3. up \/ handlers = {}
  BY DEF AskedInv
<1>4. ASSUME NEW c \in Clients PROVE Attended(c)'
  BY DEF AskedInv, Attended, Turn
<1>5. QED
  BY <1>1, <1>2, <1>3, <1>4 DEF AskedInv, Turn

LEMMA AskedFlush ==
    ASSUME TypesInv, HandlerInv, AskedInv, NEW h \in handlers, Flush(h)
    PROVE  AskedInv'
<1>1. /\ UNCHANGED <<up, at, step, names, serial>> /\ h.from \in Clients
      /\ \A c \in Clients :
           reply'[c] = IF c = h.from /\ Awaited(h) THEN h.code ELSE reply[c]
      /\ handlers' = handlers \ {h} /\ Answered(h)
  BY FlushFrame DEF Answered
<1>2. h.code # NoReply
  BY <1>1 DEF HandlerInv, FitHandler
<1>3. ASSUME NEW e \in handlers' PROVE AskedFor(e)'
  <2>1. AskedFor(e) /\ e.from \in Clients /\ e \in handlers
    BY <1>1 DEF AskedInv, TypesInv, TypeOK, Handlers
  <2>2. CASE Current(e) /\ Awaited(h) /\ h.from = e.from
    <3>1. e = h
      BY <2>1, <2>2, OneCurrent, AwaitedCurrent
    <3>2. QED
      BY <1>1, <1>3, <2>1, <3>1 DEF AskedFor, Current, AskOf
  <2>3. CASE ~(Current(e) /\ Awaited(h) /\ h.from = e.from)
    BY <1>1, <2>1, <2>3 DEF AskedFor, Current, AskOf
  <2>4. QED
    BY <2>2, <2>3
<1>4. ASSUME NEW c \in Clients PROVE Attended(c)'
  <2>1. Attended(c)
    BY DEF AskedInv
  <2>2. CASE c = h.from /\ Awaited(h)
    BY <1>1, <1>2, <2>2 DEF Attended, Awaited
  <2>3. CASE ~(c = h.from /\ Awaited(h))
    <3>1. reply'[c] = reply[c]
      BY <1>1, <2>3
    <3>2. ASSUME at[c] = "waiting", reply[c] = NoReply
          PROVE  \E e \in handlers' : e.from = c /\ e.n = serial[c]
      <4>1. PICK e \in handlers : e.from = c /\ e.n = serial[c]
        BY <2>1, <3>2 DEF Attended
      <4>2. e # h
        BY <2>3, <3>2, <4>1 DEF Awaited
      <4>3. QED
        BY <1>1, <4>1, <4>2
    <3>3. QED
      BY <1>1, <2>1, <3>1, <3>2 DEF Attended
  <2>4. QED
    BY <2>2, <2>3
<1>5. QED
  BY <1>1, <1>3, <1>4 DEF AskedInv

LEMMA AskedRace ==
    ASSUME TypesInv, AskedInv, MapRace
    PROVE  AskedInv'
BY DEF MapRace, AskedInv, Attended, NoReply, Broken

LEMMA AskedInvStep ==
    ASSUME TypesInv, HandlerInv, AskedInv, Next
    PROVE  AskedInv'
<1>1. ASSUME NEW c \in Clients, BeginAction(c) PROVE AskedInv'
  <2>1. /\ UNCHANGED <<handlers, up, serial, reply, stats>> /\ at[c] = "idle"
        /\ at' = [at EXCEPT ![c] = "ready"] /\ step' = [step EXCEPT ![c] = 1]
        /\ \E chosen \in NamesFor[c] : names' = [names EXCEPT ![c] = chosen]
    BY <1>1 DEF BeginAction, serverVars
  <2>2. /\ at \in [Clients -> {"idle", "ready", "waiting"}] /\ step \in [Clients -> Nat]
        /\ names \in [Clients -> Paths \X Paths]
    BY DEF TypesInv, TypeOK
  <2>3. Elsewhere(c)
    BY <2>1, <2>2 DEF Elsewhere
  <2>4. at'[c] = "ready" /\ reply'[c] = NoReply
    BY <2>1, <2>2 DEF AskedInv, Attended
  <2>5. QED
    BY <2>1, <2>3, <2>4, AskedClient
<1>2. ASSUME NEW c \in Clients, SendFails(c) \/ Timeout(c) PROVE AskedInv'
  <2>1. UNCHANGED <<handlers, up, names, serial>> /\ Fail(c)
    BY <1>2 DEF SendFails, Timeout, serverVars
  <2>2. QED
    BY <2>1, FailFrame, AskedClient
<1>3. ASSUME NEW c \in Clients, Receive(c) PROVE AskedInv'
  <2>1. UNCHANGED <<handlers, up>>
    BY <1>3 DEF Receive, serverVars
  <2>2. QED
    BY <1>3, <2>1, ReceiveFrame, AskedClient
<1>4. ASSUME NEW h \in handlers, Serving(h) PROVE AskedInv'
  <2>1. PICK g : Turn(h, g) /\ ~Answered(h)
    BY <1>4, ServingStep
  <2>2. UNCHANGED <<up, at, step, names, serial, reply>>
    BY <1>4, ServingFrame
  <2>3. QED
    BY <2>1, <2>2, AskedTurn
<1>5. ASSUME NEW h \in handlers, Counting(h) PROVE AskedInv'
  <2>1. PICK g : Turn(h, g)
    BY <1>5, CountTurns
  <2>2. UNCHANGED <<up, at, step, names, serial, reply>>
    BY <1>5, CountTurns
  <2>3. QED
    BY <2>1, <2>2, AskedTurn
<1>6. CASE RemoteApplies \/ MapSpoiled
  <2>1. UNCHANGED <<up, handlers, at, step, names, serial, reply>>
    BY <1>6 DEF RemoteApplies, MapSpoiled, clientVars
  <2>2. QED
    BY <2>1 DEF AskedInv, AskedFor, Attended, Current, AskOf
<1>7. QED
  BY <1>1, <1>2, <1>3, <1>4, <1>5, <1>6, AskedSend, AskedFlush, AskedRace
     DEF Next, Client, Handler, Serving, Counting

-----------------------------------------------------------------------------
(* What the requests of an action leave behind.                              *)

LEMMA LeavesOnce ==
    ASSUME NEW c \in Clients, NEW n \in Nat, NEW k, NEW u, NEW v,
           Leaves(c, n, k, u), Leaves(c, n, k, v)
    PROVE  u = v
<1>1. CASE \A i \in 1..n : ~WritesSlot(c, i, k)
  BY <1>1 DEF Leaves
<1>2. ASSUME NEW i \in 1..n, WritesSlot(c, i, k)
      PROVE  u = v
  <2>1. PICK i1 \in 1..n : /\ WritesSlot(c, i1, k) /\ u = ScriptOf[c][i1].body
                           /\ \A j \in i1+1..n : ~WritesSlot(c, j, k)
    BY <1>2 DEF Leaves
  <2>2. PICK i2 \in 1..n : /\ WritesSlot(c, i2, k) /\ v = ScriptOf[c][i2].body
                           /\ \A j \in i2+1..n : ~WritesSlot(c, j, k)
    BY <1>2 DEF Leaves
  <2>3. i1 = i2
    BY <2>1, <2>2
  <2>4. QED
    BY <2>1, <2>2, <2>3
<1>3. QED
  BY <1>1, <1>2

LEMMA LeavesNext ==
    ASSUME NEW c \in Clients, NEW n \in Nat \ {0}, NEW k, NEW v,
           Leaves(c, n - 1, k, v)
    PROVE  /\ WritesSlot(c, n, k) => Leaves(c, n, k, ScriptOf[c][n].body)
           /\ ~WritesSlot(c, n, k) => Leaves(c, n, k, v)
<1>1. ASSUME WritesSlot(c, n, k) PROVE Leaves(c, n, k, ScriptOf[c][n].body)
  BY <1>1 DEF Leaves
<1>2. ASSUME ~WritesSlot(c, n, k) PROVE Leaves(c, n, k, v)
  <2>1. \A i \in 1..n : i \in 1..n-1 \/ i = n
    OBVIOUS
  <2>2. CASE v = NoFile /\ \A i \in 1..n-1 : ~WritesSlot(c, i, k)
    BY <1>2, <2>1, <2>2 DEF Leaves
  <2>3. ASSUME NEW i \in 1..n-1, WritesSlot(c, i, k), v = ScriptOf[c][i].body,
               \A j \in i+1..n-1 : ~WritesSlot(c, j, k)
        PROVE  Leaves(c, n, k, v)
    <3>1. \A j \in i+1..n : ~WritesSlot(c, j, k)
      <4>1. \A j \in i+1..n : j \in i+1..n-1 \/ j = n
        OBVIOUS
      <4>2. QED
        BY <1>2, <2>3, <4>1
    <3>2. i \in 1..n
      OBVIOUS
    <3>3. QED
      BY <2>3, <3>1, <3>2 DEF Leaves
  <2>4. QED
    BY <2>2, <2>3 DEF Leaves
<1>3. QED
  BY <1>1, <1>2

LEMMA LastLeaves ==
    ASSUME NEW c \in Clients, NEW i \in DOMAIN ScriptOf[c], LastWrite(c, i)
    PROVE  Leaves(c, Len(ScriptOf[c]), ScriptOf[c][i].name, ScriptOf[c][i].body)
<1>1. DOMAIN ScriptOf[c] = 1..Len(ScriptOf[c]) /\ Len(ScriptOf[c]) \in Nat
  BY ServerAssumption
<1>2. WritesSlot(c, i, ScriptOf[c][i].name)
  BY DEF LastWrite, WritesSlot
<1>3. \A j \in i+1..Len(ScriptOf[c]) : ~WritesSlot(c, j, ScriptOf[c][i].name)
  <2>1. \A j \in i+1..Len(ScriptOf[c]) : j \in DOMAIN ScriptOf[c] /\ j > i
    BY <1>1
  <2>2. QED
    BY <2>1 DEF LastWrite, WritesSlot
<1>4. QED
  BY <1>1, <1>2, <1>3 DEF Leaves

LEMMA SlotsTyped ==
    ASSUME NEW c \in Clients
    PROVE  Slots(c) \subseteq {1, 2}
<1>1. \A i \in DOMAIN ScriptOf[c] : ScriptOf[c][i] \in Asks
  BY ServerAssumption
<1>2. \A a \in Asks : a.name \in {1, 2}
  BY DEF Asks
<1>3. QED
  BY <1>1, <1>2 DEF Slots

(* Where a client stands.                                                    *)
LEMMA ClientTyped ==
    ASSUME TypesInv, NEW c \in Clients
    PROVE  /\ step[c] \in DOMAIN ScriptOf[c] /\ step[c] \in Nat \ {0}
           /\ AskOf(c) \in Asks
           /\ AskOf(c).name \in Slots(c)
           /\ \A k \in Slots(c) : names[c][k] \in NamesOf(c) /\ names[c][k] \in Paths
           /\ at[c] \in {"idle", "ready", "waiting"}
           /\ reply[c] \in Codes
<1>1. /\ ScriptOf[c] \in Seq(Asks) /\ step[c] \in DOMAIN ScriptOf[c]
      /\ names[c] \in Paths \X Paths
      /\ at[c] \in {"idle", "ready", "waiting"} /\ reply[c] \in Codes
  BY ServerAssumption DEF TypesInv, TypeOK
<1>2. DOMAIN ScriptOf[c] = 1..Len(ScriptOf[c]) /\ Len(ScriptOf[c]) \in Nat
  BY <1>1
<1>3. \A i \in DOMAIN ScriptOf[c] : ScriptOf[c][i] \in Asks
  BY <1>1
<1>4. Slots(c) \subseteq {1, 2}
  BY SlotsTyped
<1>5. \A k \in Slots(c) : k \in {1, 2}
  BY <1>4
<1>6. \A k \in {1, 2} : names[c][k] \in Paths
  BY <1>1
<1>7. \A k \in Slots(c) : names[c][k] \in NamesOf(c)
  BY DEF Slots, NamesOf
<1>8. step[c] \in Nat \ {0}
  BY <1>1, <1>2
<1>9. QED
  BY <1>1, <1>3, <1>5, <1>6, <1>7, <1>8 DEF Slots, AskOf

(* A step of one client, or a new request of its, is nothing to the others.    *)
Calm(c) ==
    Undisturbed(c) => /\ Alone(c) /\ Story(c)
                      /\ Orderly(c) => Hopeful(c)

LEMMA CalmElsewhere ==
    ASSUME TypesInv, NEW c \in Clients, Elsewhere(c), NEW e \in Clients \ {c},
           Calm(e), UNCHANGED <<up, data, strays>>, excused \ {c} \subseteq excused',
           e \notin excused' /\ Busy(c)' => NamesOf(c)' \cap NamesOf(e) = {},
           \A h \in handlers' \ handlers : h.from = c /\ (Busy(e) /\ e \notin excused' => h.path \notin NamesOf(e))
    PROVE  Calm(e)'
<1>1. SUFFICES ASSUME Undisturbed(e)'
               PROVE  Alone(e)' /\ Story(e)' /\ (Orderly(e)' => Hopeful(e)')
  BY DEF Calm
<1>2. /\ at'[e] = at[e] /\ step'[e] = step[e] /\ names'[e] = names[e]
      /\ serial'[e] = serial[e] /\ reply'[e] = reply[e]
  BY DEF Elsewhere
<1>3. Undisturbed(e) /\ e \notin excused'
  BY <1>1, <1>2 DEF Undisturbed, Busy
<1>4. Alone(e) /\ Story(e) /\ (Orderly(e) => Hopeful(e))
  BY <1>3 DEF Calm
<1>5. NamesOf(e)' = NamesOf(e)
  BY <1>2 DEF NamesOf
<1>6. \A h : h.from = e => (Current(h)' <=> Current(h))
  BY <1>2 DEF Current
<1>7. \A h : Answered(h)' <=> Answered(h)
  BY DEF Answered
<1>8. /\ \A h \in handlers' : h.from = e => h \in handlers
      /\ \A h \in handlers' : h.path \in NamesOf(e) => h \in handlers
  BY <1>3 DEF Undisturbed
<1>9. Alone(e)'
  <2>1. \A d \in Clients \ {e} : Busy(d)' => NamesOf(d)' \cap NamesOf(e) = {}
    <3>1. \A d \in Clients \ {c} : (Busy(d)' <=> Busy(d)) /\ NamesOf(d)' = NamesOf(d)
      BY DEF Elsewhere, Busy, NamesOf
    <3>2. QED
      BY <1>3, <1>4, <3>1 DEF Alone
  <2>2. \A h \in handlers' : h.path \in NamesOf(e) /\ ~Answered(h) => h.from = e /\ Current(h)'
    BY <1>4, <1>6, <1>8 DEF Alone
  <2>3. /\ up
        /\ \A j, k \in Slots(e) : names[e][j] = names[e][k] => j = k
        /\ MetricsPath \notin NamesOf(e)
        /\ \A o \in strays : o.path \notin NamesOf(e)
    BY <1>4 DEF Alone
  <2>4. QED
    BY <1>2, <1>5, <1>7, <2>1, <2>2, <2>3 DEF Alone, Slots
<1>10. Story(e)'
  BY <1>2, <1>4, <1>6, <1>7, <1>8 DEF Story, Good, AskOf, Slots, Leaves, WritesSlot, IsWriteAt
<1>11. Orderly(e)' => Hopeful(e)'
  BY <1>2, <1>4, <1>6, <1>7, <1>8 DEF Orderly, Hopeful, Good, AskOf
<1>12. QED
  BY <1>9, <1>10, <1>11

LEMMA CalmBegin ==
    ASSUME TypesInv, AskedInv, NEW c \in Clients, BeginAction(c), \A d \in Clients : Calm(d),
           NEW e \in Clients
    PROVE  Calm(e)'
<1>1. PICK chosen \in NamesFor[c] :
        LET slots   == Slots(c)
            mine    == {chosen[i] : i \in slots}
            sharers == {d \in Clients \ {c} : Busy(d) /\ NamesOf(d) \cap mine # {}}
            taken   == \/ Cardinality(mine) < Cardinality(slots)
                       \/ ~up \/ raced \/ MetricsPath \in mine
                       \/ \E x \in mine : data[x] # NoFile
                       \/ \E h \in handlers : h.path \in mine
                       \/ \E o \in strays : o.path \in mine
        IN  /\ names' = [names EXCEPT ![c] = chosen]
            /\ excused' = (excused \ {c}) \cup sharers
                            \cup (IF taken \/ sharers # {} THEN {c} ELSE {})
  BY DEF BeginAction, Slots
<1> DEFINE mine == {chosen[i] : i \in Slots(c)}
<1>2. /\ UNCHANGED <<up, data, strays, handlers, serial, reply, stats>>
      /\ at' = [at EXCEPT ![c] = "ready"] /\ step' = [step EXCEPT ![c] = 1]
      /\ at[c] = "idle"
  BY DEF BeginAction, serverVars
<1>3. /\ at \in [Clients -> {"idle", "ready", "waiting"}] /\ step \in [Clients -> Nat]
      /\ names \in [Clients -> Paths \X Paths]
  BY DEF TypesInv, TypeOK
<1>4. Elsewhere(c) /\ at'[c] = "ready" /\ step'[c] = 1 /\ names'[c] = chosen
  BY <1>1, <1>2, <1>3 DEF Elsewhere
<1>5. NamesOf(c)' = mine
  BY <1>4 DEF NamesOf, Slots
<1>6. CASE e # c
  <2>1. e \notin excused' /\ Busy(e) => mine \cap NamesOf(e) = {}
    BY <1>1, <1>6
  <2>2. excused \ {c} \subseteq excused'
    BY <1>1
  <2>3. CASE Busy(e)
    BY <1>2, <1>4, <1>5, <1>6, <2>1, <2>2, <2>3, CalmElsewhere
  <2>4. CASE ~Busy(e)
    BY <1>4, <1>6, <2>4 DEF Calm, Undisturbed, Busy, Elsewhere
  <2>5. QED
    BY <2>3, <2>4
<1>7. CASE e = c
  <2>1. SUFFICES ASSUME c \notin excused'
                 PROVE  Alone(c)' /\ Story(c)' /\ (Orderly(c)' => Hopeful(c)')
    BY <1>7 DEF Calm, Undisturbed
  <2>2. /\ ~(Cardinality(mine) < Cardinality(Slots(c))) /\ up /\ MetricsPath \notin mine
        /\ \A x \in mine : data[x] = NoFile
        /\ \A h \in handlers : h.path \notin mine
        /\ \A o \in strays : o.path \notin mine
        /\ \A d \in Clients \ {c} : Busy(d) => NamesOf(d) \cap mine = {}
    BY <1>1, <2>1
  <2>3. \A j, k \in Slots(c) : chosen[j] = chosen[k] => j = k
    <3>1. SUFFICES ASSUME NEW j \in Slots(c), NEW k \in Slots(c), chosen[j] = chosen[k], j # k
                   PROVE  FALSE
      OBVIOUS
    <3>2. Slots(c) = {j, k}
      <4>1. Slots(c) \subseteq {1, 2}
        BY SlotsTyped
      <4>2. QED
        BY <3>1, <4>1
    <3>3. Cardinality(Slots(c)) = 2
      <4>1. Slots(c) = {j} \cup {k} /\ k \notin {j}
        BY <3>1, <3>2
      <4>2. IsFiniteSet({j}) /\ Cardinality({j}) = 1
        BY FS_Singleton
      <4>3. Cardinality({j} \cup {k}) = Cardinality({j}) + 1
        BY <4>1, <4>2, FS_AddElement
      <4>4. QED
        BY <4>1, <4>2, <4>3
    <3>4. mine = {chosen[j]}
      BY <3>1, <3>2
    <3>5. Cardinality(mine) = 1
      BY <3>4, FS_Singleton
    <3>6. QED
      BY <2>2, <3>3, <3>5
  <2>4. Alone(c)'
    <3>1. \A d \in Clients \ {c} : (Busy(d)' <=> Busy(d)) /\ NamesOf(d)' = NamesOf(d)
      BY <1>4 DEF Elsewhere, Busy, NamesOf
    <3>2. QED
      BY <1>2, <1>4, <1>5, <2>2, <2>3, <3>1 DEF Alone, Slots
  <2>5. \A h : h.from = c => ~Current(h)'
    BY <1>4 DEF Current
  <2>6. Story(c)'
    <3>1. \A k : Leaves(c, 1 - 1, k, NoFile)
      BY DEF Leaves
    <3>2. \A k \in Slots(c) : data[chosen[k]] = NoFile
      BY <2>2
    <3>3. QED
      BY <1>2, <1>4, <2>5, <3>1, <3>2 DEF Story, Slots, Leaves, WritesSlot, IsWriteAt
  <2>7. Hopeful(c)'
    <3>1. reply'[c] = NoReply
      BY <1>2 DEF AskedInv, Attended
    <3>2. QED
      BY <2>5, <3>1 DEF Hopeful
  <2>8. QED
    BY <2>4, <2>6, <2>7
<1>8. QED
  BY <1>6, <1>7

LEMMA CalmSend ==
    ASSUME TypesInv, HandlerInv, AskedInv, NEW c \in Clients, Send(c),
           \A d \in Clients : Calm(d), NEW e \in Clients
    PROVE  Calm(e)'
<1>1. PICK h : /\ handlers' = handlers \cup {h} /\ h.from = c /\ h.pc = "received"
               /\ h.path = names[c][AskOf(c).name]
               /\ \A g \in handlers : g.from = c => g.n # serial'[c]
               /\ serial' = [serial EXCEPT ![c] = serial[c] + 1]
               /\ serial'[c] = h.n
  BY SendNew
<1>2. /\ at' = [at EXCEPT ![c] = "waiting"] /\ at[c] = "ready"
      /\ UNCHANGED <<up, data, strays, step, names, reply, stats, excused>>
      /\ reply[c] = NoReply
  BY DEF Send, AskedInv, Attended
<1>3. at \in [Clients -> {"idle", "ready", "waiting"}] /\ serial \in [Clients -> Nat]
  BY DEF TypesInv, TypeOK
<1>4. Elsewhere(c) /\ at'[c] = "waiting"
  BY <1>1, <1>2, <1>3 DEF Elsewhere
<1>5. h.path \in NamesOf(c) /\ Busy(c) /\ NamesOf(c)' = NamesOf(c)
  BY <1>1, <1>2, ClientTyped DEF Busy, NamesOf
<1>6. CASE e # c
  <2>1. Busy(e) /\ e \notin excused' => NamesOf(c) \cap NamesOf(e) = {}
    BY <1>2, <1>5, <1>6 DEF Calm, Undisturbed, Alone
  <2>2. CASE Undisturbed(e)
    <3>1. Calm(e)
      OBVIOUS
    <3>2. e \notin excused' /\ Busy(c)' => NamesOf(c)' \cap NamesOf(e) = {}
      BY <1>5, <2>1, <2>2 DEF Undisturbed
    <3>3. \A g \in handlers' \ handlers :
            g.from = c /\ (Busy(e) /\ e \notin excused' => g.path \notin NamesOf(e))
      BY <1>1, <1>5, <2>1
    <3>4. QED
      BY <1>2, <1>4, <1>6, <3>1, <3>2, <3>3, CalmElsewhere
  <2>3. CASE ~Undisturbed(e)
    BY <1>2, <1>4, <1>6, <2>3 DEF Calm, Undisturbed, Busy, Elsewhere
  <2>4. QED
    BY <2>2, <2>3
<1>7. CASE e = c
  <2>1. SUFFICES ASSUME c \notin excused
                 PROVE  Alone(c)' /\ Story(c)' /\ (Orderly(c)' => Hopeful(c)')
    BY <1>2, <1>7 DEF Calm, Undisturbed
  <2>2. Alone(c) /\ Story(c)
    BY <1>5, <2>1 DEF Calm, Undisturbed
  <2>3. \A g \in handlers : ~(g.path \in NamesOf(c) /\ ~Answered(g))
    BY <1>2, <2>2 DEF Alone, Current
  <2>4. Alone(c)'
    <3>1. \A d \in Clients \ {c} : (Busy(d)' <=> Busy(d)) /\ NamesOf(d)' = NamesOf(d)
      BY <1>4 DEF Elsewhere, Busy, NamesOf
    <3>2. Current(h)'
      BY <1>1, <1>4 DEF Current
    <3>3. \A g : Answered(g)' <=> Answered(g)
      BY DEF Answered
    <3>4. QED
      BY <1>1, <1>2, <1>5, <2>2, <2>3, <3>1, <3>2, <3>3 DEF Alone, Slots
  <2>5. \A g \in handlers : g.from = c => ~Current(g)'
    BY <1>1 DEF Current
  <2>6. ~Answered(h)'
    BY <1>1 DEF Answered
  <2>7. ~Good(c)'
    BY <1>2 DEF Good, Expected, NoReply
  <2>8. Story(c)'
    BY <1>1, <1>2, <1>4, <2>2, <2>5, <2>6, <2>7
       DEF Story, Slots, Leaves, WritesSlot, IsWriteAt
  <2>9. Hopeful(c)'
    BY <1>1, <1>2, <2>5, <2>6 DEF Hopeful
  <2>10. QED
    BY <2>4, <2>8, <2>9
<1>8. QED
  BY <1>6, <1>7

(* A client that ends its action, whatever for.                              *)
LEMMA CalmEnd ==
    ASSUME TypesInv, NEW c \in Clients, Elsewhere(c), at'[c] = "idle",
           UNCHANGED <<up, data, strays, handlers>>, excused \subseteq excused',
           \A d \in Clients : Calm(d), NEW e \in Clients
    PROVE  Calm(e)'
<1>1. ~Busy(c)'
  BY DEF Busy
<1>2. CASE e = c
  BY <1>1, <1>2 DEF Calm, Undisturbed
<1>3. CASE e # c
  BY <1>1, <1>3, CalmElsewhere
<1>4. QED
  BY <1>2, <1>3

LEMMA CalmReceive ==
    ASSUME TypesInv, AskedInv, NEW c \in Clients, Receive(c),
           \A d \in Clients : Calm(d), NEW e \in Clients
    PROVE  Calm(e)'
<1>1. /\ UNCHANGED <<up, data, strays, handlers, excused, names, serial>>
      /\ at[c] = "waiting" /\ reply[c] # NoReply
  BY DEF Receive, serverVars, history
<1>2. CASE ~Good(c)
  <2>1. Elsewhere(c) /\ at'[c] = "idle"
    BY <1>1, <1>2, ReceiveBad, FailFrame
  <2>2. QED
    BY <1>1, <2>1, CalmEnd
<1>3. CASE Good(c) /\ at'[c] = "idle"
  <2>1. Elsewhere(c)
    BY <1>3, ReceiveGood
  <2>2. QED
    BY <1>1, <1>3, <2>1, CalmEnd
<1>4. CASE Good(c) /\ at'[c] # "idle"
  <2>1. /\ Elsewhere(c) /\ at'[c] = "ready" /\ step'[c] = step[c] + 1
        /\ reply'[c] = NoReply
    BY <1>4, ReceiveGood
  <2>2. NamesOf(c)' = NamesOf(c) /\ Busy(c)
    BY <1>1 DEF NamesOf, Busy
  <2>3. CASE e # c
    <3>1. CASE Undisturbed(e)
      <4>1. NamesOf(c) \cap NamesOf(e) = {}
        BY <2>2, <2>3, <3>1 DEF Calm, Alone
      <4>2. QED
        BY <1>1, <2>1, <2>2, <2>3, <4>1, CalmElsewhere
    <3>2. CASE ~Undisturbed(e)
      BY <1>1, <2>1, <2>3, <3>2 DEF Calm, Undisturbed, Busy, Elsewhere
    <3>3. QED
      BY <3>1, <3>2
  <2>4. CASE e = c
    <3>1. SUFFICES ASSUME c \notin excused
                   PROVE  Alone(c)' /\ Story(c)' /\ (Orderly(c)' => Hopeful(c)')
      BY <1>1, <2>4 DEF Calm, Undisturbed
    <3>2. Alone(c) /\ Story(c)
      BY <2>2, <3>1 DEF Calm, Undisturbed
    <3>3. \A h \in handlers : h.from = c /\ Current(h) => Answered(h)
      BY <1>1 DEF AskedInv, AskedFor, Answered
    <3>4. Alone(c)'
      <4>1. \A d \in Clients \ {c} : (Busy(d)' <=> Busy(d)) /\ NamesOf(d)' = NamesOf(d)
        BY <2>1 DEF Elsewhere, Busy, NamesOf
      <4>2. \A h \in handlers : ~(h.path \in NamesOf(c) /\ ~Answered(h))
        BY <3>2, <3>3 DEF Alone
      <4>3. \A h : Answered(h)' <=> Answered(h)
        BY DEF Answered
      <4>4. QED
        BY <1>1, <2>2, <3>2, <4>1, <4>2, <4>3 DEF Alone, Slots
    <3>5. \A h : h.from = c => ~Current(h)'
      BY <2>1 DEF Current
    <3>6. Story(c)'
      <4>1. step'[c] - 1 = step[c]
        BY <2>1, ClientTyped
      <4>2. \A k \in Slots(c) : Leaves(c, step'[c] - 1, k, data'[names'[c][k]])
        BY <1>1, <1>4, <3>2, <4>1 DEF Story
      <4>3. Good(c)' => at'[c] # "waiting"
        BY <2>1
      <4>4. QED
        BY <3>5, <4>2, <4>3 DEF Story, Slots, Leaves, WritesSlot, IsWriteAt
    <3>7. Hopeful(c)'
      BY <2>1, <3>5 DEF Hopeful
    <3>8. QED
      BY <3>4, <3>6, <3>7
  <2>5. QED
    BY <2>3, <2>4
<1>5. QED
  BY <1>2, <1>3, <1>4

(* What the backend finds for the request of an orderly script.              *)
LEMMA OrderlyOutcome ==
    ASSUME TypesInv, AskedInv, NEW h \in handlers, NEW c \in Clients,
           h.from = c, Current(h), ~Answered(h), Orderly(c), Story(c)
    PROVE  h.verb = "PATCH" \/ Outcome(Operation(h), data).code = "ok"
<1> DEFINE ask == AskOf(c)
           held == data[names[c][ask.name]]
<1>1. /\ h.verb = ask.verb /\ h.body = ask.body /\ h.path = names[c][ask.name]
      /\ ask \in Asks /\ ask.name \in Slots(c) /\ step[c] - 1 \in Nat
      /\ step[c] \in DOMAIN ScriptOf[c]
  BY ClientTyped DEF AskedInv, AskedFor
<1>2. Leaves(c, step[c] - 1, ask.name, held)
  BY <1>1 DEF Story
<1>3. ask.verb \in Methods
  BY <1>1 DEF Asks, Methods
<1>4. CASE ask.verb = "POST"
  <2>1. Leaves(c, step[c] - 1, ask.name, NoFile)
    BY <1>1, <1>4 DEF Orderly, AskOf
  <2>2. held = NoFile
    BY <1>1, <1>2, <2>1, LeavesOnce
  <2>3. QED
    BY <1>1, <1>4, <2>2 DEF Outcome, Operation, Ok
<1>5. CASE ask.verb \in {"GET", "PUT", "DELETE"}
  <2>1. PICK body \in Bodies : Leaves(c, step[c] - 1, ask.name, body)
    BY <1>1, <1>5 DEF Orderly, AskOf
  <2>2. held # NoFile
    BY <1>1, <1>2, <2>1, LeavesOnce, NoFileAssumption
  <2>3. QED
    BY <1>1, <1>5, <2>2 DEF Outcome, Operation, Ok
<1>6. QED
  BY <1>1, <1>3, <1>4, <1>5 DEF Methods

(* A success leaves what its script says.                                    *)
LEMMA ServedStory ==
    ASSUME TypesInv, AskedInv, NEW c \in Clients, NEW h \in handlers, NEW g,
           h.from = c, Current(h), ~Answered(h), Served(h, g), Turn(h, g),
           Alone(c), Story(c), NEW k \in Slots(c)
    PROVE  /\ h.path # MetricsPath
           /\ g.pc = "assigning" => Leaves(c, step[c] - 1, k, data'[names[c][k]])
           /\ g.code = Expected(g.verb) /\ g.pc = "count" =>
                Leaves(c, step[c], k, data'[names[c][k]])
<1> DEFINE ask == AskOf(c)
           held == data[names[c][k]]
<1>1. /\ h.verb = ask.verb /\ h.body = ask.body /\ h.path = names[c][ask.name]
      /\ ask \in Asks /\ ask.name \in Slots(c) /\ step[c] \in Nat \ {0}
      /\ h.path \in NamesOf(c) /\ data \in Trees /\ names[c][k] \in Paths
      /\ ask = ScriptOf[c][step[c]]
  BY ClientTyped DEF AskedInv, AskedFor, TypesInv, TypeOK, AskOf
<1>2. h.path # MetricsPath
  BY <1>1 DEF Alone
<1>3. Leaves(c, step[c] - 1, k, held)
  BY DEF Story
<1>4. CASE g.pc = "assigning"
  BY <1>2, <1>3, <1>4 DEF Served
<1>5. ASSUME g.pc = "count", g.code = Expected(g.verb)
      PROVE  Leaves(c, step[c], k, data'[names[c][k]])
  <2>1. data' = IF Changes(h) THEN [data EXCEPT ![h.path] = h.body] ELSE data
    BY <1>2, <1>5 DEF Served
  <2>2. CASE WritesSlot(c, step[c], k)
    <3>1. Changes(h) /\ names[c][k] = h.path
      BY <1>1, <2>2 DEF WritesSlot, IsWriteAt, Changes
    <3>2. data'[names[c][k]] = h.body
      BY <1>1, <2>1, <3>1 DEF Trees
    <3>3. QED
      BY <1>1, <1>3, <2>2, <3>2, LeavesNext
  <2>3. CASE ~WritesSlot(c, step[c], k)
    <3>1. ~Changes(h) \/ k # ask.name
      BY <1>1, <2>3 DEF WritesSlot, IsWriteAt, Changes
    <3>2. k # ask.name => names[c][k] # h.path
      BY <1>1 DEF Alone
    <3>3. data'[names[c][k]] = held
      BY <1>1, <2>1, <3>1, <3>2 DEF Trees
    <3>4. QED
      BY <1>1, <1>3, <2>3, <3>3, LeavesNext
  <2>4. QED
    BY <2>2, <2>3
<1>6. QED
  BY <1>2, <1>4, <1>5

LEMMA CalmServing ==
    ASSUME TypesInv, HandlerInv, AskedInv, NEW h \in handlers, Serving(h),
           NEW c \in Clients, Calm(c)
    PROVE  Calm(c)'
<1>1. PICK g : /\ Turn(h, g) /\ Served(h, g) /\ ~Answered(h)
               /\ Fits(h) /\ g.pc = "count" => g.code = Expected(g.verb)
  BY ServingStep
<1>2. /\ UNCHANGED <<up, at, step, names, serial, reply>>
      /\ excused \subseteq excused'
      /\ \A o \in strays' \ strays : o.path = h.path /\ h.from \in excused'
  BY ServingFrame
<1>3. SUFFICES ASSUME Undisturbed(c)'
               PROVE  Alone(c)' /\ Story(c)' /\ (Orderly(c)' => Hopeful(c)')
  BY DEF Calm
<1>4. Undisturbed(c) /\ c \notin excused'
  BY <1>2, <1>3 DEF Undisturbed, Busy
<1>5. Alone(c) /\ Story(c) /\ (Orderly(c) => Hopeful(c))
  BY <1>4 DEF Calm
<1>6. /\ \A e : Current(e)' <=> Current(e)
      /\ \A e : Answered(e)' <=> Answered(e)
      /\ \A d : (Busy(d)' <=> Busy(d)) /\ NamesOf(d)' = NamesOf(d)
      /\ Good(c)' <=> Good(c)
  BY <1>2 DEF Current, Answered, Busy, NamesOf, Good, AskOf
<1>7. Current(g) <=> Current(h)
  BY <1>1 DEF Turn, Current
<1>8. h.path \in NamesOf(c) => h.from = c /\ Current(h)
  BY <1>1, <1>5 DEF Alone
<1>9. Alone(c)'
  <2>1. \A o \in strays' : o.path \notin NamesOf(c)
    BY <1>2, <1>4, <1>5, <1>8 DEF Alone
  <2>2. \A e \in handlers' : e.path \in NamesOf(c) /\ ~Answered(e) => e.from = c /\ Current(e)
    BY <1>1, <1>5, <1>7, <1>8 DEF Alone, Turn
  <2>3. QED
    BY <1>2, <1>5, <1>6, <2>1, <2>2 DEF Alone, Slots
<1>10. CASE h.from = c /\ Current(h)
  <2>1. \A e \in handlers' : e.from = c /\ Current(e) => e = g
    BY <1>1, <1>10, OneCurrent DEF Turn
  <2>2. reply[c] = NoReply /\ ~Good(c) /\ at[c] = "waiting"
    BY <1>1, <1>10 DEF AskedInv, AskedFor, Answered, Good, Expected, NoReply, Current
  <2>3. g.pc \in {"assigning", "count"} /\ h.path # MetricsPath
    BY <1>1, <1>5, <1>8, <1>10, ClientTyped DEF Served, Alone, AskedInv, AskedFor
  <2>4. \A k \in Slots(c) :
          IF Answered(g) THEN g.code = Expected(g.verb) => Leaves(c, step[c], k, data'[names[c][k]])
                         ELSE Leaves(c, step[c] - 1, k, data'[names[c][k]])
    BY <1>1, <1>5, <1>10, <2>3, ServedStory DEF Answered
  <2>5. Story(c)'
    BY <1>2, <1>6, <2>1, <2>2, <2>4 DEF Story, Slots, Leaves, WritesSlot, IsWriteAt
  <2>6. ASSUME Orderly(c) PROVE Hopeful(c)'
    <3>1. Awaited(h)
      BY <1>10, <2>2, AwaitedCurrent
    <3>2. Fits(h)
      BY <1>1, <1>4, <1>5, <1>10, <2>6, <3>1, OrderlyOutcome DEF Fits
    <3>3. Answered(g) => g.code = Expected(g.verb)
      BY <1>1, <2>3, <3>2 DEF Answered
    <3>4. QED
      BY <1>2, <1>6, <2>1, <2>2, <3>3 DEF Hopeful
  <2>7. Orderly(c)' <=> Orderly(c)
    BY DEF Orderly
  <2>8. QED
    BY <1>9, <2>5, <2>6, <2>7
<1>11. CASE ~(h.from = c /\ Current(h))
  <2>1. \A e \in handlers' : e.from = c /\ Current(e) => e \in handlers
    BY <1>1, <1>7, <1>11 DEF Turn
  <2>2. \A k \in Slots(c) : data'[names[c][k]] = data[names[c][k]]
    <3>1. \A k \in Slots(c) : names[c][k] # h.path /\ names[c][k] \in Paths
      BY <1>8, <1>11, ClientTyped
    <3>2. data \in Trees /\ (data' = data \/ data' = [data EXCEPT ![h.path] = h.body])
      BY <1>1 DEF TypesInv, TypeOK, Served
    <3>3. QED
      BY <3>1, <3>2 DEF Trees
  <2>3. Story(c)'
    BY <1>2, <1>5, <1>6, <2>1, <2>2 DEF Story, Slots, Leaves, WritesSlot, IsWriteAt
  <2>4. Orderly(c)' => Hopeful(c)'
    BY <1>2, <1>5, <1>6, <2>1 DEF Hopeful, Orderly
  <2>5. QED
    BY <1>9, <2>3, <2>4
<1>12. QED
  BY <1>10, <1>11

LEMMA CalmCount ==
    ASSUME TypesInv, NEW h \in handlers, Counting(h), NEW c \in Clients, Calm(c)
    PROVE  Calm(c)'
<1>1. PICK g : Turn(h, g) /\ Counted(h, g) /\ g.code = h.code
  BY CountTurns
<1>2. UNCHANGED <<up, data, strays, at, step, names, serial, reply, excused>>
  BY CountTurns
<1>3. SUFFICES ASSUME Undisturbed(c)
               PROVE  Alone(c)' /\ Story(c)' /\ (Orderly(c)' => Hopeful(c)')
  BY <1>2 DEF Calm, Undisturbed, Busy
<1>4. Alone(c) /\ Story(c) /\ (Orderly(c) => Hopeful(c))
  BY <1>3 DEF Calm
<1>5. /\ \A e : Current(e)' <=> Current(e)
      /\ \A e : Answered(e)' <=> Answered(e)
      /\ \A d : (Busy(d)' <=> Busy(d)) /\ NamesOf(d)' = NamesOf(d)
      /\ Good(c)' <=> Good(c)
  BY <1>2 DEF Current, Answered, Busy, NamesOf, Good, AskOf
<1>6. /\ Answered(g) /\ Answered(h) /\ (Current(g) <=> Current(h))
      /\ g.from = h.from /\ g.verb = h.verb /\ g.code = h.code
      /\ handlers' = (handlers \ {h}) \cup {g}
  BY <1>1 DEF Turn, Current, Answered, Counted
<1>7. Alone(c)'
  BY <1>2, <1>4, <1>5, <1>6 DEF Alone, Slots
<1>8. Story(c)'
  BY <1>2, <1>4, <1>5, <1>6 DEF Story, Slots, Leaves, WritesSlot, IsWriteAt
<1>9. Orderly(c)' => Hopeful(c)'
  BY <1>2, <1>4, <1>5, <1>6 DEF Hopeful, Orderly
<1>10. QED
  BY <1>7, <1>8, <1>9

(* The reply a client gets is that of the handler it waits for.                *)
LEMMA CalmFlush ==
    ASSUME TypesInv, AskedInv, NEW h \in handlers, Flush(h),
           NEW c \in Clients, Calm(c)
    PROVE  Calm(c)'
<1>1. /\ UNCHANGED <<up, data, strays, at, step, names, serial, excused>>
      /\ \A d \in Clients :
           reply'[d] = IF d = h.from /\ Awaited(h) THEN h.code ELSE reply[d]
      /\ handlers' \subseteq handlers /\ Answered(h)
  BY FlushFrame DEF Answered
<1>2. SUFFICES ASSUME Undisturbed(c)
               PROVE  Alone(c)' /\ Story(c)' /\ (Orderly(c)' => Hopeful(c)')
  BY <1>1 DEF Calm, Undisturbed, Busy
<1>3. Alone(c) /\ Story(c) /\ (Orderly(c) => Hopeful(c))
  BY <1>2 DEF Calm
<1>4. /\ \A e : Current(e)' <=> Current(e)
      /\ \A e : Answered(e)' <=> Answered(e)
      /\ \A d : (Busy(d)' <=> Busy(d)) /\ NamesOf(d)' = NamesOf(d)
  BY <1>1 DEF Current, Answered, Busy, NamesOf
<1>5. Alone(c)'
  BY <1>1, <1>3, <1>4 DEF Alone, Slots
<1>6. CASE c = h.from /\ Awaited(h)
  <2>1. Current(h) /\ reply'[c] = h.code /\ h.verb = AskOf(c).verb /\ at[c] = "waiting"
    BY <1>1, <1>6 DEF Awaited, Current, AskedInv, AskedFor
  <2>2. /\ Good(c)' <=> h.code = Expected(h.verb)
        /\ \A k \in Slots(c) :
             h.code = Expected(h.verb) => Leaves(c, step[c], k, data[names[c][k]])
    BY <1>1, <1>3, <1>6, <2>1 DEF Good, AskOf, Story
  <2>3. Story(c)'
    BY <1>1, <1>3, <1>4, <2>1, <2>2 DEF Story, Slots, Leaves, WritesSlot, IsWriteAt
  <2>4. Orderly(c)' => Hopeful(c)'
    BY <1>1, <1>3, <1>4, <1>6, <2>1, <2>2 DEF Hopeful, Orderly
  <2>5. QED
    BY <1>5, <2>3, <2>4
<1>7. CASE ~(c = h.from /\ Awaited(h))
  <2>1. reply'[c] = reply[c] /\ (Good(c)' <=> Good(c))
    BY <1>1, <1>7 DEF Good, AskOf
  <2>2. Story(c)'
    BY <1>1, <1>3, <1>4, <2>1 DEF Story, Slots, Leaves, WritesSlot, IsWriteAt
  <2>3. Orderly(c)' => Hopeful(c)'
    BY <1>1, <1>3, <1>4, <2>1 DEF Hopeful, Orderly
  <2>4. QED
    BY <1>5, <2>2, <2>3
<1>8. QED
  BY <1>6, <1>7

(* A stray write is never on the names of a client that is undisturbed.       *)
LEMMA CalmApplies ==
    ASSUME TypesInv, RemoteApplies, NEW c \in Clients, Calm(c)
    PROVE  Calm(c)'
<1>1. PICK o \in strays : data' = Effect(o, data) /\ strays' = strays \ {o}
  BY DEF RemoteApplies
<1>2. UNCHANGED <<up, handlers, at, step, names, serial, reply, excused>>
  BY DEF RemoteApplies, clientVars, history
<1>3. SUFFICES ASSUME Undisturbed(c)
               PROVE  Alone(c)' /\ Story(c)' /\ (Orderly(c)' => Hopeful(c)')
  BY <1>2 DEF Calm, Undisturbed, Busy
<1>4. Alone(c) /\ Story(c) /\ (Orderly(c) => Hopeful(c))
  BY <1>3 DEF Calm
<1>5. /\ \A e : Current(e)' <=> Current(e)
      /\ \A e : Answered(e)' <=> Answered(e)
      /\ \A d : (Busy(d)' <=> Busy(d)) /\ NamesOf(d)' = NamesOf(d)
      /\ Good(c)' <=> Good(c)
  BY <1>2 DEF Current, Answered, Busy, NamesOf, Good, AskOf
<1>6. \A k \in Slots(c) : data'[names[c][k]] = data[names[c][k]]
  <2>1. data \in Trees /\ (data' = data \/ data' = [data EXCEPT ![o.path] = o.body])
    BY <1>1 DEF Effect, TypesInv, TypeOK
  <2>2. \A k \in Slots(c) : names[c][k] # o.path /\ names[c][k] \in Paths
    BY <1>4, ClientTyped DEF Alone
  <2>3. QED
    BY <2>1, <2>2 DEF Trees
<1>7. Alone(c)'
  BY <1>1, <1>2, <1>4, <1>5 DEF Alone, Slots
<1>8. Story(c)'
  BY <1>2, <1>4, <1>5, <1>6 DEF Story, Slots, Leaves, WritesSlot, IsWriteAt
<1>9. Orderly(c)' => Hopeful(c)'
  BY <1>2, <1>4, <1>5 DEF Hopeful, Orderly
<1>10. QED
  BY <1>7, <1>8, <1>9

LEMMA CalmStep ==
    ASSUME TypesInv, HandlerInv, AskedInv, Next, \A d \in Clients : Calm(d), NEW c \in Clients
    PROVE  Calm(c)'
<1>1. ASSUME NEW d \in Clients, SendFails(d) \/ Timeout(d) PROVE Calm(c)'
  <2>1. /\ UNCHANGED <<up, data, strays, handlers, names, serial>> /\ Fail(d)
        /\ excused \subseteq excused'
    BY <1>1 DEF SendFails, Timeout, serverVars, history
  <2>2. Elsewhere(d) /\ at'[d] = "idle"
    BY <2>1, FailFrame
  <2>3. QED
    BY <2>1, <2>2, CalmEnd
<1>2. CASE MapSpoiled \/ MapRace
  BY <1>2 DEF MapSpoiled, MapRace, Calm, Undisturbed
<1>3. Calm(c)
  OBVIOUS
<1>4. QED
  BY <1>1, <1>2, <1>3, CalmBegin, CalmSend, CalmReceive, CalmServing, CalmCount, CalmFlush,
     CalmApplies DEF Next, Client, Handler, Serving, Counting

(* What requests come to: the invariant of an action.                         *)
RequestsInv == HandlerInv /\ AskedInv /\ UndisturbedInv

LEMMA RequestsInit == Init => RequestsInv
<1> SUFFICES ASSUME Init PROVE RequestsInv
  OBVIOUS
<1>1. handlers = {} /\ up /\ \A c \in Clients : at[c] = "idle" /\ reply[c] = NoReply
  BY DEF Init
<1>2. HandlerInv
  BY <1>1, FS_EmptySet DEF HandlerInv
<1>3. AskedInv
  BY <1>1 DEF AskedInv, Attended
<1>4. UndisturbedInv
  BY <1>1 DEF UndisturbedInv, Undisturbed, Busy
<1>5. QED
  BY <1>2, <1>3, <1>4 DEF RequestsInv

LEMMA RequestsStep == TypesInv /\ RequestsInv /\ [Next]_vars => RequestsInv'
<1> SUFFICES ASSUME TypesInv, RequestsInv, [Next]_vars PROVE RequestsInv'
  OBVIOUS
<1>1. HandlerInv /\ AskedInv /\ \A c \in Clients : Calm(c)
  BY DEF RequestsInv, UndisturbedInv, Calm
<1>2. CASE Next
  <2>1. \A c \in Clients : Calm(c)'
    BY <1>1, <1>2, CalmStep
  <2>2. UndisturbedInv'
    BY <2>1 DEF UndisturbedInv, Calm
  <2>3. QED
    BY <1>1, <1>2, <2>2, HandlerInvStep, AskedInvStep DEF RequestsInv
<1>3. CASE UNCHANGED vars
  <2>1. UNCHANGED <<up, data, strays, handlers, at, step, names, serial, reply, excused>>
    BY <1>3 DEF vars, serverVars, clientVars, history
  <2>2. HandlerInv'
    BY <1>1, <2>1, FewerHandlers
  <2>3. AskedInv'
    BY <1>1, <2>1 DEF AskedInv, AskedFor, Attended, Current, AskOf
  <2>4. ASSUME NEW c \in Clients PROVE Calm(c)'
    <3>1. /\ \A e : Current(e)' <=> Current(e)
          /\ \A e : Answered(e)' <=> Answered(e)
          /\ \A d : (Busy(d)' <=> Busy(d)) /\ NamesOf(d)' = NamesOf(d)
          /\ Good(c)' <=> Good(c)
      BY <2>1 DEF Current, Answered, Busy, NamesOf, Good, AskOf
    <3>2. SUFFICES ASSUME Undisturbed(c)
                   PROVE  Alone(c)' /\ Story(c)' /\ (Orderly(c)' => Hopeful(c)')
      BY <2>1 DEF Calm, Undisturbed, Busy
    <3>3. Alone(c) /\ Story(c) /\ (Orderly(c) => Hopeful(c))
      BY <1>1, <3>2 DEF Calm
    <3>4. Alone(c)'
      BY <2>1, <3>1, <3>3 DEF Alone, Slots
    <3>5. Story(c)'
      BY <2>1, <3>1, <3>3 DEF Story, Slots, Leaves, WritesSlot, IsWriteAt
    <3>6. QED
      BY <2>1, <3>1, <3>3, <3>4, <3>5 DEF Hopeful, Orderly
  <2>5. UndisturbedInv'
    BY <2>4 DEF UndisturbedInv, Calm
  <2>6. QED
    BY <2>2, <2>3, <2>5 DEF RequestsInv
<1>4. QED
  BY <1>2, <1>3

LEMMA RequestsInvariance == Spec => [](TypesInv /\ RequestsInv)
BY Invariance, RequestsInit, RequestsStep, PTL DEF Spec

-----------------------------------------------------------------------------
(* The counters of retries.                                                  *)

(* Requests with retries that are counted and whose retries are not yet.      *)
Halfway(v) == {h \in handlers : h.verb = v /\ h.pc = "counted"}
Retried(v) == requestCount[<<v, "success", TRUE>>]

(* k retries of r requests, n of which have not added theirs.                 *)
InBounds(r, n, k) == r - n <= k /\ k <= MaxRetries * (r - n)

RetriesOf(v) ==
    /\ requestCount[<<v, "error", TRUE>>] = 0 /\ requestCount[<<v, "", TRUE>>] = 0
    /\ InBounds(Retried(v), Cardinality(Halfway(v)), retryCount[v])
    /\ backend = "memory" => Retried(v) = 0 /\ retryCount[v] = 0

LEMMA RetriesParts == RetriesAreOfSuccesses <=> \A v \in Methods : RetriesOf(v)
BY Zenon DEF RetriesAreOfSuccesses, RetriesOf, InBounds, Retried, Halfway

LEMMA RetriesPartsNext == RetriesAreOfSuccesses' <=> \A v \in Methods : RetriesOf(v)'
BY Zenon DEF RetriesAreOfSuccesses, RetriesOf, InBounds, Retried, Halfway

LEMMA BoundsMove ==
    ASSUME NEW r \in Nat, NEW n \in Nat, NEW k \in Nat, InBounds(r, n, k)
    PROVE  /\ InBounds(r + 1, n + 1, k)
           /\ \A j \in 1..MaxRetries : InBounds(r, n - 1, k + j)
<1>1. (r + 1) - (n + 1) = r - n /\ MaxRetries \in Nat
  BY ServerAssumption
<1>2. PICK m \in Int : m = r - n
  OBVIOUS
<1>3. MaxRetries * (m + 1) = MaxRetries * m + MaxRetries /\ MaxRetries * m \in Int
  BY <1>1
<1>4. m <= k /\ k <= MaxRetries * m
  BY <1>2 DEF InBounds
<1>5. ASSUME NEW j \in 1..MaxRetries PROVE InBounds(r, n - 1, k + j)
  <2>1. r - (n - 1) = m + 1
    BY <1>2
  <2>2. m + 1 <= k + j /\ k + j <= MaxRetries * (m + 1)
    BY <1>1, <1>3, <1>4
  <2>3. QED
    BY <2>1, <2>2 DEF InBounds
<1>6. QED
  BY <1>1, <1>5 DEF InBounds

LEMMA HalfwayFinite ==
    ASSUME HandlerInv, NEW v
    PROVE  IsFiniteSet(Halfway(v)) /\ Cardinality(Halfway(v)) \in Nat
BY FS_Subset, FS_CardinalityType DEF HandlerInv, Halfway

(* The counters after one more request with these retries.                    *)
LEMMA RetriesCounted ==
    ASSUME TypesInv, HandlerInv, NEW h \in handlers, CountRequest(h),
           NEW v \in Methods, RetriesOf(v)
    PROVE  RetriesOf(v)'
<1>1. /\ HandlerOK(h) /\ h \in Handlers /\ h.verb \in Methods /\ h.retries \in Nat
      /\ requestCount \in [Labels -> Nat] /\ retryCount \in [Methods -> Nat]
  BY Parts, ServerAssumption DEF HandlersOK, HandlerOK, Handlers, CountersOK
<1> DEFINE label == <<h.verb, StatusOf(h), h.retries > 0>>
<1>2. /\ requestCount' = [requestCount EXCEPT ![label] = @ + 1]
      /\ retryCount' = retryCount /\ backend' = backend
  BY DEF CountRequest, CountOne
<1>3. PICK g : g = [h EXCEPT !.pc = IF h.retries > 0 THEN "counted" ELSE "flush"] /\ Becomes(h, g)
  BY DEF CountRequest, CountOne
<1>4. /\ Turn(h, g) /\ g.code = h.code /\ h.pc = "count"
      /\ g.pc = IF h.retries > 0 THEN "counted" ELSE "flush"
  BY <1>1, <1>3 DEF Handlers, Turn, Becomes, CountRequest, CountOne
<1>5. g \notin handlers
  <2>1. FitHandler(g)
    BY <1>4 DEF HandlerInv, FitHandler, Turn, Answered, Success
  <2>2. QED
    BY <1>4, <2>1, TurnKeeps
<1>6. \A x \in {"success", "error", ""} : <<v, x, TRUE>> \in Labels
  BY DEF Labels
<1>7. CASE h.retries > 0 /\ h.verb = v
  <2>1. /\ Success(h) /\ backend = "remote" /\ label = <<v, "success", TRUE>>
    BY <1>1, <1>7 DEF HandlerOK, StatusOf
  <2>2. /\ Retried(v)' = Retried(v) + 1 /\ Retried(v) \in Nat
        /\ \A x \in {"error", ""} : requestCount'[<<v, x, TRUE>>] = requestCount[<<v, x, TRUE>>]
    <3>1. \A x \in {"error", ""} : <<v, x, TRUE>> # label
      BY <2>1, LabelsDiffer
    <3> HIDE DEF label
    <3>2. QED
      BY <1>1, <1>2, <1>6, <2>1, <3>1 DEF Retried
  <2>3. Halfway(v)' = Halfway(v) \cup {g} /\ g \notin Halfway(v)
    BY <1>4, <1>5, <1>7 DEF Halfway, Turn
  <2>4. Cardinality(Halfway(v)') = Cardinality(Halfway(v)) + 1 /\ Cardinality(Halfway(v)) \in Nat
    BY <2>3, HalfwayFinite, FS_AddElement
  <2>5. InBounds(Retried(v) + 1, Cardinality(Halfway(v)) + 1, retryCount[v])
    BY <1>1, <2>2, <2>4, BoundsMove DEF RetriesOf
  <2>6. QED
    BY <1>2, <2>1, <2>2, <2>4, <2>5 DEF RetriesOf
<1>8. CASE ~(h.retries > 0 /\ h.verb = v)
  <2>1. Halfway(v)' = Halfway(v)
    BY <1>4, <1>8 DEF Halfway, Turn
  <2>2. \A x \in {"success", "error", ""} :
          requestCount'[<<v, x, TRUE>>] = requestCount[<<v, x, TRUE>>]
    <3>1. \A x : <<v, x, TRUE>> # label
      BY <1>8, LabelsDiffer
    <3> HIDE DEF label
    <3>2. QED
      BY <1>1, <1>2, <1>6, <3>1
  <2>3. Retried(v)' = Retried(v)
    BY <2>2 DEF Retried
  <2>4. QED
    BY <1>2, <2>1, <2>2, <2>3 DEF RetriesOf
<1>9. QED
  BY <1>7, <1>8

(* One request whose retries are added is one halfway less.                   *)
LEMMA RetriesAdded ==
    ASSUME TypesInv, HandlerInv, NEW h \in handlers, CountRetries(h),
           NEW v \in Methods, RetriesOf(v)
    PROVE  RetriesOf(v)'
<1>1. /\ HandlerOK(h) /\ h \in Handlers /\ h.retries \in 0..MaxRetries
      /\ requestCount \in [Labels -> Nat] /\ retryCount \in [Methods -> Nat]
      /\ h.verb \in Methods /\ MaxRetries \in Nat
  BY Parts, ServerAssumption DEF HandlersOK, HandlerOK, Handlers, CountersOK
<1>2. /\ retryCount' = [retryCount EXCEPT ![h.verb] = @ + h.retries]
      /\ requestCount' = requestCount /\ backend' = backend /\ h.pc = "counted"
  BY DEF CountRetries
<1>3. h.retries \in 1..MaxRetries /\ backend = "remote"
  BY <1>1, <1>2 DEF HandlerOK
<1>4. PICK g : Turn(h, g) /\ g.pc = "flush"
  BY <1>2, CountTurns DEF Counting, Counted
<1>5. Retried(v)' = Retried(v)
  BY <1>2 DEF Retried
<1>6. CASE h.verb = v
  <2>1. Halfway(v)' = Halfway(v) \ {h} /\ h \in Halfway(v)
    BY <1>2, <1>4, <1>6 DEF Halfway, Turn
  <2>2. Cardinality(Halfway(v)') = Cardinality(Halfway(v)) - 1 /\ Cardinality(Halfway(v)) \in Nat
    BY <2>1, HalfwayFinite, FS_RemoveElement
  <2>3. retryCount'[v] = retryCount[v] + h.retries /\ retryCount[v] \in Nat /\ Retried(v) \in Nat
    BY <1>1, <1>2, <1>6 DEF Retried, Labels
  <2>4. InBounds(Retried(v), Cardinality(Halfway(v)) - 1, retryCount[v] + h.retries)
    BY <1>3, <2>2, <2>3, BoundsMove DEF RetriesOf
  <2>5. QED
    BY <1>2, <1>3, <1>5, <2>2, <2>3, <2>4 DEF RetriesOf
<1>7. CASE h.verb # v
  <2>1. Halfway(v)' = Halfway(v)
    BY <1>4, <1>7 DEF Halfway, Turn
  <2>2. retryCount'[v] = retryCount[v]
    BY <1>1, <1>2, <1>7
  <2>3. QED
    BY <1>2, <1>5, <2>1, <2>2 DEF RetriesOf
<1>8. QED
  BY <1>6, <1>7

LEMMA RetriesStep ==
    ASSUME TypesInv, HandlerInv, RetriesAreOfSuccesses, [Next]_vars
    PROVE  RetriesAreOfSuccesses'
<1>1. SUFFICES ASSUME NEW v \in Methods, RetriesOf(v) PROVE RetriesOf(v)'
  BY RetriesParts, RetriesPartsNext
<1>2. ASSUME Halfway(v)' = Halfway(v), UNCHANGED <<backend, requestCount, retryCount>>
      PROVE  RetriesOf(v)'
  <2>1. Retried(v)' = Retried(v) /\ Cardinality(Halfway(v)') = Cardinality(Halfway(v))
    BY <1>2 DEF Retried
  <2>2. QED
    BY <1>1, <1>2, <2>1 DEF RetriesOf
<1>3. ASSUME NEW c \in Clients, Client(c) \/ Timeout(c) PROVE RetriesOf(v)'
  <2>1. UNCHANGED <<backend, requestCount, retryCount>>
    BY <1>3 DEF Client, BeginAction, Send, SendFails, Receive, Timeout, serverVars
  <2>2. handlers' = handlers \/ \E h : handlers' = handlers \cup {h} /\ h.pc = "received"
    <3>1. CASE Send(c)
      BY <3>1, SendNew
    <3>2. CASE ~Send(c)
      BY <1>3, <3>2 DEF Client, BeginAction, SendFails, Receive, Timeout, serverVars
    <3>3. QED
      BY <3>1, <3>2
  <2>3. Halfway(v)' = Halfway(v)
    BY <2>2 DEF Halfway
  <2>4. QED
    BY <1>2, <2>1, <2>3
<1>4. ASSUME NEW h \in handlers, Serving(h) PROVE RetriesOf(v)'
  <2>1. PICK g : Turn(h, g) /\ Served(h, g) /\ ~Answered(h)
    BY <1>4, ServingStep
  <2>2. g.pc # "counted" /\ h.pc # "counted"
    BY <2>1 DEF Served, Answered
  <2>3. Halfway(v)' = Halfway(v)
    BY <2>1, <2>2 DEF Turn, Halfway
  <2>4. UNCHANGED <<backend, requestCount, retryCount>>
    BY <1>4 DEF Serving, Scrape, NotAllowed, BodyBreaks, Lookup, Assign, Panics,
       RemoteAnswers, RemoteFails, Within
  <2>5. QED
    BY <1>2, <2>3, <2>4
<1>5. ASSUME NEW h \in handlers, Flush(h) PROVE RetriesOf(v)'
  <2>1. Halfway(v)' = Halfway(v) /\ UNCHANGED <<backend, requestCount, retryCount>>
    BY <1>5 DEF Flush, Halfway
  <2>2. QED
    BY <1>2, <2>1
<1>6. CASE MapRace
  <2>1. PICK h \in handlers : UsesMap(h)
    BY <1>6 DEF MapRace
  <2>2. backend = "memory" /\ \A g \in handlers : g.pc # "counted"
    BY <2>1 DEF TypesInv, TypeOK, Handlers, RetryInv, MapInv, UsesMap, AtBackend
  <2>3. Halfway(v)' = Halfway(v) /\ UNCHANGED <<backend, requestCount, retryCount>>
    BY <1>6, <2>2 DEF MapRace, Halfway
  <2>4. QED
    BY <1>2, <2>3
<1>7. CASE MapSpoiled \/ RemoteApplies \/ UNCHANGED vars
  <2>1. UNCHANGED <<handlers, backend, requestCount, retryCount>>
    BY <1>7 DEF MapSpoiled, RemoteApplies, vars, serverVars
  <2>2. QED
    BY <1>2, <2>1 DEF Halfway
<1>8. QED
  BY <1>1, <1>3, <1>4, <1>5, <1>6, <1>7, RetriesCounted, RetriesAdded
     DEF Next, Handler, Serving

LEMMA RetriesInit == Init => RetriesAreOfSuccesses
<1> SUFFICES ASSUME Init, NEW v \in Methods PROVE RetriesOf(v)
  BY RetriesParts
<1>1. Halfway(v) = {}
  BY DEF Init, Halfway
<1>2. \A x \in {"success", "error", ""} : requestCount[<<v, x, TRUE>>] = 0
  BY DEF Init, Labels
<1>3. retryCount[v] = 0
  BY DEF Init
<1>4. Cardinality(Halfway(v)) = 0
  BY <1>1, FS_EmptySet
<1>5. InBounds(0, 0, 0)
  BY ServerAssumption DEF InBounds
<1>6. QED
  BY <1>2, <1>3, <1>4, <1>5 DEF RetriesOf, Retried

(* The retry counters are about requests that succeeded (server.go:50-55,     *)
(* 76-81): whenever they are read, between the two lines too, every request   *)
(* that is labelled as retried is a success, and each of them but those       *)
(* between the two lines has added one retry at least.                       *)
THEOREM RetriesAreOfSuccessesHolds == Spec => []RetriesAreOfSuccesses
<1>1. RequestsInv => HandlerInv
  BY DEF RequestsInv
<1>2. QED
  BY <1>1, RequestsInvariance, RetriesInit, RetriesStep, PTL DEF Spec

-----------------------------------------------------------------------------
(* What an action comes to.                                                  *)

(* Which step ends an action, and with what outcome.                         *)
LEMMA Endings ==
    ASSUME TypesInv, Next, NEW c \in Clients
    PROVE  /\ stats'[c].actions.good > stats[c].actions.good =>
                Receive(c) /\ Good(c) /\ step[c] = Len(ScriptOf[c])
           /\ stats'[c].actions.bad > stats[c].actions.bad =>
                SendFails(c) \/ Timeout(c) \/ (Receive(c) /\ ~Good(c))
<1> DEFINE Kept == stats'[c] = stats[c]
<1>1. stats[c].actions.good \in Nat /\ stats[c].actions.bad \in Nat
  BY DEF TypesInv, TypeOK, Counts
<1>2. ASSUME NEW d \in Clients, BeginAction(d) \/ Send(d) PROVE Kept
  BY <1>2 DEF BeginAction, Send
<1>3. ASSUME NEW d \in Clients, SendFails(d) \/ Timeout(d)
      PROVE  d = c \/ Kept
  <2>1. Elsewhere(d)
    BY <1>3, FailFrame DEF SendFails, Timeout
  <2>2. QED
    BY <2>1 DEF Elsewhere
<1>4. ASSUME NEW d \in Clients, Receive(d)
      PROVE  d = c \/ Kept
  BY <1>4, ReceiveFrame DEF Elsewhere
<1>5. ASSUME SendFails(c) \/ Timeout(c)
      PROVE  stats'[c].actions.good = stats[c].actions.good
  BY <1>5, FailFrame DEF SendFails, Timeout
<1>6. ASSUME Receive(c), ~Good(c)
      PROVE  stats'[c].actions.good = stats[c].actions.good
  <2>1. UNCHANGED <<names, serial>>
    BY <1>6 DEF Receive
  <2>2. QED
    BY <1>6, <2>1, ReceiveBad, FailFrame
<1>7. ASSUME Receive(c), Good(c)
      PROVE  /\ stats'[c].actions.bad = stats[c].actions.bad
             /\ \/ step[c] = Len(ScriptOf[c])
                \/ stats'[c].actions.good = stats[c].actions.good
  BY <1>7, ReceiveGood
<1>8. ASSUME NEW h \in handlers, Handler(h) PROVE Kept
  BY <1>8, ServingFrame, FlushFrame, CountTurns DEF Handler, Serving, Counting
<1>9. ASSUME MapSpoiled \/ MapRace \/ RemoteApplies PROVE Kept
  <2>1. UNCHANGED stats
    BY <1>9 DEF MapSpoiled, MapRace, RemoteApplies, clientVars
  <2>2. QED
    BY <2>1
<1> HIDE DEF Kept
<1>10. Kept \/ Receive(c) \/ SendFails(c) \/ Timeout(c)
  BY <1>2, <1>3, <1>4, <1>8, <1>9 DEF Next, Client
<1>11. CASE Kept
  BY <1>1, <1>11 DEF Kept
<1>12. CASE SendFails(c) \/ Timeout(c)
  BY <1>1, <1>5, <1>12
<1>13. CASE Receive(c)
  BY <1>1, <1>6, <1>7, <1>13
<1>14. QED
  BY <1>10, <1>11, <1>12, <1>13

(* An action that succeeds with names of its own leaves what its script wrote  *)
(* last at each of them (main.go:142-205), for every script and whoever else  *)
(* is served at the same time; on the memory backend, unless two handlers      *)
(* have changed its map at once or the answer came from a map in that state.  *)
THEOREM SuccessLeavesItsWritesHolds == Spec => SuccessLeavesItsWrites
<1> DEFINE Leaving(c) == \A i \in DOMAIN ScriptOf[c] :
                           LastWrite(c, i) =>
                             data[names[c][ScriptOf[c][i].name]] = ScriptOf[c][i].body
           Ending == \A c \in Clients \ excused :
                       stats'[c].actions.good > stats[c].actions.good => Leaving(c)
<1>1. ASSUME TypesInv, RequestsInv, Next,
             NEW c \in Clients \ excused,
             stats'[c].actions.good > stats[c].actions.good
      PROVE  Leaving(c)
  <2>1. Receive(c) /\ Good(c) /\ step[c] = Len(ScriptOf[c]) /\ at[c] = "waiting"
    BY <1>1, Endings DEF Receive
  <2>2. Story(c)
    BY <1>1, <2>1 DEF RequestsInv, UndisturbedInv, Undisturbed, Busy
  <2>3. SUFFICES ASSUME NEW i \in DOMAIN ScriptOf[c], LastWrite(c, i)
                 PROVE  data[names[c][ScriptOf[c][i].name]] = ScriptOf[c][i].body
    OBVIOUS
  <2>4. Leaves(c, step[c], ScriptOf[c][i].name, data[names[c][ScriptOf[c][i].name]])
    BY <2>1, <2>2 DEF Story, Slots
  <2>5. Leaves(c, step[c], ScriptOf[c][i].name, ScriptOf[c][i].body)
    BY <2>1, <2>3, LastLeaves
  <2>6. step[c] \in Nat
    BY <1>1, ClientTyped
  <2>7. QED
    BY <2>4, <2>5, <2>6, LeavesOnce
<1>2. TypesInv /\ RequestsInv /\ [Next]_vars => [Ending]_vars
  BY <1>1
<1>3. QED
  BY <1>2, RequestsInvariance, PTL DEF Spec, SuccessLeavesItsWrites

(* Scripts that create what is not there and read, update or delete what is.  *)
AllOrderly == \A c \in Clients : Orderly(c)

(* An action of such a script fails only for a reason: a name that is shared   *)
(* or in use, an answer that did not come in time, a failing remote, or a map  *)
(* that two handlers used at once.  Traffic on other paths that does not       *)
(* overlap with it in the map is no reason, nor do client and server disagree  *)
(* about a status (server.go:86-220, client/client.go).                      *)
THEOREM FailsForAReasonHolds == AllOrderly => (Spec => FailsForAReason)
<1>1. SUFFICES ASSUME AllOrderly PROVE Spec => FailsForAReason
  OBVIOUS
<1> DEFINE Ending == \A c \in Clients :
                       stats'[c].actions.bad > stats[c].actions.bad => c \in excused'
<1>2. ASSUME TypesInv, RequestsInv, Next, NEW c \in Clients,
             stats'[c].actions.bad > stats[c].actions.bad
      PROVE  c \in excused'
  <2>1. SendFails(c) \/ Timeout(c) \/ (Receive(c) /\ ~Good(c))
    BY <1>2, Endings
  <2>2. CASE SendFails(c)
    BY <1>2, <2>2 DEF SendFails, history, RequestsInv, UndisturbedInv, Undisturbed, Busy, Alone
  <2>3. CASE Timeout(c)
    BY <2>3 DEF Timeout
  <2>4. CASE Receive(c) /\ ~Good(c)
    <3>1. at[c] = "waiting" /\ reply[c] # NoReply /\ excused' = excused
      BY <2>4 DEF Receive, history
    <3>2. Orderly(c)
      BY <1>1 DEF AllOrderly
    <3>3. QED
      BY <1>2, <2>4, <3>1, <3>2 DEF RequestsInv, UndisturbedInv, Undisturbed, Busy, Hopeful
  <2>5. QED
    BY <2>1, <2>2, <2>3, <2>4
<1>3. TypesInv /\ RequestsInv /\ [Next]_vars => [Ending]_vars
  BY <1>2
<1>4. QED
  BY <1>3, RequestsInvariance, PTL DEF Spec, FailsForAReason
=============================================================================
