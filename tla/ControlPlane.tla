---------------------------- MODULE ControlPlane ----------------------------
(***************************************************************************)
(* Control connections, the controller identities they claim, and the      *)
(* registry of calls they create and end.  The tasks that touch it are the *)
(* loop of each connection, which serves one command at a time, the task a *)
(* connection spawns for a command that dials a WebSocket server, and the  *)
(* sweep that reaps idle calls.  The maps have no common lock: an action   *)
(* is one access to a map, or the accesses made under one row's lock.      *)
(*                                                                         *)
(* A client id is the connection whose ordinal it is.  A generation is the *)
(* connection that registered: it is only compared for equality and a      *)
(* connection remembers its last one.  A channel is the number of channels *)
(* made for its client so far.  A row of client_calls that holds zero is   *)
(* the same as no row.                                                     *)
(***************************************************************************)
EXTENDS Integers, FiniteSets

CONSTANTS Conn,         \* control connections, each opened once
          Key,          \* controller ids
          Id,           \* call ids
          Scoped,       \* the call ids that carry a scope
          Sends,        \* the verbs each connection sends
          Limit,        \* max_calls_per_client
          MaxCalls,     \* how many calls a connection asks for
          MaxChannels,  \* how many event channels each client gets
          None

ASSUME ControlAssumption ==
  /\ Scoped \subseteq Id
  /\ Sends \in [Conn -> SUBSET {"offer", "wsOffer", "answerLocal", "delete"}]
  /\ Limit \in Nat /\ MaxCalls \in Nat /\ MaxChannels \in [Conn -> Nat]
  /\ None \notin Conn \cup Key \cup Id \cup Nat
  /\ None \notin [generation : Conn, chan : Nat] \cup [client : Conn, attached : Conn \cup {None}]

VARIABLES
  conn,           \* ConnectionIdentity of each connection
  controllers,    \* Engine::controllers
  controllerIds,  \* Engine::controller_ids
  sinks,          \* Engine::events
  made,           \* channels made for each client
  clientCalls,    \* Engine::client_calls
  calls,          \* Engine::calls
  pipes,          \* the pipelines registered under a call id
  backed,         \* calls whose endpoints are allocated
  asked,          \* calls each connection asked for
  job             \* what each task does next

identity == <<conn, controllers, controllerIds, sinks, made>>
registry == <<clientCalls, calls, pipes, backed, asked>>
vars == <<identity, registry, job>>

Sweep == <<"sweep">>
Loop(c) == <<"loop", c>>
Dial(c) == <<"dial", c>>
Worker == {Sweep} \cup {Loop(c) : c \in Conn} \cup {Dial(c) : c \in Conn}
Verb == {"offer", "wsOffer", "answerLocal", "delete"}

Number == Conn \X (1 .. MaxCalls)
Call == [number : Number, owner : Conn, far : BOOLEAN, claimed : BOOLEAN]
Idle == [at |-> "idle", verb |-> None, id |-> None, client |-> None, claimed |-> FALSE,
         number |-> None, call |-> None, key |-> None, other |-> None, then |-> "idle"]
Labels == {"idle", "claim", "row", "publish", "detach", "replaceCheck", "replaceRemove", "build",
           "localRemove", "localRegate", "insert", "index", "pipe", "register", "teardown",
           "reapCall", "unpipe", "free", "reap", "reapRow", "reapRest"}

Follow == {"idle", "build", "localRegate"}

Connection == [state : {"new", "open", "closed"}, client : Conn, key : Key \cup {None},
               chan : Nat, evicted : BOOLEAN]
Row == [client : Conn, attached : Conn \cup {None}]
Sink == [generation : Conn, chan : Nat]
Pipe == [number : Number, owner : Conn, chan : Nat \cup {None}]
Job == [at : Labels, verb : Verb \cup {None}, id : Id \cup {None},
        client : Conn \cup {None}, claimed : BOOLEAN, number : Number \cup {None},
        call : Call \cup {None}, key : Key \cup {None}, other : Conn \cup {None},
        then : Follow]

TypeOK ==
  /\ conn \in [Conn -> Connection]
  /\ controllers \in [Key -> Row \cup {None}]
  /\ controllerIds \in [Conn -> Key \cup {None}]
  /\ sinks \in [Conn -> Sink \cup {None}]
  /\ made \in [Conn -> Nat] /\ clientCalls \in [Conn -> Nat]
  /\ calls \in [Id -> Call \cup {None}]
  /\ pipes \in [Id -> Pipe \cup {None}]
  /\ backed \subseteq Number /\ asked \in [Conn -> 0 .. MaxCalls]
  /\ job \in [Worker -> Job]

Init ==
  /\ conn = [c \in Conn |-> [state |-> "new", client |-> c, key |-> None, chan |-> 0,
                             evicted |-> FALSE]]
  /\ controllers = [k \in Key |-> None]
  /\ controllerIds = [c \in Conn |-> None]
  /\ sinks = [c \in Conn |-> None]
  /\ made = [c \in Conn |-> 0] /\ clientCalls = [c \in Conn |-> 0]
  /\ calls = [x \in Id |-> None] /\ pipes = [x \in Id |-> None]
  /\ backed = {} /\ asked = [c \in Conn |-> 0]
  /\ job = [w \in Worker |-> Idle]

At(w, label) == job[w].at = label
Go(w, label) == job' = [job EXCEPT ![w].at = label]
Done(w) == job' = [job EXCEPT ![w] = Idle]

(* The task goes on with what it does after ending a call or a reap.       *)
Resume(j) ==
  IF j.then = "idle" THEN Idle
  ELSE [j EXCEPT !.at = j.then, !.call = None, !.key = None, !.other = None, !.then = "idle"]

Admits(call, client, x) == call.owner = client \/ x \in Scoped

----------------------------------------------------------------------------
(* Connections and the identities they claim.                              *)

(* Faulty variant: a new registration brings a new channel.                *)
RegisterAfresh(client, c) ==
  /\ sinks' = [sinks EXCEPT ![client] = [generation |-> c, chan |-> made[client] + 1]]
  /\ made' = [made EXCEPT ![client] = @ + 1]

(* register_client_generation: a client that has a channel keeps it.       *)
Register(client, c) ==
  IF sinks[client] = None
  THEN /\ sinks' = [sinks EXCEPT ![client] = [generation |-> c, chan |-> made[client] + 1]]
       /\ made' = [made EXCEPT ![client] = @ + 1]
  ELSE /\ sinks' = [sinks EXCEPT ![client].generation = c]
       /\ UNCHANGED made

(* Faulty variant: the channel of an identity goes with the connection.    *)
DeregisterAny(client, c) ==
  sinks' = IF sinks[client] # None /\ sinks[client].generation = c
           THEN [sinks EXCEPT ![client] = None] ELSE sinks

(* deregister_client: an identity's channel is kept, and only the last     *)
(* registration is released.                                               *)
Deregister(client, c) ==
  sinks' = IF controllerIds[client] = None /\ sinks[client] # None
              /\ sinks[client].generation = c
           THEN [sinks EXCEPT ![client] = None] ELSE sinks

Connect(c) ==
  /\ conn[c].state = "new"
  /\ Register(c, c)
  /\ conn' = [conn EXCEPT ![c].state = "open", ![c].chan = sinks'[c].chan]
  /\ UNCHANGED <<controllers, controllerIds, registry, job>>

Serving(c) == conn[c].state = "open" /\ At(Loop(c), "idle")

(* ConnectionIdentity::claim: the connection's own channel goes first.  A  *)
(* second claim changes nothing.                                           *)
Claim(c, k) ==
  /\ Serving(c) /\ conn[c].key = None
  /\ Deregister(conn[c].client, c)
  /\ job' = [job EXCEPT ![Loop(c)] = [Idle EXCEPT !.at = "claim", !.key = k]]
  /\ UNCHANGED <<conn, controllers, controllerIds, made, registry>>

(* The checks of attach_controller: a connection that owns calls is        *)
(* refused ...                                                             *)
ClaimAdmitted(c) ==
  /\ At(Loop(c), "claim") /\ clientCalls[conn[c].client] = 0
  /\ Go(Loop(c), "row")
  /\ UNCHANGED <<identity, registry>>

(* ... like an id of a wrong length, whoever presents it; the connection   *)
(* is put back on its own identity, with a new channel.                    *)
ClaimRefused(c) ==
  /\ At(Loop(c), "claim") /\ made[conn[c].client] < MaxChannels[c]
  /\ Register(conn[c].client, c)
  /\ conn' = [conn EXCEPT ![c].chan = sinks'[conn[c].client].chan]
  /\ Done(Loop(c))
  /\ UNCHANGED <<controllers, controllerIds, registry>>

(* Under the lock of the identity's row: mint or find it, register, take   *)
(* its attachment.  Only the claiming loop reads its own fields, so they   *)
(* take their values here.                                                 *)
AttachRow(c) ==
  LET k == job[Loop(c)].key
      row == IF controllers[k] = None THEN [client |-> conn[c].client, attached |-> None]
             ELSE controllers[k]
  IN /\ At(Loop(c), "row")
     /\ Register(row.client, c)
     /\ controllers' = [controllers EXCEPT ![k] = [row EXCEPT !.attached = c]]
     /\ conn' = [conn EXCEPT ![c].client = row.client, ![c].key = k,
                             ![c].chan = sinks'[row.client].chan]
     /\ job' = [job EXCEPT ![Loop(c)].at = "publish", ![Loop(c)].other = row.attached]
     /\ UNCHANGED <<controllerIds, registry>>

(* The reverse index, then the connection that was attached is told to     *)
(* close, and the claim returns.                                           *)
Publish(c) ==
  /\ At(Loop(c), "publish")
  /\ controllerIds' = [controllerIds EXCEPT ![conn[c].client] = conn[c].key]
  /\ conn' = [d \in Conn |-> IF d = job[Loop(c)].other
                             THEN [conn[d] EXCEPT !.evicted = TRUE] ELSE conn[d]]
  /\ Done(Loop(c))
  /\ UNCHANGED <<controllers, sinks, made, registry>>

(* The loop ends: end of stream, an error, or its eviction.  Dropping the  *)
(* identity releases the channel, then the attachment.                     *)
Close(c) ==
  /\ Serving(c)
  /\ conn' = [conn EXCEPT ![c].state = "closed"]
  /\ Deregister(conn[c].client, c)
  /\ IF conn[c].key = None THEN UNCHANGED job ELSE Go(Loop(c), "detach")
  /\ UNCHANGED <<controllers, controllerIds, made, registry>>

(* detach_controller: only the attached connection detaches.               *)
Detach(c) ==
  LET k == conn[c].key
  IN /\ At(Loop(c), "detach")
     /\ IF controllers[k] # None /\ controllers[k].attached = c
        THEN /\ controllers' = [controllers EXCEPT ![k].attached = None]
             /\ job' = [job EXCEPT ![Loop(c)].at = "reap",
                                   ![Loop(c)].other = controllers[k].client]
        ELSE Done(Loop(c)) /\ UNCHANGED controllers
     /\ UNCHANGED <<conn, controllerIds, sinks, made, registry>>

----------------------------------------------------------------------------
(* reap_detached_controller, called with the client in the job's other.    *)

ReapCount(w) ==
  /\ At(w, "reap")
  /\ IF clientCalls[job[w].other] > 0 THEN job' = [job EXCEPT ![w] = Resume(@)]
     ELSE Go(w, "reapRow")
  /\ UNCHANGED <<identity, registry>>

(* Faulty variant: the row goes although a connection attached meanwhile.  *)
ReapRowBlind(w) ==
  LET client == job[w].other
      k == controllerIds[client]
  IN /\ At(w, "reapRow")
     /\ IF k # None /\ controllers[k] # None /\ controllers[k].client = client
        THEN controllers' = [controllers EXCEPT ![k] = None] /\ Go(w, "reapRest")
        ELSE job' = [job EXCEPT ![w] = Resume(@)] /\ UNCHANGED controllers
     /\ UNCHANGED <<conn, controllerIds, sinks, made, registry>>

(* The key is looked up and the row removed if nobody attached meanwhile.  *)
(* A client id is asked for one key once, so the look-up cannot go stale. *)
ReapRow(w) ==
  LET client == job[w].other
      k == controllerIds[client]
  IN /\ At(w, "reapRow")
     /\ IF k # None /\ controllers[k] # None /\ controllers[k].client = client
           /\ controllers[k].attached = None
        THEN controllers' = [controllers EXCEPT ![k] = None] /\ Go(w, "reapRest")
        ELSE job' = [job EXCEPT ![w] = Resume(@)] /\ UNCHANGED controllers
     /\ UNCHANGED <<conn, controllerIds, sinks, made, registry>>

ReapRest(w) ==
  /\ At(w, "reapRest")
  /\ controllerIds' = [controllerIds EXCEPT ![job[w].other] = None]
  /\ sinks' = [sinks EXCEPT ![job[w].other] = None]
  /\ job' = [job EXCEPT ![w] = Resume(@)]
  /\ UNCHANGED <<conn, controllers, made, registry>>

----------------------------------------------------------------------------
(* Commands.  A command on a call whose lane is held by a dialling command *)
(* of the same connection waits, so the loop takes it later.  The task of  *)
(* a dialling command keeps the client it was spawned with and outlives    *)
(* the connection.  A command is taken with its first access; one that is  *)
(* refused there changes nothing.  Endpoints are allocated in the step     *)
(* that needs them: nobody else knows of them yet.                         *)

Asked(c, verb, x) ==
  [Idle EXCEPT !.verb = verb, !.id = x, !.client = conn[c].client,
               !.claimed = (conn[c].key # None)]

(* A command that builds a call, which gets the next number.               *)
Building(c, verb, x, label) ==
  [Asked(c, verb, x) EXCEPT !.at = label, !.number = <<c, asked[c] + 1>>]

LaneFree(c, x) == Serving(c) /\ job[Dial(c)].id # x

(* The call is out of the registry, and the task ends it.                  *)
End(j, x, next) == [j EXCEPT !.at = "unpipe", !.id = x, !.call = calls[x], !.then = next]

(* offer, up to its quota check.                                           *)
Offer(c, x) ==
  /\ LaneFree(c, x) /\ clientCalls[conn[c].client] < Limit
  /\ asked[c] < MaxCalls /\ asked' = [asked EXCEPT ![c] = @ + 1]
  /\ \/ /\ "offer" \in Sends[c]
        /\ job' = [job EXCEPT ![Loop(c)] = Building(c, "offer", x, "replaceCheck")]
     \/ /\ "wsOffer" \in Sends[c] /\ At(Dial(c), "idle")
        /\ job' = [job EXCEPT ![Dial(c)] = Building(c, "wsOffer", x, "replaceCheck")]
  /\ UNCHANGED <<identity, clientCalls, calls, pipes, backed>>

(* replace_offered_call: the look, then the removal without a second look. *)
ReplaceCheck(w) ==
  LET j == job[w]
  IN /\ At(w, "replaceCheck")
     /\ IF calls[j.id] = None THEN Go(w, "build")
        ELSE IF Admits(calls[j.id], j.client, j.id) THEN Go(w, "replaceRemove")
        ELSE Done(w)
     /\ UNCHANGED <<identity, registry>>

ReplaceRemove(w) ==
  LET x == job[w].id
  IN /\ At(w, "replaceRemove")
     /\ IF calls[x] = None THEN Go(w, "build") ELSE job' = [job EXCEPT ![w] = End(@, x, "build")]
     /\ calls' = [calls EXCEPT ![x] = None]
     /\ UNCHANGED <<identity, clientCalls, pipes, backed, asked>>

CallOf(j) ==
  [number |-> j.number, owner |-> j.client, far |-> j.verb # "answerLocal", claimed |-> j.claimed]

(* The rest of an offer up to the registry entry, which replaces what is   *)
(* there; or it fails and frees what it bound.                             *)
Build(w) ==
  /\ At(w, "build")
  /\ \/ /\ backed' = backed \cup {job[w].number}
        /\ calls' = [calls EXCEPT ![job[w].id] = CallOf(job[w])]
        /\ Go(w, "index")
     \/ Done(w) /\ UNCHANGED <<backed, calls>>
  /\ UNCHANGED <<identity, clientCalls, pipes, asked>>

(* answer_local, up to local_call_gate and its quota check.                *)
AnswerLocal(c, x) ==
  LET client == conn[c].client
  IN /\ "answerLocal" \in Sends[c] /\ LaneFree(c, x)
     /\ asked[c] < MaxCalls /\ asked' = [asked EXCEPT ![c] = @ + 1]
     /\ IF calls[x] = None THEN clientCalls[client] < Limit
        ELSE Admits(calls[x], client, x) /\ ~calls[x].far
     /\ job' = [job EXCEPT ![Loop(c)] = Building(c, "answerLocal", x, "localRemove")]
     /\ UNCHANGED <<identity, clientCalls, calls, pipes, backed>>

(* The endpoints, which may fail, then replace_local_call: a conditional   *)
(* removal, and a second look.                                             *)
LocalRemove(w) ==
  LET j == job[w]
      x == j.id
  IN /\ At(w, "localRemove")
     /\ \/ /\ backed' = backed \cup {j.number}
           /\ IF calls[x] # None /\ Admits(calls[x], j.client, x) /\ ~calls[x].far
              THEN /\ job' = [job EXCEPT ![w] = End(@, x, "localRegate")]
                   /\ calls' = [calls EXCEPT ![x] = None]
              ELSE Go(w, "localRegate") /\ UNCHANGED calls
        \/ Done(w) /\ UNCHANGED <<backed, calls>>
     /\ UNCHANGED <<identity, clientCalls, pipes, asked>>

LocalRegate(w) ==
  /\ At(w, "localRegate")
  /\ IF calls[job[w].id] = None THEN Go(w, "insert") /\ UNCHANGED backed
     ELSE Done(w) /\ backed' = backed \ {job[w].number}
  /\ UNCHANGED <<identity, clientCalls, calls, pipes, asked>>

(* register_local_call.                                                    *)
Insert(w) ==
  /\ At(w, "insert") /\ Go(w, "index")
  /\ calls' = [calls EXCEPT ![job[w].id] = CallOf(job[w])]
  /\ UNCHANGED <<identity, clientCalls, pipes, backed, asked>>

(* index_new_call.  A plain offer has nothing more to build.  Otherwise a  *)
(* pipeline is built for the call the registry names, on the new call's    *)
(* endpoint when it is a WebSocket takeover.                               *)
IndexNewCall(w) ==
  LET j == job[w]
      found == calls[j.id]
  IN /\ At(w, "index")
     /\ clientCalls' = [clientCalls EXCEPT ![j.client] = @ + 1]
     /\ IF j.verb = "offer" THEN Done(w)
        ELSE IF found = None THEN Go(w, "teardown")
        ELSE job' = [job EXCEPT ![w].at = "pipe", ![w].call =
               [found EXCEPT !.number = IF j.verb = "wsOffer" THEN j.number ELSE @]]
     /\ UNCHANGED <<identity, calls, pipes, backed, asked>>

(* The codec, the dial and the redirect, each of which may fail: the       *)
(* redirect does on an endpoint that is gone.                              *)
PipeRedirect(w) ==
  /\ At(w, "pipe")
  /\ \/ job[w].call.number \in backed /\ Go(w, "register")
     \/ job' = [job EXCEPT ![w].at = "teardown", ![w].call = None]
  /\ UNCHANGED <<identity, registry>>

(* The pipeline keeps the channel of the call's owner; or its detector     *)
(* cannot be built.  The endpoint is not looked at again.                  *)
PipeRegister(w) ==
  LET call == job[w].call
  IN /\ At(w, "register")
     /\ \/ /\ pipes' = [pipes EXCEPT ![job[w].id] =
                [number |-> call.number, owner |-> call.owner,
                 chan |-> IF sinks[call.owner] = None THEN None ELSE sinks[call.owner].chan]]
           /\ Done(w)
        \/ /\ job' = [job EXCEPT ![w].at = "teardown", ![w].call = None]
           /\ UNCHANGED pipes
     /\ UNCHANGED <<identity, clientCalls, calls, backed, asked>>

(* teardown_call: whatever is registered under the id, without a summary.  *)
TeardownCall(w) ==
  LET x == job[w].id
  IN /\ At(w, "teardown")
     /\ IF calls[x] = None THEN Done(w) ELSE job' = [job EXCEPT ![w] = End(@, x, "idle")]
     /\ calls' = [calls EXCEPT ![x] = None]
     /\ UNCHANGED <<identity, clientCalls, pipes, backed, asked>>

(* Faulty variant: the call is looked up and ended, and not removed.       *)
DeleteKeeps(c, x) ==
  /\ "delete" \in Sends[c] /\ LaneFree(c, x)
  /\ calls[x] # None /\ Admits(calls[x], conn[c].client, x)
  /\ job' = [job EXCEPT ![Loop(c)] = End(Asked(c, "delete", x), x, "idle")]
  /\ UNCHANGED <<identity, registry>>

Delete(c, x) ==
  /\ "delete" \in Sends[c] /\ LaneFree(c, x)
  /\ calls[x] # None /\ Admits(calls[x], conn[c].client, x)
  /\ job' = [job EXCEPT ![Loop(c)] = End(Asked(c, "delete", x), x, "idle")]
  /\ calls' = [calls EXCEPT ![x] = None]
  /\ UNCHANGED <<identity, clientCalls, pipes, backed, asked>>

(* reap_idle: a call is found idle in the first pass and reaped by its id  *)
(* in the second.                                                          *)
SweepFinds(x) ==
  /\ At(Sweep, "idle") /\ calls[x] # None
  /\ job' = [job EXCEPT ![Sweep] = [Idle EXCEPT !.at = "reapCall", !.id = x,
                                                !.number = calls[x].number]]
  /\ UNCHANGED <<identity, registry>>

ReapCall ==
  LET x == job[Sweep].id
  IN /\ At(Sweep, "reapCall")
     /\ IF calls[x] = None THEN Done(Sweep)
        ELSE job' = [job EXCEPT ![Sweep] = End(@, x, "idle")]
     /\ calls' = [calls EXCEPT ![x] = None]
     /\ UNCHANGED <<identity, clientCalls, pipes, backed, asked>>

----------------------------------------------------------------------------
(* finish_call of the call in the task's hands.                            *)

(* The seat, the counters and the quality are awaited and the summary sent *)
(* before this step, which drops what is registered under the call id.     *)
Unpipe(w) ==
  /\ At(w, "unpipe") /\ Go(w, "free")
  /\ pipes' = [pipes EXCEPT ![job[w].id] = None]
  /\ UNCHANGED <<identity, clientCalls, calls, backed, asked>>

(* Faulty variant: the count is lowered without a floor.                   *)
ReleaseUnsaturated(w, owner) ==
  /\ clientCalls' = [clientCalls EXCEPT ![owner] = @ - 1]
  /\ job' = [job EXCEPT ![w] = IF clientCalls[owner] = 1
                               THEN [@ EXCEPT !.at = "reap", !.other = owner]
                               ELSE Resume(@)]

(* release_client_call: a count that reaches zero gives the identity up.   *)
ReleaseCall(w, owner) ==
  /\ clientCalls' = [clientCalls EXCEPT ![owner] = IF @ = 0 THEN 0 ELSE @ - 1]
  /\ job' = [job EXCEPT ![w] = IF clientCalls[owner] = 1
                               THEN [@ EXCEPT !.at = "reap", !.other = owner]
                               ELSE Resume(@)]

(* Faulty variant: the quota of whoever asked is given back.               *)
FreeForAsker(w) ==
  /\ At(w, "free")
  /\ backed' = backed \ {job[w].call.number}
  /\ ReleaseCall(w, IF job[w].client = None THEN job[w].call.owner ELSE job[w].client)
  /\ UNCHANGED <<identity, calls, pipes, asked>>

(* The endpoints the call itself names, and its owner's quota.             *)
Free(w) ==
  /\ At(w, "free")
  /\ backed' = backed \ {job[w].call.number}
  /\ ReleaseCall(w, job[w].call.owner)
  /\ UNCHANGED <<identity, calls, pipes, asked>>

----------------------------------------------------------------------------
ConnectionStep(c) ==
  \/ Connect(c) \/ AttachRow(c) \/ Publish(c) \/ Close(c) \/ Detach(c)
  \/ \E k \in Key : Claim(c, k)
  \/ ClaimAdmitted(c) \/ ClaimRefused(c)
  \/ \E x \in Id : Offer(c, x) \/ AnswerLocal(c, x) \/ Delete(c, x)

WorkerStep(w) ==
  \/ ReplaceCheck(w) \/ ReplaceRemove(w) \/ Build(w)
  \/ LocalRemove(w) \/ LocalRegate(w) \/ Insert(w) \/ IndexNewCall(w)
  \/ PipeRedirect(w) \/ PipeRegister(w) \/ TeardownCall(w) \/ Unpipe(w) \/ Free(w)
  \/ ReapCount(w) \/ ReapRow(w) \/ ReapRest(w)

Next ==
  \/ \E c \in Conn : ConnectionStep(c)
  \/ \E w \in Worker : WorkerStep(w)
  \/ (\E x \in Id : SweepFinds(x)) \/ ReapCall

Spec == Init /\ [][Next]_vars

----------------------------------------------------------------------------
(* Properties.                                                             *)

(* A controller identity has an event channel as long as it exists, so     *)
(* that what its calls emit waits for a reconnect; and the connection      *)
(* attached to it drains that channel and holds its registration, whatever *)
(* older connections release and whatever reap is under way.               *)
IdentityHears ==
  \A k \in Key : controllers[k] # None =>
    LET row == controllers[k]
        c == row.attached
    IN /\ sinks[row.client] # None
       /\ c # None => /\ conn[c].client = row.client
                      /\ sinks[row.client].generation = c
                      /\ sinks[row.client].chan = conn[c].chan

(* Newest wins: of the connections that serve commands under one identity  *)
(* at most one has not been told to close and is not about to be, and it   *)
(* is the attached one.                                                    *)
NewestServes ==
  \A c \in Conn : Serving(c) /\ conn[c].key # None /\ ~conn[c].evicted =>
    \/ controllers[conn[c].key] # None /\ controllers[conn[c].key].attached = c
    \/ \E d \in Conn : At(Loop(d), "publish") /\ job[Loop(d)].other = c

(* A pipeline that outlives its connection emits into the channel that the *)
(* connection attached to its call's identity drains: a reconnect does not *)
(* replace the channel underneath it.  This is about calls asked for after *)
(* the claim: a claim beside a dialling command moves the channel.         *)
EventsFollow ==
  \A x \in Id, k \in Key :
    /\ pipes[x] # None /\ calls[x] # None /\ pipes[x].number = calls[x].number
    /\ calls[x].claimed
    /\ controllers[k] # None /\ controllers[k].client = pipes[x].owner
    /\ controllers[k].attached # None
    => pipes[x].chan = conn[controllers[k].attached].chan

(* The worker is ending the call that has this number.                     *)
Ending(w, n) ==
  /\ job[w].at \in {"unpipe", "free"}
  /\ job[w].call.number = n

(* A call ends once: it is registered under at most one id, or in the      *)
(* hands of at most one task that ends it, never both; and the endpoints   *)
(* of a registered call are its own until a task has taken it out.         *)
EndsOnce ==
  \A n \in Number :
    LET registered == {x \in Id : calls[x] # None /\ calls[x].number = n}
        ending == {w \in Worker : Ending(w, n)}
    IN /\ Cardinality(registered) + Cardinality(ending) <= 1
       /\ registered # {} => n \in backed

(* A client's quota never falls below the calls it has registered or still *)
(* has to give back, except for those about to be counted; so an identity  *)
(* is not given up for the end of a call that is not its last.             *)
QuotaCovers ==
  \A c \in Conn :
    clientCalls[c] + Cardinality({w \in Worker : At(w, "index") /\ job[w].client = c})
      >= Cardinality({x \in Id : calls[x] # None /\ calls[x].owner = c})
         + Cardinality({w \in Worker : /\ job[w].at \in {"unpipe", "free"}
                                       /\ job[w].call.owner = c})

(* A call asked for by a connection that had claimed an identity can be    *)
(* reached by presenting that identity again.                              *)
NotStranded ==
  \A x \in Id : calls[x] # None /\ calls[x].claimed =>
    \E k \in Key : controllers[k] # None /\ controllers[k].client = calls[x].owner

(* No command, sweep or failed build takes a pipeline from a call it does  *)
(* not end.                                                                *)
OwnPipelineOnly ==
  [][\A w \in Worker : Unpipe(w) /\ pipes[job[w].id] # None =>
       pipes[job[w].id].number = job[w].call.number]_vars

(* The sweep reaps the call it found idle.                                 *)
ReapsTheIdleCall ==
  [][ReapCall /\ calls[job[Sweep].id] # None =>
       calls[job[Sweep].id].number = job[Sweep].number]_vars

(* No endpoints are left that no call and no task names.                   *)
EndpointsNamed ==
  \A n \in backed :
    \/ \E x \in Id : calls[x] # None /\ calls[x].number = n
    \/ \E w \in Worker : job[w].number = n \/ (job[w].call # None /\ job[w].call.number = n)
=============================================================================
