----------------------- MODULE ControlPlaneInvariants -----------------------
(***************************************************************************)
(* What the proofs about ControlPlane carry from step to step: the         *)
(* inductive invariant of connections, identities and tasks, and the       *)
(* ledger of the numbers, the quota and the pipelines of calls.            *)
(***************************************************************************)
EXTENDS ControlPlane, FiniteSets

(* What a task has at hand where it stands.                                *)
HasData(j) ==
  /\ j.at \in {"replaceCheck", "replaceRemove", "build", "localRemove", "localRegate",
              "insert", "index", "pipe", "register", "teardown"} =>
       j.id \in Id /\ j.client \in Conn /\ j.number \in Number
  /\ j.at \in {"pipe", "register", "unpipe", "free"} => j.id \in Id /\ j.call \in Call
  /\ j.at = "reapCall" => j.id \in Id
  /\ j.then # "idle" => j.id \in Id /\ j.client \in Conn /\ j.number \in Number
  /\ j.at \in {"reap", "reapRow", "reapRest"} => j.other \in Conn

JobData == \A w \in Worker : HasData(job[w])

(* What a connection's own fields say of where it stands.                  *)
ConnOK(c) ==
  /\ conn[c].state = "new" => conn[c].key = None
  /\ conn[c].key = None => conn[c].client = c
  /\ job[Loop(c)].at \in {"claim", "row"} =>
       conn[c].state = "open" /\ conn[c].key = None /\ job[Loop(c)].key \in Key
  /\ At(Loop(c), "publish") => conn[c].key # None
  /\ At(Loop(c), "detach") => conn[c].state = "closed" /\ conn[c].key # None

ConnShape == \A c \in Conn : ConnOK(c)

(* A row: its client is the connection that minted it.  The attached       *)
(* connection holds the registration, and has published the reverse index  *)
(* unless it is about to; without one, the last registration is a closed   *)
(* connection's.                                                           *)
AttachedOK(k, client, c) ==
  /\ conn[c].key = k /\ conn[c].client = client
  /\ sinks[client].generation = c
  /\ sinks[client].chan = conn[c].chan
  /\ At(Loop(c), "publish") \/ controllerIds[client] # None

RowOK(k, row) ==
  /\ conn[row.client].key = k
  /\ sinks[row.client] # None
  /\ row.attached # None => AttachedOK(k, row.client, row.attached)
  /\ row.attached = None => conn[sinks[row.client].generation].state = "closed"

RowShape == \A k \in Key, row \in Row : controllers[k] = row => RowOK(k, row)

(* A reap that has removed the row is alone with its client.               *)
AloneWith(client) ==
  /\ conn[client].key # None
  /\ \A k \in Key : controllers[k] # None => controllers[k].client # client

ReapShape ==
  \A w \in Worker, client \in Conn :
    At(w, "reapRest") /\ job[w].other = client => AloneWith(client)

(* Newest-wins for a connection whatever its loop does.                    *)
NewestOK(c) ==
  conn[c].state = "open" /\ conn[c].key # None /\ ~conn[c].evicted =>
    \/ controllers[conn[c].key] # None /\ controllers[conn[c].key].attached = c
    \/ \E d \in Conn : At(Loop(d), "publish") /\ job[Loop(d)].other = c

Newest == \A c \in Conn : NewestOK(c)

(* The three parts of TypeOK.                                              *)
IdentityOK ==
  /\ conn \in [Conn -> Connection]
  /\ controllers \in [Key -> Row \cup {None}]
  /\ controllerIds \in [Conn -> Key \cup {None}]
  /\ sinks \in [Conn -> Sink \cup {None}]
  /\ made \in [Conn -> Nat]

RegistryOK ==
  /\ clientCalls \in [Conn -> Nat]
  /\ calls \in [Id -> Call \cup {None}]
  /\ pipes \in [Id -> Pipe \cup {None}]
  /\ backed \subseteq Number /\ asked \in [Conn -> 0 .. MaxCalls]

JobOK == job \in [Worker -> Job]

IInv ==
  IdentityOK /\ RegistryOK /\ JobOK /\ JobData /\ ConnShape /\ RowShape /\ ReapShape /\ Newest

----------------------------------------------------------------------------
(* The numbers of calls.  A task that builds a call has its number in      *)
(* reserve until the call is registered, whether it stands before that or  *)
(* is ending the call it replaces first.                                   *)
Pre == {"replaceCheck", "replaceRemove", "build", "localRemove", "localRegate", "insert"}
After == {"unpipe", "free", "reap", "reapRow", "reapRest"}

Ends(j) == j.at \in {"unpipe", "free"}
Piping(j) == j.at \in {"pipe", "register"}
Reserved(j) == j.at \in Pre \/ j.then # "idle"
Holding(j) == j.at \in {"localRegate", "insert"} \/ j.then = "localRegate"
Issued(n) == n[2] <= asked[n[1]]

ThenOK == \A w \in Worker : job[w].then # "idle" => job[w].at \in After

(* A number in reserve is no call's and no other task's ...                *)
ReservedOK(w) ==
  /\ Issued(job[w].number)
  /\ \A x \in Id : calls[x] # None => calls[x].number # job[w].number
  /\ \A v \in Worker : Ends(job[v]) => job[v].call.number # job[w].number
  /\ \A v \in Worker : v # w /\ Reserved(job[v]) => job[v].number # job[w].number

(* ... a registered call is registered once, has its endpoints, and nobody *)
(* ends it ...                                                             *)
CallOK(x) ==
  /\ Issued(calls[x].number) /\ calls[x].number \in backed
  /\ \A v \in Worker : Ends(job[v]) => job[v].call.number # calls[x].number
  /\ \A y \in Id : y # x /\ calls[y] # None => calls[y].number # calls[x].number

(* ... and a call is ended by one task.                                    *)
EndOK(w) ==
  /\ Issued(job[w].call.number)
  /\ \A v \in Worker : v # w /\ Ends(job[v]) => job[v].call.number # job[w].call.number

NumbersOK ==
  /\ ThenOK
  /\ \A w \in Worker : Reserved(job[w]) => ReservedOK(w)
  /\ \A w \in Worker : Holding(job[w]) => job[w].number \in backed
  /\ \A x \in Id : calls[x] # None => CallOK(x)
  /\ \A w \in Worker : Ends(job[w]) => EndOK(w)

(* What one task does to the registry in a step, with the job it has then. *)
Claims(w, j) ==
  j.claimed => \/ job[w].claimed /\ j.client = job[w].client
               \/ \E c \in Conn : conn[c].key # None /\ j.client = conn[c].client

Passes(w, j) ==
  /\ job' = [job EXCEPT ![w] = j] /\ Claims(w, j) /\ asked' = asked
  /\ j.then # "idle" => j.at \in After
  /\ Reserved(j) => Reserved(job[w]) /\ j.number = job[w].number
  /\ Holding(j) => Holding(job[w]) \/ job[w].number \in backed'

(* It moves on, with the pipeline it registers or drops, and with the      *)
(* endpoints it has allocated for the call it builds ...                   *)
Keeps(w, j) ==
  /\ Passes(w, j) /\ UNCHANGED <<calls, clientCalls>>
  /\ job[w].at # "index" /\ j.at # "index"
  /\ Piping(j) => Piping(job[w]) /\ j.call = job[w].call
  /\ Ends(j) <=> Ends(job[w])
  /\ Ends(j) => j.call = job[w].call
  /\ \/ backed' = backed
     \/ backed' = backed \cup {job[w].number}
     \/ backed' = backed \ {job[w].number} /\ Reserved(job[w]) /\ ~Reserved(j)
  /\ \A x \in Id : \/ pipes'[x] \in {None, pipes[x]}
                   \/ /\ Piping(job[w]) /\ x = job[w].id
                      /\ pipes'[x].number = job[w].call.number
                      /\ pipes'[x].owner = job[w].call.owner

(* ... a command takes the next number of its connection ...               *)
Takes(w, j, c) ==
  /\ job' = [job EXCEPT ![w] = j] /\ Claims(w, j)
  /\ asked' = [asked EXCEPT ![c] = @ + 1] /\ asked[c] < MaxCalls
  /\ j.number = <<c, asked[c] + 1>> /\ j.at \in {"replaceCheck", "localRemove"}
  /\ j.then = "idle" /\ job[w].at = "idle"
  /\ UNCHANGED <<calls, clientCalls, backed, pipes>>

(* ... a call is registered ...                                            *)
Enters(w, j) ==
  /\ Passes(w, j) /\ UNCHANGED <<clientCalls, pipes>>
  /\ job[w].at \in {"build", "insert"} /\ j.at = "index" /\ ~Reserved(j)
  /\ j.client = job[w].client /\ j.id = job[w].id /\ j.number = job[w].number
  /\ calls' = [calls EXCEPT ![job[w].id] = CallOf(job[w])]
  /\ backed' = backed \cup {job[w].number}

(* ... and counted ...                                                     *)
Counts(w, j) ==
  /\ Passes(w, j) /\ UNCHANGED <<calls, backed, pipes>>
  /\ job[w].at = "index" /\ j.at # "index" /\ ~Ends(j) /\ ~Reserved(j)
  /\ clientCalls' = [clientCalls EXCEPT ![job[w].client] = @ + 1]
  /\ Piping(j) => LET found == calls[job[w].id]
                  IN /\ found # None /\ j.call.owner = found.owner
                     /\ j.call.number \in {job[w].number, found.number}

(* ... taken out by the task that ends it ...                              *)
Removes(w, j, x) ==
  /\ Passes(w, j) /\ UNCHANGED <<clientCalls, pipes>>
  /\ job[w].at # "index" /\ ~Ends(job[w])
  /\ calls[x] # None /\ calls' = [calls EXCEPT ![x] = None]
  /\ Ends(j) /\ j.call = calls[x]
  /\ backed' = backed \/ backed' = backed \cup {job[w].number}

(* ... and given back.                                                     *)
GivesBack(w, j) ==
  /\ Passes(w, j) /\ UNCHANGED <<calls, pipes>>
  /\ Ends(job[w]) /\ ~Ends(j) /\ j.at # "index" /\ ~Piping(j)
  /\ backed' = backed \ {job[w].call.number}
  /\ clientCalls' = [clientCalls EXCEPT ![job[w].call.owner] = IF @ = 0 THEN 0 ELSE @ - 1]

LedgerStep(w, j) ==
  \/ Keeps(w, j) \/ (\E c \in Conn : Takes(w, j, c)) \/ Enters(w, j) \/ Counts(w, j)
  \/ (\E x \in Id : Removes(w, j, x)) \/ GivesBack(w, j)

----------------------------------------------------------------------------
(* What a claim settles.                                                   *)

(* A connection that has claimed an identity keeps it, and the client id   *)
(* it had then.  A row is minted under the client id of a connection that  *)
(* has not claimed yet, and only such a connection gets a new channel.     *)
Kept ==
  /\ \A d \in Conn : conn[d].key # None =>
       conn'[d].key # None /\ conn'[d].client = conn[d].client
  /\ \A d \in Conn : conn[d].key = None /\ conn'[d].key # None =>
       conn'[conn'[d].client].key # None
  /\ \A d \in Conn, k \in Key :
       conn[d].key # None /\ controllers'[k] # None /\ controllers'[k].client = d =>
         controllers[k] # None /\ controllers[k].client = d
  /\ \A d \in Conn : conn[d].key # None /\ sinks[d] # None /\ sinks'[d] # None =>
       sinks'[d].chan = sinks[d].chan

(* Only a task that registers a pipeline gives one a channel: the one its  *)
(* owner has.                                                              *)
Wired(x) ==
  \/ pipes'[x] \in {None, pipes[x]}
  \/ /\ UNCHANGED identity
     /\ sinks[pipes'[x].owner] # None => pipes'[x].chan = sinks[pipes'[x].owner].chan

----------------------------------------------------------------------------
(* The channels of pipelines.                                              *)

(* A number that has been given to a call and is in reserve no more stays  *)
(* with that call, so the id it is registered under and the owner of the   *)
(* call never change.                                                      *)
Spent(n) == Issued(n) /\ \A v \in Worker : Reserved(job[v]) => job[v].number # n
Only(n, x) == \A y \in Id : calls[y] # None /\ calls[y].number = n => y = x
Under(n, owner) == \A y \in Id : calls[y] # None /\ calls[y].number = n => calls[y].owner = owner

(* A call about to be counted is registered under the id of its task.  The *)
(* pipeline a task builds, and one that is registered, knows the owner of  *)
(* the call that has its number.                                           *)
Traced ==
  /\ \A w \in Worker : At(w, "index") => Spent(job[w].number) /\ Only(job[w].number, job[w].id)
  /\ \A w \in Worker : Piping(job[w]) =>
       Spent(job[w].call.number) /\ Under(job[w].call.number, job[w].call.owner)
  /\ \A x \in Id : pipes[x] # None =>
       Spent(pipes[x].number) /\ Under(pipes[x].number, pipes[x].owner)

(* Calls and tasks marked as claimed belong to client ids of connections   *)
(* that have claimed.                                                      *)
ClaimsOK ==
  /\ \A d \in Conn : conn[d].key # None => conn[conn[d].client].key # None
  /\ \A x \in Id : calls[x] # None /\ calls[x].claimed => conn[calls[x].owner].key # None
  /\ \A w \in Worker : job[w].claimed =>
       job[w].client \in Conn /\ conn[job[w].client].key # None

(* The pipeline of a call asked for after the claim emits into the channel *)
(* of the identity, attached or not.                                       *)
ChanOK ==
  \A x \in Id, k \in Key :
    /\ pipes[x] # None /\ calls[x] # None /\ pipes[x].number = calls[x].number
    /\ calls[x].claimed
    /\ controllers[k] # None /\ controllers[k].client = pipes[x].owner
    => pipes[x].chan = sinks[pipes[x].owner].chan

----------------------------------------------------------------------------
(* The quota: the calls a client has about to be counted, registered, and  *)
(* to give back, which are finitely many.                                  *)
Indexing(c) == {w \in Worker : At(w, "index") /\ job[w].client = c}
Registered(c) == {x \in Id : calls[x] # None /\ calls[x].owner = c}
Owed(c) == {w \in Worker : job[w].at \in {"unpipe", "free"} /\ job[w].call.owner = c}

FiniteOK(c) == IsFiniteSet(Indexing(c)) /\ IsFiniteSet(Registered(c)) /\ IsFiniteSet(Owed(c))

Covers(c) ==
  clientCalls[c] + Cardinality(Indexing(c)) >= Cardinality(Registered(c)) + Cardinality(Owed(c))

QuotaOK == \A c \in Conn : FiniteOK(c) /\ Covers(c)

(* How finite sets are counted.                                            *)
Counted == \A S : IsFiniteSet(S) => Cardinality(S) \in Nat

Grow ==
  \A S, e : IsFiniteSet(S) =>
    /\ IsFiniteSet(S \cup {e}) /\ Cardinality(S \cup {e}) \in Nat
    /\ e \notin S => Cardinality(S \cup {e}) = Cardinality(S) + 1
    /\ Cardinality(S \cup {e}) <= Cardinality(S) + 1

Shrink ==
  \A S, e : IsFiniteSet(S) =>
    /\ IsFiniteSet(S \ {e}) /\ Cardinality(S \ {e}) \in Nat
    /\ e \in S => Cardinality(S \ {e}) = Cardinality(S) - 1
    /\ Cardinality(S \ {e}) <= Cardinality(S)

Counting == Counted /\ Grow /\ Shrink

----------------------------------------------------------------------------
(* The invariant that the numbers, the claims and the channels keep        *)
(* together.                                                               *)
LedgerInv == IInv /\ NumbersOK /\ Traced /\ ClaimsOK /\ ChanOK
=============================================================================
