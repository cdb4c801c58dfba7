------------------------- MODULE ControlPlaneSteps --------------------------
(***************************************************************************)
(* What every step of ControlPlane does to the connections and their       *)
(* identities, and to the numbers, the calls and the tasks; and what       *)
(* follows for every behaviour: events follow the attached connection, a   *)
(* call ends once, and the quota covers a client's calls.                  *)
(***************************************************************************)
EXTENDS ControlPlaneProofs

----------------------------------------------------------------------------
(* Every step of a task is one of these.                                   *)

LEMMA GoPasses ==
  ASSUME JobOK, ThenOK, NEW w \in Worker, NEW label \in Labels, Go(w, label), asked' = asked,
         label \in After \/ job[w].at \notin After,
         label \in Pre => job[w].at \in Pre,
         label \in {"localRegate", "insert"} =>
           job[w].at \in {"localRegate", "insert"} \/ job[w].number \in backed'
  PROVE  \E j : /\ Passes(w, j) /\ j.at = label /\ j.call = job[w].call /\ j.id = job[w].id
                /\ j.client = job[w].client /\ j.number = job[w].number /\ j.then = job[w].then
<1> DEFINE j == [job[w] EXCEPT !.at = label]
<1>1. /\ j.at = label /\ j.id = job[w].id /\ j.client = job[w].client
      /\ j.number = job[w].number /\ j.call = job[w].call /\ j.then = job[w].then
      /\ j.claimed = job[w].claimed
  BY LabelJob DEF JobOK
<1>2. job' = [job EXCEPT ![w] = j]
  BY Zenon, GoJob DEF JobOK
<1> HIDE DEF j
<1>3. Passes(w, j)
  BY Zenon, <1>1, <1>2 DEF Passes, Claims, Reserved, Holding, ThenOK
<1> QED
  BY Zenon, <1>1, <1>3

LEMMA IdleFacts ==
  /\ Idle.at = "idle" /\ Idle.then = "idle" /\ ~Idle.claimed
  /\ ~Ends(Idle) /\ ~Reserved(Idle) /\ ~Holding(Idle) /\ ~Piping(Idle)
BY Zenon DEF Idle, Ends, Reserved, Holding, Pre, Piping

LEMMA DonePasses ==
  ASSUME NEW w \in Worker, Done(w), asked' = asked
  PROVE  Passes(w, Idle)
BY Zenon, IdleFacts DEF Passes, Claims, Done

LEMMA ResumePasses ==
  ASSUME JobOK, NEW w \in Worker, job' = [job EXCEPT ![w] = Resume(@)], asked' = asked
  PROVE  \E j : Passes(w, j) /\ ~Ends(j) /\ j.at # "index" /\ ~Piping(j)
<1> DEFINE a == job[w]
           j == Resume(a)
<1>1. job' = [job EXCEPT ![w] = j] /\ a \in Job
  BY Zenon DEF JobOK
<1>2. CASE a.then = "idle"
  BY Zenon, <1>1, <1>2, IdleFacts DEF Resume, Passes, Claims
<1>3. CASE a.then # "idle"
  <2>1. /\ j.at = a.then /\ j.then = "idle" /\ j.number = a.number
        /\ j.claimed = a.claimed /\ j.client = a.client
    BY Zenon, <1>1, <1>3 DEF Resume, Job
  <2>2. a.then \in {"build", "localRegate"}
    BY Zenon, <1>1, <1>3 DEF Job, Follow
  <2> HIDE DEF j
  <2>3. Passes(w, j)
    BY Zenon, <1>1, <2>1, <2>2 DEF Passes, Claims, Reserved, Holding, Pre
  <2> QED
    BY Zenon, <2>1, <2>2, <2>3 DEF Ends, Piping
<1> QED
  BY Zenon, <1>2, <1>3

LEMMA EndPasses ==
  ASSUME JobOK, NEW w \in Worker, NEW x, NEW next, asked' = asked,
         job' = [job EXCEPT ![w] = End(@, x, next)],
         next # "idle" => Reserved(job[w]),
         next = "localRegate" => job[w].number \in backed'
  PROVE  \E j : Passes(w, j) /\ Ends(j) /\ j.call = calls[x]
<1> DEFINE a == job[w]
           j == [a EXCEPT !.at = "unpipe", !.id = x, !.call = calls[x], !.then = next]
<1>1. job' = [job EXCEPT ![w] = j] /\ a \in Job
  BY Zenon DEF JobOK, End
<1>2. /\ j.at = "unpipe" /\ j.then = next /\ j.number = a.number /\ j.call = calls[x]
      /\ j.claimed = a.claimed /\ j.client = a.client
  BY Zenon, <1>1 DEF Job
<1> HIDE DEF j
<1>3. Passes(w, j)
  BY Zenon, <1>1, <1>2 DEF Passes, Claims, Reserved, Holding, Pre, After
<1> QED
  BY Zenon, <1>2, <1>3 DEF Ends

(* The steps of the commands that build a call.                            *)
LEMMA BuildingLedger ==
  ASSUME RegistryOK, JobOK, JobData, NumbersOK, NEW w \in Worker,
         \/ ReplaceCheck(w) \/ ReplaceRemove(w) \/ Build(w)
         \/ LocalRemove(w) \/ LocalRegate(w) \/ Insert(w)
  PROVE  \E j : LedgerStep(w, j)
<1> USE DEF At
<1>0. JobOK /\ ThenOK
  BY Zenon DEF NumbersOK
<1>1. CASE ReplaceCheck(w)
  <2>1. job[w].at = "replaceCheck" /\ UNCHANGED <<calls, clientCalls, asked, pipes, backed>>
    BY Zenon, <1>1 DEF ReplaceCheck, registry
  <2>2. CASE Go(w, "build") \/ Go(w, "replaceRemove")
    <3>1. PICK label \in {"build", "replaceRemove"} : Go(w, label)
      BY Zenon, <2>2
    <3>2. PICK j : Passes(w, j) /\ j.at = label
      BY <1>0, <2>1, <3>1, GoPasses DEF Labels, Pre, After
    <3>3. Keeps(w, j)
      BY Zenon, <2>1, <3>2 DEF Keeps, Ends, Piping
    <3> QED
      BY Zenon, <3>3 DEF LedgerStep
  <2>3. CASE Done(w)
    <3>1. Keeps(w, Idle)
      BY Zenon, <2>1, <2>3, DonePasses, IdleFacts DEF Keeps, Ends, Piping
    <3> QED
      BY Zenon, <3>1 DEF LedgerStep
  <2> QED
    BY Zenon, <1>1, <2>2, <2>3 DEF ReplaceCheck
<1>2. CASE ReplaceRemove(w)
  <2> DEFINE x == job[w].id
  <2>1. /\ job[w].at = "replaceRemove" /\ UNCHANGED <<clientCalls, asked, pipes, backed>>
        /\ x \in Id /\ calls' = [calls EXCEPT ![x] = None]
    BY Zenon, <1>2 DEF ReplaceRemove, JobData, HasData
  <2>2. CASE calls[x] = None
    <3>1. Go(w, "build") /\ calls' = calls
      BY Zenon, <1>2, <2>1, <2>2 DEF ReplaceRemove, RegistryOK
    <3>2. PICK j : Passes(w, j) /\ j.at = "build"
      BY <1>0, <2>1, <3>1, GoPasses DEF Labels, Pre, After
    <3>3. Keeps(w, j)
      BY Zenon, <2>1, <3>1, <3>2 DEF Keeps, Ends, Piping
    <3> QED
      BY Zenon, <3>3 DEF LedgerStep
  <2>3. CASE calls[x] # None
    <3>1. job' = [job EXCEPT ![w] = End(@, x, "build")]
      BY Zenon, <1>2, <2>3 DEF ReplaceRemove
    <3>2. Reserved(job[w]) /\ "build" # "localRegate"
      BY Zenon, <2>1 DEF Reserved, Pre
    <3> HIDE DEF x
    <3>3. PICK j : Passes(w, j) /\ Ends(j) /\ j.call = calls[x]
      BY <1>0, <2>1, <3>1, <3>2, EndPasses, Zenon
    <3>4. Removes(w, j, x)
      BY Zenon, <2>1, <2>3, <3>3 DEF Removes, Ends
    <3> QED
      BY Zenon, <2>1, <3>4 DEF LedgerStep
  <2> QED
    BY Zenon, <2>2, <2>3
<1>3. CASE Build(w)
  <2>1. job[w].at = "build" /\ UNCHANGED <<clientCalls, asked, pipes>>
    BY Zenon, <1>3 DEF Build
  <2>2. CASE /\ backed' = backed \cup {job[w].number}
             /\ calls' = [calls EXCEPT ![job[w].id] = CallOf(job[w])]
             /\ Go(w, "index")
    <3>1. PICK j : /\ Passes(w, j) /\ j.at = "index" /\ j.id = job[w].id
                   /\ j.client = job[w].client /\ j.number = job[w].number /\ j.then = job[w].then
      BY <1>0, <2>1, <2>2, GoPasses DEF Labels, Pre, After
    <3>2. ~Reserved(j)
      BY Zenon, <1>0, <2>1, <3>1 DEF Reserved, Pre, ThenOK, After
    <3>3. Enters(w, j)
      BY Zenon, <2>1, <2>2, <3>1, <3>2 DEF Enters
    <3> QED
      BY Zenon, <3>3 DEF LedgerStep
  <2>3. CASE Done(w) /\ UNCHANGED <<backed, calls>>
    <3>1. Keeps(w, Idle)
      BY Zenon, <2>1, <2>3, DonePasses, IdleFacts DEF Keeps, Ends, Piping
    <3> QED
      BY Zenon, <3>1 DEF LedgerStep
  <2> QED
    BY Zenon, <1>3, <2>2, <2>3 DEF Build
<1>4. CASE LocalRemove(w)
  <2> DEFINE x == job[w].id
  <2>1. job[w].at = "localRemove" /\ UNCHANGED <<clientCalls, asked, pipes>> /\ x \in Id
    BY Zenon, <1>4 DEF LocalRemove, JobData, HasData
  <2>2. CASE /\ backed' = backed \cup {job[w].number} /\ calls[x] # None
             /\ job' = [job EXCEPT ![w] = End(@, x, "localRegate")]
             /\ calls' = [calls EXCEPT ![x] = None]
    <3>1. PICK j : Passes(w, j) /\ Ends(j) /\ j.call = calls[x]
      BY Zenon, <1>0, <2>1, <2>2, EndPasses DEF Reserved, Pre
    <3>2. Removes(w, j, x)
      BY Zenon, <2>1, <2>2, <3>1 DEF Removes, Ends
    <3> QED
      BY Zenon, <2>1, <3>2 DEF LedgerStep
  <2>3. CASE /\ backed' = backed \cup {job[w].number}
             /\ Go(w, "localRegate") /\ UNCHANGED calls
    <3>1. PICK j : Passes(w, j) /\ j.at = "localRegate"
      BY <1>0, <2>1, <2>3, GoPasses DEF Labels, Pre, After
    <3>2. Keeps(w, j)
      BY Zenon, <2>1, <2>3, <3>1 DEF Keeps, Ends, Piping
    <3> QED
      BY Zenon, <3>2 DEF LedgerStep
  <2>4. CASE Done(w) /\ UNCHANGED <<backed, calls>>
    <3>1. Keeps(w, Idle)
      BY Zenon, <2>1, <2>4, DonePasses, IdleFacts DEF Keeps, Ends, Piping
    <3> QED
      BY Zenon, <3>1 DEF LedgerStep
  <2> QED
    BY Zenon, <1>4, <2>2, <2>3, <2>4 DEF LocalRemove
<1>5. CASE LocalRegate(w)
  <2>1. job[w].at = "localRegate" /\ UNCHANGED <<calls, clientCalls, asked, pipes>>
    BY Zenon, <1>5 DEF LocalRegate
  <2>2. CASE Go(w, "insert") /\ UNCHANGED backed
    <3>1. PICK j : Passes(w, j) /\ j.at = "insert"
      BY <1>0, <2>1, <2>2, GoPasses DEF Labels, Pre, After
    <3>2. Keeps(w, j)
      BY Zenon, <2>1, <2>2, <3>1 DEF Keeps, Ends, Piping
    <3> QED
      BY Zenon, <3>2 DEF LedgerStep
  <2>3. CASE Done(w) /\ backed' = backed \ {job[w].number}
    <3>1. Keeps(w, Idle)
      BY Zenon, <2>1, <2>3, DonePasses, IdleFacts DEF Keeps, Ends, Reserved, Pre
    <3> QED
      BY Zenon, <3>1 DEF LedgerStep
  <2> QED
    BY Zenon, <1>5, <2>2, <2>3 DEF LocalRegate
<1>6. CASE Insert(w)
  <2>1. /\ job[w].at = "insert" /\ UNCHANGED <<clientCalls, asked, pipes, backed>> /\ Go(w, "index")
        /\ calls' = [calls EXCEPT ![job[w].id] = CallOf(job[w])]
    BY Zenon, <1>6 DEF Insert
  <2>2. backed' = backed \cup {job[w].number}
    BY Zenon, <2>1 DEF NumbersOK, Holding
  <2>3. PICK j : /\ Passes(w, j) /\ j.at = "index" /\ j.id = job[w].id
                 /\ j.client = job[w].client /\ j.number = job[w].number /\ j.then = job[w].then
    BY <1>0, <2>1, GoPasses DEF Labels, Pre, After
  <2>4. ~Reserved(j)
    BY Zenon, <1>0, <2>1, <2>3 DEF Reserved, Pre, ThenOK, After
  <2>5. Enters(w, j)
    BY Zenon, <2>1, <2>2, <2>3, <2>4 DEF Enters
  <2> QED
    BY Zenon, <2>5 DEF LedgerStep
<1> QED
  BY Zenon, <1>1, <1>2, <1>3, <1>4, <1>5, <1>6


(* The steps of a task from the registration of a call to the end of what  *)
(* follows a call's end.                                                   *)
LEMMA EndingLedger ==
  ASSUME RegistryOK, JobOK, JobData, NumbersOK, NEW w \in Worker,
         \/ IndexNewCall(w) \/ PipeRedirect(w) \/ PipeRegister(w) \/ TeardownCall(w) \/ Unpipe(w)
         \/ Free(w) \/ ReapCount(w) \/ ReapRow(w) \/ ReapRest(w)
  PROVE  \E j : LedgerStep(w, j)
<1> USE DEF At
<1>0. JobOK /\ ThenOK
  BY Zenon DEF NumbersOK
<1>t. ASSUME job' = [job EXCEPT ![w].at = "teardown", ![w].call = None], Piping(job[w]),
             UNCHANGED <<calls, clientCalls, backed, asked, pipes>>
      PROVE  \E j : LedgerStep(w, j)
  <2> DEFINE a == job[w]
             j == [a EXCEPT !.at = "teardown", !.call = None]
  <2>1. job' = [job EXCEPT ![w] = j]
    BY <1>0, <1>t, Zenon DEF JobOK
  <2>2. j.at = "teardown" /\ j.then = a.then /\ j.claimed = a.claimed /\ j.client = a.client
    BY <1>0 DEF JobOK, Job
  <2>3. a.then = "idle"
    BY Zenon, <1>0, <1>t DEF ThenOK, After, Piping
  <2> HIDE DEF j
  <2>4. Passes(w, j)
    BY Zenon, <1>t, <2>1, <2>2, <2>3 DEF Passes, Claims, Reserved, Holding, Pre
  <2>5. Keeps(w, j)
    BY Zenon, <1>t, <2>2, <2>4 DEF Keeps, Ends, Piping
  <2> QED
    BY Zenon, <2>5 DEF LedgerStep
<1>1. CASE IndexNewCall(w)
  <2> DEFINE a == job[w]
             found == calls[a.id]
  <2>1. /\ a.at = "index" /\ UNCHANGED <<calls, backed, pipes, asked>>
        /\ clientCalls' = [clientCalls EXCEPT ![a.client] = @ + 1]
    BY Zenon, <1>1 DEF IndexNewCall
  <2>2. CASE Done(w)
    <3>1. Counts(w, Idle)
      BY Zenon, <2>1, <2>2, DonePasses, IdleFacts DEF Counts
    <3> QED
      BY Zenon, <3>1 DEF LedgerStep
  <2>3. CASE Go(w, "teardown")
    <3>1. PICK j : Passes(w, j) /\ j.at = "teardown" /\ j.then = a.then
      BY <1>0, <2>1, <2>3, GoPasses DEF Labels, Pre, After
    <3>2. a.then = "idle"
      BY Zenon, <1>0, <2>1 DEF ThenOK, After
    <3>3. Counts(w, j)
      BY Zenon, <2>1, <3>1, <3>2 DEF Counts, Ends, Reserved, Pre, Piping
    <3> QED
      BY Zenon, <3>3 DEF LedgerStep
  <2>4. ASSUME found # None, NEW call, call.owner = found.owner,
               call.number \in {a.number, found.number},
               job' = [job EXCEPT ![w] = [a EXCEPT !.at = "pipe", !.call = call]]
        PROVE  \E j : LedgerStep(w, j)
    <3> DEFINE j == [a EXCEPT !.at = "pipe", !.call = call]
    <3>1. /\ j.at = "pipe" /\ j.call = call /\ j.then = a.then
          /\ j.claimed = a.claimed /\ j.client = a.client
      BY <1>0 DEF JobOK, Job
    <3>2. a.then = "idle"
      BY <1>0, <2>1 DEF ThenOK, After
    <3>3. job' = [job EXCEPT ![w] = j]
      BY <2>4
    <3> HIDE DEF j
    <3>4. Passes(w, j)
      BY Zenon, <2>1, <3>1, <3>2, <3>3 DEF Passes, Claims, Reserved, Holding, Pre
    <3>5. Counts(w, j)
      BY Zenon, <2>1, <2>4, <3>1, <3>2, <3>4 DEF Counts, Ends, Reserved, Pre, Piping
    <3> QED
      BY Zenon, <3>5 DEF LedgerStep
  <2>5. CASE /\ found # None
             /\ job' = [job EXCEPT ![w].at = "pipe", ![w].call =
                  [found EXCEPT !.number = IF a.verb = "wsOffer" THEN a.number ELSE @]]
    <3> DEFINE call == [found EXCEPT !.number = IF a.verb = "wsOffer" THEN a.number ELSE @]
    <3>1. found \in Call
      BY Zenon, <2>1, <2>5 DEF RegistryOK, JobData, HasData
    <3>2. call.owner = found.owner /\ call.number \in {a.number, found.number}
      BY Zenon, <3>1 DEF Call
    <3>3. job' = [job EXCEPT ![w].at = "pipe", ![w].call = call]
      BY Zenon, <2>5
    <3> HIDE DEF call
    <3>4. job' = [job EXCEPT ![w] = [a EXCEPT !.at = "pipe", !.call = call]]
      BY <1>0, <3>3, Zenon DEF JobOK
    <3> QED
      BY Zenon, <2>4, <2>5, <3>2, <3>4
  <2> QED
    BY Zenon, <1>1, <2>2, <2>3, <2>5 DEF IndexNewCall
<1>2. CASE PipeRegister(w)
  <2> DEFINE a == job[w]
             call == a.call
  <2>1. a.at = "register" /\ UNCHANGED <<calls, clientCalls, backed, asked>>
    BY Zenon, <1>2 DEF PipeRegister
  <2>2. CASE /\ pipes' = [pipes EXCEPT ![a.id] =
                  [number |-> call.number, owner |-> call.owner,
                   chan |-> IF sinks[call.owner] = None THEN None ELSE sinks[call.owner].chan]]
             /\ Done(w)
    <3>1. \A x \in Id : \/ pipes'[x] \in {None, pipes[x]}
                        \/ /\ Piping(a) /\ x = a.id
                           /\ pipes'[x].number = call.number /\ pipes'[x].owner = call.owner
      BY Zenon, <2>1, <2>2 DEF RegistryOK, Piping
    <3>2. Keeps(w, Idle)
      BY Zenon, <2>1, <2>2, <3>1, DonePasses, IdleFacts DEF Keeps, Ends, Piping
    <3> QED
      BY Zenon, <3>2 DEF LedgerStep
  <2>3. CASE /\ job' = [job EXCEPT ![w].at = "teardown", ![w].call = None]
             /\ UNCHANGED pipes
    BY Zenon, <1>t, <2>1, <2>3 DEF Piping
  <2> QED
    BY Zenon, <1>2, <2>2, <2>3 DEF PipeRegister
<1>3. CASE PipeRedirect(w)
  <2>1. /\ job[w].at = "pipe" /\ UNCHANGED <<calls, clientCalls, backed, asked>>
        /\ pipes' = pipes
    BY Zenon, <1>3 DEF PipeRedirect, registry
  <2>2. CASE Go(w, "register")
    <3>1. PICK j : Passes(w, j) /\ j.at = "register" /\ j.call = job[w].call
      BY <1>0, <2>1, <2>2, GoPasses DEF Labels, Pre, After
    <3>2. Keeps(w, j)
      BY Zenon, <2>1, <3>1 DEF Keeps, Ends, Piping
    <3> QED
      BY Zenon, <3>2 DEF LedgerStep
  <2>3. CASE job' = [job EXCEPT ![w].at = "teardown", ![w].call = None]
    BY Zenon, <1>t, <2>1, <2>3 DEF Piping
  <2> QED
    BY Zenon, <1>3, <2>2, <2>3 DEF PipeRedirect
<1>4. CASE TeardownCall(w)
  <2>1. PICK x \in Id : x = job[w].id
    BY Zenon, <1>4 DEF TeardownCall, JobData, HasData
  <2>2. /\ job[w].at = "teardown" /\ UNCHANGED <<clientCalls, asked, pipes, backed>>
        /\ calls' = [calls EXCEPT ![x] = None]
    BY Zenon, <1>4, <2>1 DEF TeardownCall
  <2>3. CASE calls[x] = None
    <3>1. Done(w) /\ calls' = calls
      BY Zenon, <1>4, <2>1, <2>2, <2>3 DEF TeardownCall, RegistryOK
    <3>2. Keeps(w, Idle)
      BY Zenon, <2>2, <3>1, DonePasses, IdleFacts DEF Keeps, Ends, Piping
    <3> QED
      BY Zenon, <3>2 DEF LedgerStep
  <2>4. CASE calls[x] # None
    <3>1. job' = [job EXCEPT ![w] = End(@, x, "idle")]
      BY Zenon, <1>4, <2>1, <2>4 DEF TeardownCall
    <3>2. "idle" # "localRegate"
      BY Zenon
    <3>3. PICK j : Passes(w, j) /\ Ends(j) /\ j.call = calls[x]
      BY <1>0, <2>2, <3>1, <3>2, EndPasses, Zenon
    <3>4. Removes(w, j, x)
      BY Zenon, <2>2, <2>4, <3>3 DEF Removes, Ends
    <3> QED
      BY Zenon, <3>4 DEF LedgerStep
  <2> QED
    BY Zenon, <2>3, <2>4
<1>5. CASE Unpipe(w)
  <2>1. /\ job[w].at = "unpipe" /\ Go(w, "free") /\ UNCHANGED <<calls, clientCalls, asked, backed>>
        /\ pipes' = [pipes EXCEPT ![job[w].id] = None]
    BY Zenon, <1>5 DEF Unpipe
  <2>2. PICK j : Passes(w, j) /\ j.at = "free" /\ j.call = job[w].call
    BY <1>0, <2>1, GoPasses DEF Labels, Pre, After
  <2>3. \A x \in Id : pipes'[x] \in {None, pipes[x]}
    BY Zenon, <2>1 DEF RegistryOK
  <2>4. Keeps(w, j)
    BY Zenon, <2>1, <2>2, <2>3 DEF Keeps, Ends, Piping
  <2> QED
    BY Zenon, <2>4 DEF LedgerStep
<1>6. CASE Free(w)
  <2> DEFINE owner == job[w].call.owner
  <2>1. /\ job[w].at = "free" /\ UNCHANGED <<calls, pipes, asked>>
        /\ backed' = backed \ {job[w].call.number}
        /\ clientCalls' = [clientCalls EXCEPT ![owner] = IF @ = 0 THEN 0 ELSE @ - 1]
    BY Zenon, <1>6 DEF Free, ReleaseCall
  <2>2. ASSUME NEW j, Passes(w, j), ~Ends(j), j.at # "index", ~Piping(j)
        PROVE  \E g : LedgerStep(w, g)
    <3>1. GivesBack(w, j)
      BY Zenon, <2>1, <2>2 DEF GivesBack, Ends
    <3> QED
      BY Zenon, <3>1 DEF LedgerStep
  <2>3. CASE job' = [job EXCEPT ![w] = Resume(@)]
    BY Zenon, <1>0, <2>1, <2>2, <2>3, ResumePasses
  <2>4. CASE job' = [job EXCEPT ![w] = [@ EXCEPT !.at = "reap", !.other = owner]]
    <3> DEFINE j == [job[w] EXCEPT !.at = "reap", !.other = owner]
    <3>1. job' = [job EXCEPT ![w] = j]
      BY Zenon, <2>4
    <3>2. /\ j.at = "reap" /\ j.then = job[w].then /\ j.number = job[w].number
          /\ j.claimed = job[w].claimed /\ j.client = job[w].client
      BY <1>0 DEF JobOK, Job
    <3> HIDE DEF j
    <3>3. Passes(w, j)
      BY Zenon, <2>1, <3>1, <3>2 DEF Passes, Claims, Reserved, Holding, Pre, After
    <3> QED
      BY Zenon, <2>2, <3>2, <3>3 DEF Ends, Piping
  <2> QED
    BY Zenon, <1>6, <2>3, <2>4 DEF Free, ReleaseCall
<1>7. CASE ReapCount(w) \/ ReapRow(w) \/ ReapRest(w)
  <2>1. /\ job[w].at \in {"reap", "reapRow", "reapRest"}
        /\ UNCHANGED <<calls, clientCalls, pipes, backed, asked>>
    BY Zenon, <1>7 DEF ReapCount, ReapRow, ReapRest, registry
  <2>2. CASE job' = [job EXCEPT ![w] = Resume(@)]
    <3>1. PICK j : Passes(w, j) /\ ~Ends(j) /\ j.at # "index" /\ ~Piping(j)
      BY Zenon, <1>0, <2>1, <2>2, ResumePasses
    <3>2. Keeps(w, j)
      BY Zenon, <2>1, <3>1 DEF Keeps, Ends, Piping
    <3> QED
      BY Zenon, <3>2 DEF LedgerStep
  <2>3. CASE Go(w, "reapRow") \/ Go(w, "reapRest")
    <3>1. PICK label \in {"reapRow", "reapRest"} : Go(w, label)
      BY Zenon, <2>3
    <3>2. PICK j : Passes(w, j) /\ j.at = label
      BY <1>0, <2>1, <3>1, GoPasses DEF Labels, Pre, After
    <3>3. Keeps(w, j)
      BY Zenon, <2>1, <3>2 DEF Keeps, Ends, Piping
    <3> QED
      BY Zenon, <3>3 DEF LedgerStep
  <2> QED
    BY Zenon, <1>7, <2>2, <2>3 DEF ReapCount, ReapRow, ReapRest
<1> QED
  BY <1>1, <1>2, <1>3, <1>4, <1>5, <1>6, <1>7


(* The steps of a connection's loop and of the sweep.                      *)
LEMMA AskedFacts ==
  ASSUME NEW c \in Conn, NEW verb, NEW x
  PROVE  /\ Asked(c, verb, x).then = "idle" /\ Asked(c, verb, x).at = "idle"
         /\ Asked(c, verb, x).client = conn[c].client /\ Asked(c, verb, x).id = x
         /\ Asked(c, verb, x).claimed => conn[c].key # None
BY Zenon DEF Asked, Idle

LEMMA BuildingTakes ==
  ASSUME NEW c \in Conn, NEW w \in Worker, NEW verb, NEW x,
         NEW label \in {"replaceCheck", "localRemove"},
         job' = [job EXCEPT ![w] = Building(c, verb, x, label)],
         asked[c] < MaxCalls, asked' = [asked EXCEPT ![c] = @ + 1], job[w].at = "idle",
         UNCHANGED <<calls, clientCalls, backed, pipes>>
  PROVE  \E j : LedgerStep(w, j)
<1> DEFINE j == Building(c, verb, x, label)
<1>1. /\ j.at = label /\ j.then = "idle" /\ j.number = <<c, asked[c] + 1>>
      /\ j.client = conn[c].client /\ (j.claimed => conn[c].key # None)
  BY Zenon DEF Building, Asked, Idle
<1> HIDE DEF j
<1>2. job' = [job EXCEPT ![w] = j]
  BY Zenon DEF j
<1>3. Takes(w, j, c)
  BY Zenon, <1>1, <1>2 DEF Takes, Claims
<1> QED
  BY Zenon, <1>3 DEF LedgerStep

LEMMA LoopLedger ==
  ASSUME RegistryOK, JobOK, JobData, NumbersOK, NEW c \in Conn, ConnectionStep(c)
  PROVE  \/ \E w \in Worker : \E j : LedgerStep(w, j)
         \/ UNCHANGED <<registry, job>>
<1> USE DEF At
<1>0. JobOK /\ ThenOK /\ Loop(c) \in Worker /\ Dial(c) \in Worker
  BY Zenon, WorkerFacts DEF NumbersOK
<1>1. CASE Connect(c)
  BY Zenon, <1>1 DEF Connect
<1>2. CASE \E k \in Key : Claim(c, k)
  <2>1. PICK k \in Key : Claim(c, k)
    BY Zenon, <1>2
  <2> DEFINE j == [Idle EXCEPT !.at = "claim", !.key = k]
  <2>2. /\ job' = [job EXCEPT ![Loop(c)] = j] /\ job[Loop(c)].at = "idle"
        /\ UNCHANGED <<calls, clientCalls, pipes, backed, asked>>
    BY Zenon, <2>1 DEF Claim, Serving, registry
  <2>3. j.at = "claim" /\ j.then = "idle" /\ ~j.claimed
    BY Zenon DEF Idle
  <2> HIDE DEF j
  <2>4. Passes(Loop(c), j)
    BY Zenon, <2>2, <2>3 DEF Passes, Claims, Reserved, Holding, Pre
  <2>5. Keeps(Loop(c), j)
    BY Zenon, <2>2, <2>3, <2>4 DEF Keeps, Ends, Piping
  <2> QED
    BY Zenon, <1>0, <2>5 DEF LedgerStep
<1>3. CASE ClaimAdmitted(c)
  <2>1. /\ job[Loop(c)].at = "claim" /\ Go(Loop(c), "row")
        /\ UNCHANGED <<calls, clientCalls, pipes, backed, asked>>
    BY Zenon, <1>3 DEF ClaimAdmitted, registry
  <2>2. PICK j : Passes(Loop(c), j) /\ j.at = "row"
    BY <1>0, <2>1, GoPasses DEF Labels, Pre, After
  <2>3. Keeps(Loop(c), j)
    BY Zenon, <2>1, <2>2 DEF Keeps, Ends, Piping
  <2> QED
    BY Zenon, <1>0, <2>3 DEF LedgerStep
<1>4. CASE ClaimRefused(c)
  <2>1. /\ job[Loop(c)].at = "claim" /\ Done(Loop(c))
        /\ UNCHANGED <<calls, clientCalls, pipes, backed, asked>>
    BY Zenon, <1>4 DEF ClaimRefused, registry
  <2>2. Keeps(Loop(c), Idle)
    BY Zenon, <1>0, <2>1, DonePasses, IdleFacts DEF Keeps, Ends, Piping
  <2> QED
    BY Zenon, <1>0, <2>2 DEF LedgerStep
<1>5. CASE AttachRow(c)
  <2>1. PICK other :
          job' = [job EXCEPT ![Loop(c)].at = "publish", ![Loop(c)].other = other]
    BY Zenon, <1>5 DEF AttachRow
  <2> DEFINE a == job[Loop(c)]
             j == [a EXCEPT !.at = "publish", !.other = other]
  <2>2. a.at = "row" /\ UNCHANGED <<calls, clientCalls, pipes, backed, asked>>
    BY Zenon, <1>5 DEF AttachRow, registry
  <2>3. job' = [job EXCEPT ![Loop(c)] = j]
    BY <1>0, <2>1, Zenon DEF JobOK
  <2>4. j.at = "publish" /\ j.then = a.then /\ j.claimed = a.claimed /\ j.client = a.client
    BY <1>0 DEF JobOK, Job
  <2>5. a.then = "idle"
    BY <1>0, <2>2 DEF ThenOK, After
  <2> HIDE DEF j
  <2>6. Passes(Loop(c), j)
    BY Zenon, <2>2, <2>3, <2>4, <2>5 DEF Passes, Claims, Reserved, Holding, Pre
  <2>7. Keeps(Loop(c), j)
    BY Zenon, <2>2, <2>4, <2>6 DEF Keeps, Ends, Piping
  <2> QED
    BY Zenon, <1>0, <2>7 DEF LedgerStep
<1>6. CASE Publish(c)
  <2>1. /\ job[Loop(c)].at = "publish" /\ Done(Loop(c))
        /\ UNCHANGED <<calls, clientCalls, pipes, backed, asked>>
    BY Zenon, <1>6 DEF Publish, registry
  <2>2. Keeps(Loop(c), Idle)
    BY Zenon, <1>0, <2>1, DonePasses, IdleFacts DEF Keeps, Ends, Piping
  <2> QED
    BY Zenon, <1>0, <2>2 DEF LedgerStep
<1>7. CASE Close(c)
  <2>1. job[Loop(c)].at = "idle" /\ UNCHANGED <<calls, clientCalls, pipes, backed, asked>>
    BY Zenon, <1>7 DEF Close, Serving, registry
  <2>2. CASE UNCHANGED job
    BY Zenon, <1>7, <2>2 DEF Close
  <2>3. CASE Go(Loop(c), "detach")
    <3>1. PICK j : Passes(Loop(c), j) /\ j.at = "detach"
      BY <1>0, <2>1, <2>3, GoPasses DEF Labels, Pre, After
    <3>2. Keeps(Loop(c), j)
      BY <2>1, <3>1 DEF Keeps, Ends, Piping
    <3> QED
      BY Zenon, <1>0, <3>2 DEF LedgerStep
  <2> QED
    BY Zenon, <1>7, <2>2, <2>3 DEF Close
<1>8. CASE Detach(c)
  <2>1. job[Loop(c)].at = "detach" /\ UNCHANGED <<calls, clientCalls, pipes, backed, asked>>
    BY Zenon, <1>8 DEF Detach, registry
  <2>2. CASE Done(Loop(c))
    <3>1. Keeps(Loop(c), Idle)
      BY Zenon, <1>0, <2>1, <2>2, DonePasses, IdleFacts DEF Keeps, Ends, Piping
    <3> QED
      BY Zenon, <1>0, <3>1 DEF LedgerStep
  <2>3. ASSUME NEW other,
               job' = [job EXCEPT ![Loop(c)].at = "reap", ![Loop(c)].other = other]
        PROVE  \E w \in Worker : \E j : LedgerStep(w, j)
    <3> DEFINE a == job[Loop(c)]
               j == [a EXCEPT !.at = "reap", !.other = other]
    <3>1. job' = [job EXCEPT ![Loop(c)] = j]
      BY <1>0, <2>3, Zenon DEF JobOK
    <3>2. j.at = "reap" /\ j.then = a.then /\ j.claimed = a.claimed /\ j.client = a.client
      BY <1>0 DEF JobOK, Job
    <3>3. a.then = "idle"
      BY Zenon, <1>0, <2>1 DEF ThenOK, After
    <3> HIDE DEF j
    <3>4. Passes(Loop(c), j)
      BY Zenon, <2>1, <3>1, <3>2, <3>3 DEF Passes, Claims, Reserved, Holding, Pre
    <3>5. Keeps(Loop(c), j)
      BY Zenon, <2>1, <3>2, <3>4 DEF Keeps, Ends, Piping
    <3> QED
      BY Zenon, <1>0, <3>5 DEF LedgerStep
  <2> QED
    BY Zenon, <1>8, <2>2, <2>3 DEF Detach
<1>9. CASE \E x \in Id : Offer(c, x) \/ AnswerLocal(c, x)
  <2>1. PICK x \in Id : Offer(c, x) \/ AnswerLocal(c, x)
    BY Zenon, <1>9
  <2>2. PICK w \in {Loop(c), Dial(c)}, verb \in Verb, label \in {"replaceCheck", "localRemove"} :
          job[w].at = "idle" /\ job' = [job EXCEPT ![w] = Building(c, verb, x, label)]
    BY Zenon, <2>1 DEF Offer, AnswerLocal, LaneFree, Serving, Verb
  <2>3. /\ asked[c] < MaxCalls /\ asked' = [asked EXCEPT ![c] = @ + 1]
        /\ UNCHANGED <<calls, clientCalls, backed, pipes>>
    BY Zenon, <2>1 DEF Offer, AnswerLocal
  <2>4. w \in Worker
    BY Zenon, <1>0
  <2> QED
    BY Zenon, <2>2, <2>3, <2>4, BuildingTakes
<1>10. CASE \E x \in Id : Delete(c, x)
  <2>1. PICK x \in Id : Delete(c, x)
    BY Zenon, <1>10
  <2> DEFINE a == Asked(c, "delete", x)
             j == [a EXCEPT !.at = "unpipe", !.id = x, !.call = calls[x], !.then = "idle"]
  <2>2. /\ job[Loop(c)].at = "idle" /\ calls[x] # None /\ calls' = [calls EXCEPT ![x] = None]
        /\ UNCHANGED <<clientCalls, pipes, backed, asked>> /\ job' = [job EXCEPT ![Loop(c)] = j]
    BY Zenon, <2>1 DEF Delete, LaneFree, Serving, End
  <2>3. /\ j.at = "unpipe" /\ j.then = "idle" /\ j.call = calls[x]
        /\ j.client = conn[c].client /\ (j.claimed => conn[c].key # None)
    BY Zenon DEF Asked, Idle
  <2> HIDE DEF j
  <2>4. Passes(Loop(c), j)
    BY Zenon, <2>2, <2>3 DEF Passes, Claims, Reserved, Holding, Pre
  <2>5. Removes(Loop(c), j, x)
    BY Zenon, <2>2, <2>3, <2>4 DEF Removes, Ends
  <2> QED
    BY Zenon, <1>0, <2>5 DEF LedgerStep
<1> QED
  BY Zenon, <1>1, <1>2, <1>3, <1>4, <1>5, <1>6, <1>7, <1>8, <1>9, <1>10 DEF ConnectionStep

LEMMA SweepLedger ==
  ASSUME RegistryOK, JobOK, JobData, NumbersOK,
         (\E x \in Id : SweepFinds(x)) \/ ReapCall
  PROVE  \E w \in Worker : \E j : LedgerStep(w, j)
<1> USE DEF At
<1>0. JobOK /\ Sweep \in Worker
  BY Zenon, WorkerFacts
<1>1. CASE \E x \in Id : SweepFinds(x)
  <2>1. PICK x \in Id : SweepFinds(x)
    BY Zenon, <1>1
  <2> DEFINE j == [Idle EXCEPT !.at = "reapCall", !.id = x, !.number = calls[x].number]
  <2>2. /\ job' = [job EXCEPT ![Sweep] = j] /\ job[Sweep].at = "idle"
        /\ UNCHANGED <<calls, clientCalls, pipes, backed, asked>>
    BY Zenon, <2>1 DEF SweepFinds, registry
  <2>3. j.at = "reapCall" /\ j.then = "idle" /\ ~j.claimed
    BY Zenon DEF Idle
  <2> HIDE DEF j
  <2>4. Passes(Sweep, j)
    BY Zenon, <2>2, <2>3 DEF Passes, Claims, Reserved, Holding, Pre
  <2>5. Keeps(Sweep, j)
    BY Zenon, <2>2, <2>3, <2>4 DEF Keeps, Ends, Piping
  <2> QED
    BY Zenon, <1>0, <2>5 DEF LedgerStep
<1>2. CASE ReapCall
  <2>1. PICK x \in Id : x = job[Sweep].id
    BY Zenon, <1>0, <1>2 DEF ReapCall, JobData, HasData
  <2>2. /\ job[Sweep].at = "reapCall" /\ UNCHANGED <<clientCalls, asked, pipes, backed>>
        /\ calls' = [calls EXCEPT ![x] = None]
    BY Zenon, <1>2, <2>1 DEF ReapCall
  <2>3. CASE calls[x] = None
    <3>1. Done(Sweep) /\ calls' = calls
      BY Zenon, <1>2, <2>1, <2>2, <2>3 DEF ReapCall, RegistryOK
    <3>2. Keeps(Sweep, Idle)
      BY Zenon, <1>0, <2>2, <3>1, DonePasses, IdleFacts DEF Keeps, Ends, Piping
    <3> QED
      BY Zenon, <1>0, <3>2 DEF LedgerStep
  <2>4. CASE calls[x] # None
    <3>1. job' = [job EXCEPT ![Sweep] = End(@, x, "idle")]
      BY Zenon, <1>2, <2>1, <2>4 DEF ReapCall
    <3>2. "idle" # "localRegate"
      BY Zenon
    <3>3. PICK j : Passes(Sweep, j) /\ Ends(j) /\ j.call = calls[x]
      BY <1>0, <2>2, <3>1, <3>2, EndPasses, Zenon
    <3>4. Removes(Sweep, j, x)
      BY Zenon, <2>2, <2>4, <3>3 DEF Removes, Ends
    <3> QED
      BY Zenon, <1>0, <3>4 DEF LedgerStep
  <2> QED
    BY Zenon, <2>3, <2>4
<1> QED
  BY Zenon, <1>1, <1>2

LEMMA NextLedger ==
  ASSUME RegistryOK, JobOK, JobData, NumbersOK, [Next]_vars
  PROVE  \/ \E w \in Worker : \E j : LedgerStep(w, j)
         \/ UNCHANGED <<registry, job>>
<1>1. CASE \E c \in Conn : ConnectionStep(c)
  BY Zenon, <1>1, LoopLedger
<1>2. CASE \E w \in Worker : WorkerStep(w)
  BY Zenon, <1>2, BuildingLedger, EndingLedger DEF WorkerStep
<1>3. CASE (\E x \in Id : SweepFinds(x)) \/ ReapCall
  BY Zenon, <1>3, SweepLedger
<1>4. CASE UNCHANGED vars
  BY Zenon, <1>4 DEF vars
<1> QED
  BY Zenon, <1>1, <1>2, <1>3, <1>4 DEF Next

----------------------------------------------------------------------------
LEMMA InitLedger == Init => LedgerInv
<1> SUFFICES ASSUME Init PROVE LedgerInv
  BY Zenon
<1>1. IInv
  BY Zenon, InitInv
<1>2. \A w \in Worker : job[w] = Idle
  BY Zenon DEF Init
<1>3. \A w \in Worker : /\ job[w].at = "idle" /\ job[w].then = "idle" /\ job[w].claimed = FALSE
  BY <1>2 DEF Idle
<1>4. /\ \A x \in Id : calls[x] = None /\ pipes[x] = None
      /\ \A c \in Conn : conn[c].key = None
  BY Zenon DEF Init
<1>5. NumbersOK
  BY Zenon, <1>3, <1>4 DEF NumbersOK, ThenOK, Reserved, Holding, Ends, Pre
<1>6. Traced
  BY Zenon, <1>3, <1>4 DEF Traced, At, Piping
<1>7. ClaimsOK /\ ChanOK
  BY Zenon, <1>3, <1>4 DEF ClaimsOK, ChanOK
<1> QED
  BY Zenon, <1>1, <1>5, <1>6, <1>7 DEF LedgerInv

LEMMA NextLedgerInv == LedgerInv /\ [Next]_vars => LedgerInv'
<1> SUFFICES ASSUME LedgerInv, [Next]_vars PROVE LedgerInv'
  BY Zenon
<1>1. IInv /\ NumbersOK /\ Traced /\ ClaimsOK /\ ChanOK /\ RegistryOK /\ JobOK /\ JobData
  BY Zenon DEF LedgerInv, IInv
<1>2. IInv' /\ Kept /\ \A x \in Id : Wired(x)
  BY Zenon, <1>1, NextInv, NextKept
<1>3. CASE \E w \in Worker : \E j : LedgerStep(w, j)
  <2>1. PICK w \in Worker : \E j : LedgerStep(w, j)
    BY Zenon, <1>3
  <2>2. PICK j : LedgerStep(w, j)
    BY Zenon, <2>1
  <2>3. NumbersOK' /\ Traced'
    BY Zenon, <1>1, <2>2, LedgerNumbers, TracedStep
  <2>4. ClaimsOK' /\ ChanOK'
    BY Zenon, <1>1, <1>2, <2>2, ClaimsStep, ChanStep
  <2> QED
    BY Zenon, <1>2, <2>3, <2>4 DEF LedgerInv
<1>4. CASE UNCHANGED <<registry, job>>
  <2>1. NumbersOK'
    BY Zenon, <1>1, <1>4 DEF registry, NumbersOK, ThenOK, ReservedOK, CallOK, EndOK, Issued
  <2>2. Traced' /\ ClaimsOK' /\ ChanOK'
    BY Zenon, <1>1, <1>2, <1>4, ChanUnmoved
  <2> QED
    BY Zenon, <1>2, <2>1, <2>2 DEF LedgerInv
<1> QED
  BY Zenon, <1>1, <1>3, <1>4, NextLedger

(* However connections come, claim and leave, the pipeline of a call asked *)
(* for after the claim emits into the channel that the attached connection *)
(* drains (attach_controller, register_client_generation).                 *)
THEOREM EventsAlwaysFollow == Spec => []EventsFollow
<1>1. ASSUME LedgerInv PROVE EventsFollow
  <2>1. IdentityOK /\ RowShape /\ RegistryOK /\ ChanOK
    BY Zenon, <1>1 DEF LedgerInv, IInv
  <2> SUFFICES ASSUME NEW x \in Id, NEW k \in Key,
                      pipes[x] # None, calls[x] # None, pipes[x].number = calls[x].number,
                      calls[x].claimed, controllers[k] # None,
                      controllers[k].client = pipes[x].owner, controllers[k].attached # None
               PROVE  pipes[x].chan = conn[controllers[k].attached].chan
    BY Zenon DEF EventsFollow
  <2>2. PICK row \in Row : controllers[k] = row /\ RowOK(k, row)
    BY Zenon, <2>1 DEF IdentityOK, RowShape
  <2>3. sinks[row.client].chan = conn[row.attached].chan
    BY Zenon, <2>2 DEF RowOK, AttachedOK
  <2>4. pipes[x].chan = sinks[pipes[x].owner].chan
    BY Zenon, <2>1 DEF ChanOK
  <2> QED
    BY Zenon, <2>2, <2>3, <2>4
<1>2. LedgerInv => EventsFollow
  BY Zenon, <1>1
<1> QED
  BY <1>2, InitLedger, NextLedgerInv, PTL DEF Spec


----------------------------------------------------------------------------
(* Counting: the library's facts, about its own copy of FiniteSets.        *)
Sets == INSTANCE FiniteSetTheorems

LEMMA SameSets ==
  \A S : (Sets!IsFiniteSet(S) <=> IsFiniteSet(S)) /\ Sets!Cardinality(S) = Cardinality(S)
<1>1. \A S : Sets!IsFiniteSet(S) <=> IsFiniteSet(S)
  BY Zenon DEF IsFiniteSet, Sets!IsFiniteSet
<1>2. \A S : Sets!Cardinality(S) = Cardinality(S)
  BY Zenon DEF Cardinality, Sets!Cardinality
<1> QED
  BY <1>1, <1>2

LEMMA CountingHolds == Counting
<1>1. ASSUME NEW S, IsFiniteSet(S) PROVE Cardinality(S) \in Nat
  BY <1>1, SameSets, Sets!FS_CardinalityType
<1>2. Grow
  <2> SUFFICES ASSUME NEW S, NEW e, IsFiniteSet(S)
               PROVE  /\ IsFiniteSet(S \cup {e}) /\ Cardinality(S \cup {e}) \in Nat
                      /\ e \notin S => Cardinality(S \cup {e}) = Cardinality(S) + 1
                      /\ Cardinality(S \cup {e}) <= Cardinality(S) + 1
    BY Zenon DEF Grow
  <2>1. /\ IsFiniteSet(S \cup {e})
        /\ Cardinality(S \cup {e}) = IF e \in S THEN Cardinality(S) ELSE Cardinality(S) + 1
    BY Zenon, SameSets, Sets!FS_AddElement
  <2>2. Cardinality(S) \in Nat
    BY Zenon, <1>1
  <2> QED
    BY <2>1, <2>2
<1>3. Shrink
  <2> SUFFICES ASSUME NEW S, NEW e, IsFiniteSet(S)
               PROVE  /\ IsFiniteSet(S \ {e}) /\ Cardinality(S \ {e}) \in Nat
                      /\ e \in S => Cardinality(S \ {e}) = Cardinality(S) - 1
                      /\ Cardinality(S \ {e}) <= Cardinality(S)
    BY Zenon DEF Shrink
  <2>1. /\ IsFiniteSet(S \ {e})
        /\ Cardinality(S \ {e}) = IF e \in S THEN Cardinality(S) - 1 ELSE Cardinality(S)
    BY Zenon, SameSets, Sets!FS_RemoveElement
  <2>2. Cardinality(S) \in Nat /\ Cardinality(S \ {e}) \in Nat
    BY Zenon, <1>1, <2>1
  <2> QED
    BY <2>1, <2>2
<1> QED
  BY Zenon, <1>1, <1>2, <1>3 DEF Counting, Counted

LEMMA CountNone == IsFiniteSet({}) /\ Cardinality({}) = 0
BY SameSets, Sets!FS_EmptySet

LEMMA CountOne ==
  ASSUME NEW S, \A e, f \in S : e = f
  PROVE  Cardinality(S) \in {0, 1} /\ (S = {} => Cardinality(S) = 0)
<1>1. CASE S = {}
  BY Zenon, <1>1, CountNone
<1>2. CASE \E e : S = {e}
  BY Zenon, <1>2, SameSets, Sets!FS_Singleton
<1> QED
  BY <1>1, <1>2

(* However teardowns, replacements, reaps and the sweep interleave, a call *)
(* is ended by one task, and its endpoints are there until that task took  *)
(* it out of the table (delete, finish_call).                              *)
THEOREM CallsEndOnce == Spec => []EndsOnce
<1>1. ASSUME NumbersOK PROVE EndsOnce
  <2> SUFFICES ASSUME NEW n \in Number
               PROVE  LET registered == {x \in Id : calls[x] # None /\ calls[x].number = n}
                          ending == {w \in Worker : Ending(w, n)}
                      IN /\ Cardinality(registered) + Cardinality(ending) <= 1
                         /\ registered # {} => n \in backed
    BY DEF EndsOnce
  <2> DEFINE registered == {x \in Id : calls[x] # None /\ calls[x].number = n}
             ending == {w \in Worker : Ending(w, n)}
  <2>1. \A x \in registered : CallOK(x) /\ calls[x].number = n
    BY <1>1 DEF NumbersOK
  <2>2. \A w \in ending : Ends(job[w]) /\ EndOK(w) /\ job[w].call.number = n
    BY Zenon, <1>1 DEF NumbersOK, Ending, Ends
  <2>3. \A x, y \in registered : x = y
    BY Zenon, <2>1 DEF CallOK
  <2>4. \A v, w \in ending : v = w
    BY Zenon, <2>2 DEF EndOK
  <2>5. registered = {} \/ ending = {}
    BY Zenon, <2>1, <2>2 DEF CallOK
  <2>6. registered # {} => n \in backed
    BY Zenon, <2>1 DEF CallOK
  <2> HIDE DEF registered, ending
  <2>7. /\ Cardinality(registered) \in {0, 1} /\ (registered = {} => Cardinality(registered) = 0)
        /\ Cardinality(ending) \in {0, 1} /\ (ending = {} => Cardinality(ending) = 0)
    BY Zenon, <2>3, <2>4, CountOne
  <2>8. Cardinality(registered) + Cardinality(ending) <= 1
    BY <2>5, <2>7
  <2> QED
    BY Zenon, <2>6, <2>8 DEF registered, ending
<1>2. LedgerInv => EndsOnce
  BY Zenon, <1>1 DEF LedgerInv
<1> QED
  BY <1>2, InitLedger, NextLedgerInv, PTL DEF Spec

(* Whatever a client's calls are doing, its quota covers them: no count is *)
(* given back twice, and the end of a call does not make an identity look  *)
(* idle that has another one (index_new_call, release_client_call,         *)
(* reap_detached_controller).                                              *)
THEOREM QuotaAlwaysCovers == Spec => []QuotaCovers
<1>1. Init => QuotaOK
  <2> SUFFICES ASSUME Init, NEW c \in Conn PROVE FiniteOK(c) /\ Covers(c)
    BY Zenon DEF QuotaOK
  <2>1. \A w \in Worker : job[w].at = "idle"
    BY Zenon DEF Init, Idle
  <2>2. Indexing(c) = {} /\ Registered(c) = {} /\ Owed(c) = {} /\ clientCalls[c] = 0
    BY Zenon, <2>1 DEF Init, Indexing, Registered, Owed, At
  <2> QED
    BY <2>2, CountNone DEF FiniteOK, Covers
<1>2. LedgerInv /\ QuotaOK /\ [Next]_vars => QuotaOK'
  <2> SUFFICES ASSUME LedgerInv, QuotaOK, [Next]_vars PROVE QuotaOK'
    BY Zenon
  <2>1. NumbersOK /\ RegistryOK /\ JobOK /\ JobData
    BY Zenon DEF LedgerInv, IInv
  <2>2. ASSUME NEW w \in Worker, NEW j, LedgerStep(w, j) PROVE QuotaOK'
    BY <2>1, <2>2, LedgerQuota, CountingHolds
  <2>3. CASE UNCHANGED <<registry, job>>
    <3>1. UNCHANGED <<clientCalls, calls, job>>
      BY <2>3 DEF registry
    <3>2. ASSUME NEW c \in Conn
          PROVE  /\ clientCalls'[c] = clientCalls[c] /\ Indexing(c)' = Indexing(c)
                 /\ Registered(c)' = Registered(c) /\ Owed(c)' = Owed(c)
      BY Zenon, <3>1 DEF Indexing, Registered, Owed, At
    <3> QED
      BY Zenon, <3>2, SameQuota DEF QuotaOK
  <2> QED
    BY Zenon, <2>1, <2>2, <2>3, NextLedger
<1>3. QuotaOK => QuotaCovers
  BY Zenon DEF QuotaOK, Covers, Indexing, Registered, Owed, QuotaCovers
<1> QED
  BY <1>1, <1>2, <1>3, InitLedger, NextLedgerInv, PTL DEF Spec
=============================================================================
