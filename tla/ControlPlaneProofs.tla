------------------------- MODULE ControlPlaneProofs -------------------------
(***************************************************************************)
(* For any number of connections, identities and calls.                    *)
(*                                                                         *)
(* First, what the steps on a call's number, on a client's quota and on a  *)
(* pipeline's channel do to the books (LedgerInv), and what a claim        *)
(* settles; ControlPlaneSteps says which of these steps each action takes. *)
(*                                                                         *)
(* Then the types, an identity's event channel, and newest-wins: the steps *)
(* that leave the identities alone (the tasks of commands, of the end of a *)
(* call and of the sweep), those by which an identity is taken and left,   *)
(* and the theorems.                                                       *)
(***************************************************************************)
EXTENDS ControlPlaneInvariants, TLAPS

----------------------------------------------------------------------------
LEMMA NumberFacts ==
  ASSUME RegistryOK, JobOK, JobData
  PROVE  /\ \A w \in Worker : Reserved(job[w]) => job[w].number \in Number
         /\ \A w \in Worker : Ends(job[w]) => job[w].call \in Call /\ job[w].call.number \in Number
         /\ \A x \in Id : calls[x] # None => calls[x] \in Call /\ calls[x].number \in Number
         /\ \A n \in Number : n[1] \in Conn /\ n[2] \in Nat /\ asked[n[1]] \in Nat
<1>1. \A w \in Worker : Reserved(job[w]) => job[w].number \in Number
  BY Zenon DEF JobData, HasData, Reserved, Pre
<1>2. \A w \in Worker : Ends(job[w]) => job[w].call \in Call
  BY Zenon DEF JobData, HasData, Ends
<1>3. \A x \in Id : calls[x] # None => calls[x] \in Call
  BY Zenon DEF RegistryOK
<1>4. \A call \in Call : call.number \in Number
  BY Zenon DEF Call
<1>5. \A n \in Number : n[1] \in Conn /\ n[2] \in Nat
  BY ControlAssumption DEF Number
<1>6. \A c \in Conn : asked[c] \in Nat
  BY ControlAssumption DEF RegistryOK
<1> QED
  BY Zenon, <1>1, <1>2, <1>3, <1>4, <1>5, <1>6

(* The numbers of the task that moves, and of the others.                  *)
LEMMA Others ==
  ASSUME JobOK, NEW w \in Worker, NEW j, job' = [job EXCEPT ![w] = j]
  PROVE  job'[w] = j /\ \A v \in Worker : v # w => job'[v] = job[v]
BY Zenon DEF JobOK

LEMMA KeepsNumbers ==
  ASSUME RegistryOK, JobOK, JobData, NumbersOK, NEW w \in Worker, NEW j, Keeps(w, j)
  PROVE  NumbersOK'
<1>1. job'[w] = j /\ \A v \in Worker : v # w => job'[v] = job[v]
  BY Zenon, Others DEF Keeps, Passes
<1>2. /\ calls' = calls /\ asked' = asked
      /\ j.then # "idle" => j.at \in After
      /\ Reserved(j) => Reserved(job[w]) /\ j.number = job[w].number
      /\ Holding(j) => Holding(job[w]) \/ job[w].number \in backed'
      /\ Ends(j) => Ends(job[w]) /\ j.call = job[w].call
      /\ Holding(j) => Reserved(j)
  BY Zenon DEF Keeps, Passes, Holding, Reserved, Pre
<1>3. \/ backed \subseteq backed'
      \/ backed' = backed \ {job[w].number} /\ Reserved(job[w]) /\ ~Reserved(j)
  BY Zenon DEF Keeps
<1>4. \A n : Issued(n)' <=> Issued(n)
  BY Zenon, <1>2 DEF Issued
<1>5. ThenOK'
  BY Zenon, <1>1, <1>2 DEF NumbersOK, ThenOK
<1>6. ASSUME NEW v \in Worker, Reserved(job'[v]) PROVE ReservedOK(v)'
  BY <1>1, <1>2, <1>4, <1>6 DEF NumbersOK, ReservedOK
<1>7. ASSUME NEW v \in Worker, Holding(job'[v]) PROVE job'[v].number \in backed'
  <2>1. Holding(job[v]) => Reserved(job[v])
    BY Zenon DEF Holding, Reserved, Pre
  <2> QED
    BY <1>1, <1>2, <1>3, <1>7, <2>1 DEF NumbersOK, ReservedOK
<1>8. ASSUME NEW x \in Id, calls'[x] # None PROVE CallOK(x)'
  BY <1>1, <1>2, <1>3, <1>4, <1>8 DEF NumbersOK, CallOK, ReservedOK
<1>9. ASSUME NEW v \in Worker, Ends(job'[v]) PROVE EndOK(v)'
  BY <1>1, <1>2, <1>4, <1>9 DEF NumbersOK, EndOK
<1> QED
  BY Zenon, <1>5, <1>6, <1>7, <1>8, <1>9 DEF NumbersOK

LEMMA TakesNumbers ==
  ASSUME RegistryOK, JobOK, JobData, NumbersOK, NEW w \in Worker, NEW j, NEW c \in Conn,
         Takes(w, j, c)
  PROVE  NumbersOK'
<1>1. job'[w] = j /\ \A v \in Worker : v # w => job'[v] = job[v]
  BY Zenon, Others DEF Takes
<1>0. PICK n : n = <<c, asked[c] + 1>>
  BY Zenon
<1>2. /\ calls' = calls /\ backed' = backed /\ j.number = n /\ j.then = "idle"
      /\ Reserved(j) /\ ~Holding(j) /\ ~Ends(j)
  BY Zenon, <1>0 DEF Takes, Reserved, Holding, Ends, Pre
<1>3. asked[c] \in Nat /\ asked' = [asked EXCEPT ![c] = @ + 1]
  BY ControlAssumption DEF Takes, RegistryOK
<1>4. \A m \in Number : Issued(m) => Issued(m)'
  BY <1>3, NumberFacts DEF Issued, RegistryOK
<1>5. n[1] = c /\ n[2] = asked[c] + 1 /\ asked'[c] = asked[c] + 1
  BY Zenon, <1>0, <1>3 DEF RegistryOK
<1>n. (\A m : Issued(m) => m # n) /\ Issued(n)'
  BY <1>3, <1>5 DEF Issued
<1>6. ThenOK'
  BY Zenon, <1>1, <1>2 DEF NumbersOK, ThenOK
<1>7. ASSUME NEW v \in Worker, Reserved(job'[v]) PROVE ReservedOK(v)'
  <2>1. CASE v = w
    BY Zenon, <1>1, <1>2, <1>n, <2>1 DEF NumbersOK, ReservedOK, CallOK, EndOK
  <2>2. CASE v # w
    BY <1>1, <1>2, <1>4, <1>n, <1>7, <2>2, NumberFacts DEF NumbersOK, ReservedOK
  <2> QED
    BY Zenon, <2>1, <2>2
<1>8. ASSUME NEW v \in Worker, Holding(job'[v]) PROVE job'[v].number \in backed'
  BY Zenon, <1>1, <1>2, <1>8 DEF NumbersOK
<1>9. ASSUME NEW x \in Id, calls'[x] # None PROVE CallOK(x)'
  BY <1>1, <1>2, <1>4, <1>9, NumberFacts DEF NumbersOK, CallOK
<1>10. ASSUME NEW v \in Worker, Ends(job'[v]) PROVE EndOK(v)'
  BY <1>1, <1>2, <1>4, <1>10, NumberFacts DEF NumbersOK, EndOK
<1> QED
  BY Zenon, <1>6, <1>7, <1>8, <1>9, <1>10 DEF NumbersOK

LEMMA EntersNumbers ==
  ASSUME RegistryOK, JobOK, JobData, NumbersOK, NEW w \in Worker, NEW j, Enters(w, j)
  PROVE  NumbersOK'
<1>1. job'[w] = j /\ \A v \in Worker : v # w => job'[v] = job[v]
  BY Zenon, Others DEF Enters, Passes
<1> DEFINE n == job[w].number
           x == job[w].id
<1>2. /\ Reserved(job[w]) /\ ~Reserved(j) /\ ~Holding(j) /\ ~Ends(j)
      /\ j.then # "idle" => j.at \in After
      /\ asked' = asked /\ backed' = backed \cup {n} /\ x \in Id
  BY Zenon DEF Enters, Passes, Reserved, Holding, Ends, Pre, JobData, HasData
<1>3. /\ \A y \in Id : y # x => calls'[y] = calls[y]
      /\ calls'[x].number = n
  BY Zenon, <1>2 DEF Enters, RegistryOK, CallOf
<1>4. \A m : Issued(m)' <=> Issued(m)
  BY Zenon, <1>2 DEF Issued
<1> HIDE DEF n, x
<1>5. ThenOK'
  BY Zenon, <1>1, <1>2 DEF NumbersOK, ThenOK
<1>6. ASSUME NEW v \in Worker, Reserved(job'[v]) PROVE ReservedOK(v)'
  <2>1. v # w /\ ReservedOK(v) /\ ReservedOK(w)
    BY Zenon, <1>1, <1>2, <1>6 DEF NumbersOK
  <2> QED
    BY <1>1, <1>2, <1>3, <1>4, <1>6, <2>1 DEF ReservedOK, n
<1>7. ASSUME NEW v \in Worker, Holding(job'[v]) PROVE job'[v].number \in backed'
  BY Zenon, <1>1, <1>2, <1>7 DEF NumbersOK
<1>8. ASSUME NEW y \in Id, calls'[y] # None PROVE CallOK(y)'
  <2>1. ReservedOK(w)
    BY Zenon, <1>2 DEF NumbersOK
  <2>2. CASE y = x
    BY <1>1, <1>2, <1>3, <1>4, <2>1, <2>2 DEF ReservedOK, CallOK, n
  <2>3. CASE y # x
    BY <1>1, <1>2, <1>3, <1>4, <1>8, <2>1, <2>3 DEF ReservedOK, CallOK, NumbersOK, n
  <2> QED
    BY Zenon, <2>2, <2>3
<1>9. ASSUME NEW v \in Worker, Ends(job'[v]) PROVE EndOK(v)'
  BY <1>1, <1>2, <1>4, <1>9 DEF NumbersOK, EndOK
<1> QED
  BY Zenon, <1>5, <1>6, <1>7, <1>8, <1>9 DEF NumbersOK

LEMMA CountsNumbers ==
  ASSUME RegistryOK, JobOK, JobData, NumbersOK, NEW w \in Worker, NEW j, Counts(w, j)
  PROVE  NumbersOK'
<1>1. job'[w] = j /\ \A v \in Worker : v # w => job'[v] = job[v]
  BY Zenon, Others DEF Counts, Passes
<1>2. /\ ~Reserved(j) /\ ~Holding(j) /\ ~Ends(j)
      /\ j.then # "idle" => j.at \in After
      /\ asked' = asked /\ backed' = backed /\ calls' = calls
  BY Zenon DEF Counts, Passes, Reserved, Holding, Pre
<1> QED
  BY <1>1, <1>2 DEF NumbersOK, ThenOK, ReservedOK, CallOK, EndOK, Issued

LEMMA RemovesNumbers ==
  ASSUME RegistryOK, JobOK, JobData, NumbersOK, NEW w \in Worker, NEW j, NEW x \in Id,
         Removes(w, j, x)
  PROVE  NumbersOK'
<1>1. job'[w] = j /\ \A v \in Worker : v # w => job'[v] = job[v]
  BY Zenon, Others DEF Removes, Passes
<1>2. /\ Reserved(j) => Reserved(job[w]) /\ j.number = job[w].number
      /\ Holding(j) => Holding(job[w]) \/ job[w].number \in backed'
      /\ Holding(j) => Reserved(j)
      /\ j.then # "idle" => j.at \in After
      /\ asked' = asked /\ backed \subseteq backed'
      /\ Ends(j) /\ j.call = calls[x] /\ ~Ends(job[w]) /\ CallOK(x)
  BY Zenon DEF Removes, Passes, Reserved, Holding, Pre, NumbersOK
<1>3. calls'[x] = None /\ \A y \in Id : y # x => calls'[y] = calls[y]
  BY Zenon DEF Removes, RegistryOK
<1>4. \A m : Issued(m)' <=> Issued(m)
  BY Zenon, <1>2 DEF Issued
<1>5. ThenOK'
  BY Zenon, <1>1, <1>2 DEF NumbersOK, ThenOK
<1>6. ASSUME NEW v \in Worker, Reserved(job'[v]) PROVE ReservedOK(v)'
  <2>1. ReservedOK(v) /\ calls[x] # None /\ job'[v].number = job[v].number
    BY Zenon, <1>1, <1>2, <1>6 DEF NumbersOK, Removes
  <2> QED
    BY <1>1, <1>2, <1>3, <1>4, <1>6, <2>1 DEF ReservedOK
<1>7. ASSUME NEW v \in Worker, Holding(job'[v]) PROVE job'[v].number \in backed'
  BY Zenon, <1>1, <1>2, <1>7 DEF NumbersOK
<1>8. ASSUME NEW y \in Id, calls'[y] # None PROVE CallOK(y)'
  <2>1. y # x /\ CallOK(y) /\ calls'[y] = calls[y]
    BY Zenon, <1>3, <1>8 DEF NumbersOK
  <2> QED
    BY <1>1, <1>2, <1>3, <1>4, <1>8, <2>1 DEF CallOK
<1>9. ASSUME NEW v \in Worker, Ends(job'[v]) PROVE EndOK(v)'
  BY <1>1, <1>2, <1>4, <1>9 DEF NumbersOK, EndOK, CallOK
<1> QED
  BY Zenon, <1>5, <1>6, <1>7, <1>8, <1>9 DEF NumbersOK

LEMMA GivesBackNumbers ==
  ASSUME RegistryOK, JobOK, JobData, NumbersOK, NEW w \in Worker, NEW j, GivesBack(w, j)
  PROVE  NumbersOK'
<1>1. job'[w] = j /\ \A v \in Worker : v # w => job'[v] = job[v]
  BY Zenon, Others DEF GivesBack, Passes
<1>2. /\ Reserved(j) => Reserved(job[w]) /\ j.number = job[w].number
      /\ Holding(j) => Holding(job[w]) \/ job[w].number \in backed'
      /\ Holding(j) => Reserved(j)
      /\ j.then # "idle" => j.at \in After
      /\ asked' = asked /\ backed' = backed \ {job[w].call.number} /\ calls' = calls
      /\ ~Ends(j) /\ Ends(job[w])
  BY Zenon DEF GivesBack, Passes, Holding, Reserved, Pre
<1>3. \A v \in Worker : Holding(job[v]) => Reserved(job[v])
  BY Zenon DEF Holding, Reserved, Pre
<1>4. \A m : Issued(m)' <=> Issued(m)
  BY Zenon, <1>2 DEF Issued
<1>5. ThenOK'
  BY Zenon, <1>1, <1>2 DEF NumbersOK, ThenOK
<1>6. ASSUME NEW v \in Worker, Reserved(job'[v]) PROVE ReservedOK(v)'
  BY <1>1, <1>2, <1>4, <1>6 DEF NumbersOK, ReservedOK
<1>7. ASSUME NEW v \in Worker, Holding(job'[v]) PROVE job'[v].number \in backed'
  BY <1>1, <1>2, <1>3, <1>7 DEF NumbersOK, ReservedOK
<1>8. ASSUME NEW x \in Id, calls'[x] # None PROVE CallOK(x)'
  BY <1>1, <1>2, <1>4, <1>8 DEF NumbersOK, CallOK
<1>9. ASSUME NEW v \in Worker, Ends(job'[v]) PROVE EndOK(v)'
  BY <1>1, <1>2, <1>4, <1>9 DEF NumbersOK, EndOK
<1> QED
  BY Zenon, <1>5, <1>6, <1>7, <1>8, <1>9 DEF NumbersOK

LEMMA LedgerNumbers ==
  ASSUME RegistryOK, JobOK, JobData, NumbersOK, NEW w \in Worker, NEW j, LedgerStep(w, j)
  PROVE  NumbersOK'
BY Zenon, KeepsNumbers, TakesNumbers, EntersNumbers, CountsNumbers, RemovesNumbers, GivesBackNumbers
   DEF LedgerStep

----------------------------------------------------------------------------
(* The channels of pipelines.                                              *)

LEMMA SpentStays ==
  ASSUME RegistryOK, JobOK, JobData, NumbersOK, NEW w \in Worker, NEW j, LedgerStep(w, j),
         NEW n \in Number, Spent(n)
  PROVE  /\ Spent(n)'
         /\ \A y \in Id : calls'[y] # None /\ calls'[y].number = n =>
              calls[y] # None /\ calls[y] = calls'[y]
<1>1. job' = [job EXCEPT ![w] = j]
  BY Zenon DEF LedgerStep, Keeps, Takes, Enters, Counts, Removes, GivesBack, Passes
<1>2. job'[w] = j /\ \A v \in Worker : v # w => job'[v] = job[v]
  BY Zenon, <1>1, Others
<1>3. n[1] \in Conn /\ n[2] \in Nat /\ n[2] <= asked[n[1]]
      /\ \A c \in Conn : asked[c] \in Nat
  BY NumberFacts, ControlAssumption DEF Spent, Issued, RegistryOK
<1>4. (Reserved(j) => j.number # n) /\ n[2] <= asked'[n[1]]
  <2>1. CASE Passes(w, j)
    BY Zenon, <1>3, <2>1 DEF Passes, Spent
  <2>2. CASE \E c \in Conn : Takes(w, j, c)
    <3>1. PICK c \in Conn : Takes(w, j, c)
      BY Zenon, <2>2
    <3>2. /\ asked' = [asked EXCEPT ![c] = asked[c] + 1]
          /\ j.number = <<c, asked[c] + 1>> /\ asked[c] < MaxCalls
      BY Zenon, <3>1 DEF Takes
    <3>3. j.number # n
      BY <1>3, <3>2
    <3>4. n[2] <= asked'[n[1]]
      BY <1>3, <3>2 DEF RegistryOK
    <3> QED
      BY Zenon, <3>3, <3>4
  <2> QED
    BY Zenon, <2>1, <2>2 DEF LedgerStep, Keeps, Enters, Counts, Removes, GivesBack
<1>5. Spent(n)'
  BY Zenon, <1>2, <1>4 DEF Spent, Issued
<1>6. ASSUME NEW y \in Id, calls'[y] # None, calls'[y].number = n
      PROVE  calls'[y] = calls[y]
  <2>1. CASE calls' = calls
    BY Zenon, <2>1
  <2>2. CASE Enters(w, j)
    <3>1. /\ calls' = [calls EXCEPT ![job[w].id] = CallOf(job[w])]
          /\ Reserved(job[w])
      BY Zenon, <2>2 DEF Enters, Reserved, Pre
    <3>2. CallOf(job[w]).number # n
      BY Zenon, <3>1 DEF Spent, CallOf
    <3> QED
      BY Zenon, <1>6, <3>1, <3>2 DEF RegistryOK
  <2>3. CASE \E x \in Id : Removes(w, j, x)
    BY Zenon, <1>6, <2>3 DEF Removes, RegistryOK
  <2> QED
    BY Zenon, <2>1, <2>2, <2>3 DEF LedgerStep, Keeps, Takes, Counts, GivesBack
<1> QED
  BY Zenon, <1>5, <1>6

LEMMA TracedStep ==
  ASSUME RegistryOK, JobOK, JobData, NumbersOK, Traced, NEW w \in Worker, NEW j, LedgerStep(w, j)
  PROVE  Traced'
<1>1. job' = [job EXCEPT ![w] = j]
  BY Zenon DEF LedgerStep, Keeps, Takes, Enters, Counts, Removes, GivesBack, Passes
<1>2. job'[w] = j /\ \A v \in Worker : v # w => job'[v] = job[v]
  BY Zenon, <1>1, Others
<1>3. ASSUME NEW n \in Number, Spent(n), NEW x, Only(n, x)
      PROVE  Spent(n)' /\ Only(n, x)'
  BY Zenon, <1>3, SpentStays DEF Only
<1>4. ASSUME NEW n \in Number, Spent(n), NEW o, Under(n, o)
      PROVE  Spent(n)' /\ Under(n, o)'
  BY Zenon, <1>4, SpentStays DEF Under
<1>5. ASSUME NEW v \in Worker, At(v, "index")'
      PROVE  (Spent(job[v].number) /\ Only(job[v].number, job[v].id))'
  <2>1. PICK n, x : n = job'[v].number /\ x = job'[v].id
    BY Zenon
  <2>2. CASE v # w
    <3>1. job'[v] = job[v] /\ job[v].at = "index"
      BY Zenon, <1>2, <1>5, <2>2 DEF At
    <3>2. n \in Number /\ Spent(n) /\ Only(n, x)
      BY Zenon, <2>1, <3>1 DEF Traced, JobData, HasData, At
    <3>3. Spent(n)' /\ Only(n, x)'
      BY Zenon, <1>3, <3>2
    <3> QED
      BY Zenon, <2>1, <3>3 DEF Spent, Issued, Only
  <2>3. CASE v = w
    <3>1. j.at = "index"
      BY Zenon, <1>2, <1>5, <2>3 DEF At
    <3>2. Enters(w, j)
      BY Zenon, <3>1 DEF LedgerStep, Keeps, Takes, Counts, Removes, GivesBack, Ends
    <3>3. /\ Reserved(job[w]) /\ ~Reserved(j) /\ n = job[w].number /\ x = job[w].id
          /\ asked' = asked /\ calls' = [calls EXCEPT ![x] = CallOf(job[w])]
      BY Zenon, <1>2, <2>1, <2>3, <3>2 DEF Enters, Passes, Reserved, Pre
    <3>4. ReservedOK(w)
      BY Zenon, <3>3 DEF NumbersOK
    <3>5. Spent(n)'
      BY Zenon, <1>2, <3>3, <3>4 DEF Spent, Issued, ReservedOK
    <3>6. Only(n, x)'
      BY Zenon, <3>3, <3>4 DEF Only, ReservedOK, RegistryOK
    <3> QED
      BY Zenon, <2>1, <3>5, <3>6 DEF Spent, Issued, Only
  <2> QED
    BY Zenon, <2>2, <2>3
<1>6. ASSUME NEW v \in Worker, Piping(job[v])'
      PROVE  (Spent(job[v].call.number) /\ Under(job[v].call.number, job[v].call.owner))'
  <2>1. PICK n, o : n = job'[v].call.number /\ o = job'[v].call.owner
    BY Zenon
  <2>2. CASE v # w
    <3>1. job'[v] = job[v] /\ Piping(job[v])
      BY Zenon, <1>2, <1>6, <2>2 DEF Piping
    <3>2. job[v].call \in Call
      BY Zenon, <3>1 DEF JobData, HasData, Piping
    <3>3. n \in Number /\ Spent(n) /\ Under(n, o)
      BY Zenon, <2>1, <3>1, <3>2 DEF Traced, Call
    <3>4. Spent(n)' /\ Under(n, o)'
      BY Zenon, <1>4, <3>3
    <3> QED
      BY Zenon, <2>1, <3>4 DEF Spent, Issued, Under
  <2>3. CASE v = w /\ Piping(job[w]) /\ j.call = job[w].call
    <3>1. job[w].call \in Call /\ n = job[w].call.number /\ o = job[w].call.owner
      BY Zenon, <1>2, <2>1, <2>3 DEF JobData, HasData, Piping
    <3>2. n \in Number /\ Spent(n) /\ Under(n, o)
      BY Zenon, <2>3, <3>1 DEF Traced, Call
    <3>3. Spent(n)' /\ Under(n, o)'
      BY Zenon, <1>4, <3>2
    <3> QED
      BY Zenon, <2>1, <3>3 DEF Spent, Issued, Under
  <2>4. CASE v = w /\ ~(Piping(job[w]) /\ j.call = job[w].call)
    <3>1. Piping(j)
      BY Zenon, <1>2, <1>6, <2>4 DEF Piping
    <3>2. Counts(w, j)
      BY Zenon, <2>4, <3>1 DEF LedgerStep, Keeps, Takes, Enters, Removes, GivesBack, Ends, Piping
    <3>3. PICK x \in Id : x = job[w].id
      BY Zenon, <3>2 DEF Counts, JobData, HasData
    <3>4. /\ calls[x] # None /\ o = calls[x].owner /\ job[w].at = "index"
          /\ n = job[w].number \/ n = calls[x].number
      BY Zenon, <1>2, <2>1, <2>4, <3>1, <3>2, <3>3 DEF Counts
    <3>5. /\ Spent(job[w].number) /\ Only(job[w].number, x)
          /\ job[w].number \in Number /\ calls[x].number \in Number
      BY Zenon, <3>3, <3>4, NumberFacts DEF Traced, At, JobData, HasData
    <3>6. Spent(n) /\ Under(n, o)
      <4>1. CASE n = job[w].number
        BY Zenon, <3>4, <3>5, <4>1 DEF Only, Under
      <4>2. CASE n = calls[x].number
        <5>1. CallOK(x) /\ \A u \in Worker : Reserved(job[u]) => ReservedOK(u)
          BY Zenon, <3>4 DEF NumbersOK
        <5> QED
          BY Zenon, <3>4, <4>2, <5>1 DEF CallOK, ReservedOK, Spent, Under
      <4> QED
        BY Zenon, <3>4, <4>1, <4>2
    <3>7. Spent(n)' /\ Under(n, o)'
      BY Zenon, <1>4, <3>4, <3>5, <3>6
    <3> QED
      BY Zenon, <2>1, <3>7 DEF Spent, Issued, Under
  <2> QED
    BY Zenon, <2>2, <2>3, <2>4
<1>7. ASSUME NEW x \in Id, pipes'[x] # None
      PROVE  (Spent(pipes[x].number) /\ Under(pipes[x].number, pipes[x].owner))'
  <2>1. PICK n, o : n = pipes'[x].number /\ o = pipes'[x].owner
    BY Zenon
  <2>2. CASE pipes'[x] = pipes[x]
    <3>1. pipes[x] \in Pipe
      BY Zenon, <1>7, <2>2 DEF RegistryOK
    <3>2. n \in Number /\ Spent(n) /\ Under(n, o)
      BY Zenon, <1>7, <2>1, <2>2, <3>1 DEF Traced, Pipe
    <3>3. Spent(n)' /\ Under(n, o)'
      BY Zenon, <1>4, <3>2
    <3> QED
      BY Zenon, <2>1, <3>3 DEF Spent, Issued, Under
  <2>3. CASE pipes'[x] # pipes[x]
    <3>1. Keeps(w, j)
      BY Zenon, <2>3 DEF LedgerStep, Takes, Enters, Counts, Removes, GivesBack
    <3>2. Piping(job[w]) /\ n = job[w].call.number /\ o = job[w].call.owner
      BY Zenon, <1>7, <2>1, <2>3, <3>1 DEF Keeps
    <3>3. job[w].call \in Call
      BY Zenon, <3>2 DEF JobData, HasData, Piping
    <3>4. n \in Number /\ Spent(n) /\ Under(n, o)
      BY Zenon, <3>2, <3>3 DEF Traced, Call
    <3>5. Spent(n)' /\ Under(n, o)'
      BY Zenon, <1>4, <3>4
    <3> QED
      BY Zenon, <2>1, <3>5 DEF Spent, Issued, Under
  <2> QED
    BY Zenon, <2>2, <2>3
<1> QED
  BY Zenon, <1>5, <1>6, <1>7 DEF Traced

LEMMA ClaimsStep ==
  ASSUME IInv, ClaimsOK, Kept, NEW w \in Worker, NEW j, LedgerStep(w, j)
  PROVE  ClaimsOK'
<1>1. IdentityOK /\ RegistryOK /\ JobOK /\ JobData
  BY Zenon DEF IInv
<1>2. job' = [job EXCEPT ![w] = j] /\ Claims(w, j)
  BY Zenon DEF LedgerStep, Keeps, Takes, Enters, Counts, Removes, GivesBack, Passes
<1>3. job'[w] = j /\ \A v \in Worker : v # w => job'[v] = job[v]
  BY Zenon, <1>1, <1>2, Others
<1>4. /\ \A d \in Conn : conn[d].client \in Conn
      /\ \A d \in Conn : conn[d].key # None => conn'[d].key # None
  BY Zenon, <1>1 DEF IdentityOK, Connection, Kept
<1>5. \A d \in Conn : conn'[d].key # None => conn'[conn'[d].client].key # None
  BY Zenon, <1>4 DEF ClaimsOK, Kept
<1>6. \A v \in Worker : job'[v].claimed =>
        job'[v].client \in Conn /\ conn'[job'[v].client].key # None
  BY <1>2, <1>3, <1>4 DEF ClaimsOK, Claims
<1>7. ASSUME NEW x \in Id, calls'[x] # None, calls'[x].claimed
      PROVE  conn'[calls'[x].owner].key # None
  <2>1. CASE calls'[x] = calls[x]
    <3>1. calls[x].owner \in Conn
      BY Zenon, <1>1, <1>7, <2>1 DEF RegistryOK, Call
    <3> QED
      BY Zenon, <1>4, <1>7, <2>1, <3>1 DEF ClaimsOK
  <2>2. CASE Enters(w, j)
    <3>1. CASE x = job[w].id
      <4>1. calls'[x] = CallOf(job[w])
        BY Zenon, <1>1, <2>2, <3>1 DEF Enters, RegistryOK
      <4>2. job[w].claimed /\ calls'[x].owner = job[w].client
        BY <1>7, <4>1 DEF CallOf
      <4> QED
        BY Zenon, <1>4, <4>2 DEF ClaimsOK
    <3>2. CASE x # job[w].id
      BY Zenon, <1>1, <2>1, <2>2, <3>2 DEF Enters, RegistryOK
    <3> QED
      BY Zenon, <3>1, <3>2
  <2>3. CASE \E y \in Id : Removes(w, j, y)
    BY Zenon, <1>1, <1>7, <2>1, <2>3 DEF Removes, RegistryOK
  <2> QED
    BY Zenon, <2>1, <2>2, <2>3 DEF LedgerStep, Keeps, Takes, Counts, GivesBack
<1> QED
  BY Zenon, <1>5, <1>6, <1>7 DEF ClaimsOK

LEMMA ChanStep ==
  ASSUME IInv, IInv', NumbersOK, Traced, ClaimsOK, ChanOK, Kept, \A x \in Id : Wired(x),
         NEW w \in Worker, NEW j, LedgerStep(w, j)
  PROVE  ChanOK'
<1>1. IdentityOK /\ RegistryOK /\ JobOK /\ JobData /\ RowShape /\ IdentityOK' /\ RowShape'
  BY Zenon DEF IInv
<1> SUFFICES ASSUME NEW x \in Id, NEW k \in Key,
                    pipes'[x] # None, calls'[x] # None, pipes'[x].number = calls'[x].number,
                    calls'[x].claimed,
                    controllers'[k] # None, controllers'[k].client = pipes'[x].owner
             PROVE  pipes'[x].chan = sinks'[pipes'[x].owner].chan
  BY Zenon DEF ChanOK
<1>2. PICK o : o = pipes'[x].owner
  BY Zenon
<1>3. sinks'[o] # None
  <2>1. controllers'[k] \in Row
    BY Zenon, <1>1 DEF IdentityOK
  <2>2. RowOK(k, controllers[k])'
    BY <1>1, <2>1, Zenon DEF RowShape
  <2> QED
    BY <1>2, <2>2, Zenon DEF RowOK
<1>4. CASE pipes'[x] = pipes[x]
  <2>1. pipes[x] # None /\ pipes[x] \in Pipe
    BY Zenon, <1>1, <1>4 DEF RegistryOK
  <2>2. pipes[x].number \in Number /\ o \in Conn
    BY Zenon, <1>2, <1>4, <2>1 DEF Pipe
  <2>3. Spent(pipes[x].number) /\ Under(pipes[x].number, o)
    BY Zenon, <1>2, <1>4, <2>1 DEF Traced
  <2>4. calls[x] # None /\ calls[x] = calls'[x]
    BY Zenon, <1>1, <1>4, <2>2, <2>3, SpentStays
  <2>5. calls[x].owner = o
    BY Zenon, <1>4, <2>3, <2>4 DEF Under
  <2>6. conn[o].key # None
    BY Zenon, <2>4, <2>5 DEF ClaimsOK
  <2>7. controllers[k] # None /\ controllers[k].client = o
    BY Zenon, <1>2, <2>2, <2>6 DEF Kept
  <2>8. pipes[x].chan = sinks[o].chan
    BY <1>2, <1>4, <2>1, <2>4, <2>7 DEF ChanOK
  <2>9. sinks[o] # None
    <3>1. controllers[k] \in Row
      BY Zenon, <1>1, <2>7 DEF IdentityOK
    <3> QED
      BY Zenon, <1>1, <2>7, <3>1 DEF RowShape, RowOK
  <2>10. sinks'[o].chan = sinks[o].chan
    BY Zenon, <1>3, <2>2, <2>6, <2>9 DEF Kept
  <2> QED
    BY Zenon, <1>2, <1>4, <2>8, <2>10
<1>5. CASE pipes'[x] # pipes[x]
  BY Zenon, <1>2, <1>3, <1>5 DEF Wired, identity
<1> QED
  BY Zenon, <1>4, <1>5

(* When no task moves, the registry stays.                                 *)
LEMMA ChanUnmoved ==
  ASSUME IInv, IInv', Traced, ClaimsOK, ChanOK, Kept, UNCHANGED <<registry, job>>
  PROVE  Traced' /\ ClaimsOK' /\ ChanOK'
<1>1. /\ UNCHANGED <<clientCalls, calls, pipes, backed, asked, job>>
      /\ IdentityOK /\ RegistryOK /\ RowShape /\ IdentityOK' /\ RowShape'
  BY Zenon DEF IInv, registry
<1>2. Traced'
  BY <1>1 DEF Traced, Spent, Issued, Only, Under, At
<1>3. /\ \A d \in Conn : conn[d].client \in Conn
      /\ \A d \in Conn : conn[d].key # None => conn'[d].key # None
      /\ \A x \in Id : calls[x] # None => calls[x].owner \in Conn
  BY <1>1 DEF IdentityOK, RegistryOK, Connection, Call, Kept
<1>4. \A d \in Conn : conn'[d].key # None => conn'[conn'[d].client].key # None
  BY <1>3 DEF ClaimsOK, Kept
<1>5. ClaimsOK'
  BY Zenon, <1>1, <1>3, <1>4 DEF ClaimsOK
<1>6. ASSUME NEW x \in Id, NEW k \in Key,
             pipes[x] # None, calls[x] # None, pipes[x].number = calls[x].number,
             calls[x].claimed,
             controllers'[k] # None, controllers'[k].client = pipes[x].owner
      PROVE  pipes[x].chan = sinks'[pipes[x].owner].chan
  <2>1. PICK o : o = pipes[x].owner
    BY Zenon
  <2>2. o = calls[x].owner /\ o \in Conn /\ conn[o].key # None
    BY Zenon, <1>3, <1>6, <2>1 DEF Traced, Under, ClaimsOK
  <2>3. controllers[k] # None /\ controllers[k].client = o
    BY <1>6, <2>1, <2>2 DEF Kept
  <2>4. pipes[x].chan = sinks[o].chan
    BY Zenon, <1>6, <2>1, <2>3 DEF ChanOK
  <2>5. controllers[k] \in Row /\ controllers'[k] \in Row
    BY Zenon, <1>1, <1>6, <2>3 DEF IdentityOK
  <2>6. sinks[o] # None /\ sinks'[o] # None
    BY <1>1, <1>6, <2>1, <2>3, <2>5 DEF RowShape, RowOK
  <2> QED
    BY Zenon, <2>1, <2>2, <2>4, <2>6 DEF Kept
<1>7. ChanOK'
  BY Zenon, <1>1, <1>6 DEF ChanOK
<1> QED
  BY Zenon, <1>2, <1>5, <1>7

----------------------------------------------------------------------------
LEMMA SameQuota ==
  ASSUME NEW c \in Conn, FiniteOK(c), Covers(c), clientCalls'[c] = clientCalls[c],
         Indexing(c)' = Indexing(c), Registered(c)' = Registered(c), Owed(c)' = Owed(c)
  PROVE  FiniteOK(c)' /\ Covers(c)'
BY Zenon DEF FiniteOK, Covers

LEMMA KeepsQuota ==
  ASSUME RegistryOK, JobOK, JobData, QuotaOK, Counting, NEW w \in Worker, NEW j,
         Keeps(w, j) \/ \E d \in Conn : Takes(w, j, d)
  PROVE  QuotaOK'
<1>1. job'[w] = j /\ \A v \in Worker : v # w => job'[v] = job[v]
  BY Others DEF Keeps, Passes, Takes
<1>2. /\ UNCHANGED <<calls, clientCalls>>
      /\ job[w].at # "index" /\ j.at # "index" /\ (Ends(j) <=> Ends(job[w]))
      /\ Ends(j) => j.call = job[w].call
  BY Zenon DEF Keeps, Takes, Ends
<1>3. ASSUME NEW c \in Conn
      PROVE  Indexing(c)' = Indexing(c) /\ Registered(c)' = Registered(c) /\ Owed(c)' = Owed(c)
  BY Zenon, <1>1, <1>2 DEF Indexing, Registered, Owed, At, Ends
<1> QED
  BY Zenon, <1>2, <1>3, SameQuota DEF QuotaOK

LEMMA EntersQuota ==
  ASSUME RegistryOK, JobOK, JobData, QuotaOK, Counting, NEW w \in Worker, NEW j, Enters(w, j)
  PROVE  QuotaOK'
<1>1. job'[w] = j /\ \A v \in Worker : v # w => job'[v] = job[v]
  BY Zenon, Others DEF Enters, Passes
<1> DEFINE x == job[w].id
<1>2. /\ clientCalls' = clientCalls /\ x \in Id
      /\ job[w].at # "index" /\ j.at = "index" /\ ~Ends(j) /\ ~Ends(job[w])
      /\ j.client = job[w].client
  BY Zenon DEF Enters, Ends, JobData, HasData
<1>3. /\ \A y \in Id : y # x => calls'[y] = calls[y]
      /\ calls'[x].owner = j.client
  BY Zenon, <1>2 DEF Enters, RegistryOK, CallOf
<1> HIDE DEF x
<1>4. ASSUME NEW c \in Conn PROVE FiniteOK(c)' /\ Covers(c)'
  <2>1. FiniteOK(c) /\ Covers(c) /\ clientCalls[c] \in Nat
    BY Zenon DEF QuotaOK, RegistryOK
  <2>n. /\ Cardinality(Indexing(c)) \in Nat /\ Cardinality(Registered(c)) \in Nat
        /\ Cardinality(Owed(c)) \in Nat
    BY Zenon, <2>1 DEF Counting, Counted, FiniteOK
  <2>2. Owed(c)' = Owed(c)
    BY Zenon, <1>1, <1>2 DEF Owed, Ends
  <2>3. CASE j.client = c
    <3>1. Indexing(c)' = Indexing(c) \cup {w} /\ w \notin Indexing(c)
      BY Zenon, <1>1, <1>2, <2>3 DEF Indexing, At
    <3>2. Registered(c)' = Registered(c) \cup {x} \/ Registered(c)' = Registered(c) \ {x}
      BY <1>2, <1>3, <2>3 DEF Registered
    <3>3. /\ IsFiniteSet(Indexing(c)')
          /\ Cardinality(Indexing(c)') = Cardinality(Indexing(c)) + 1
      BY Zenon, <2>1, <3>1 DEF Counting, Grow, FiniteOK
    <3>4. /\ IsFiniteSet(Registered(c)') /\ Cardinality(Registered(c)') \in Nat
          /\ Cardinality(Registered(c)') <= Cardinality(Registered(c)) + 1
      <4>1. CASE Registered(c)' = Registered(c) \cup {x}
        BY Zenon, <2>1, <4>1 DEF Counting, Grow, FiniteOK
      <4>2. CASE Registered(c)' = Registered(c) \ {x}
        <5>1. /\ IsFiniteSet(Registered(c)') /\ Cardinality(Registered(c)') \in Nat
              /\ Cardinality(Registered(c)') <= Cardinality(Registered(c))
          BY Zenon, <2>1, <4>2 DEF Counting, Shrink, FiniteOK
        <5> QED
          BY <2>n, <5>1
      <4> QED
        BY Zenon, <3>2, <4>1, <4>2
    <3> QED
      BY <1>2, <2>1, <2>n, <2>2, <3>3, <3>4 DEF FiniteOK, Covers
  <2>4. CASE j.client # c
    <3>1. Indexing(c)' = Indexing(c)
      BY Zenon, <1>1, <1>2, <2>4 DEF Indexing, At
    <3>2. Registered(c)' = Registered(c) \ {x}
      BY Zenon, <1>2, <1>3, <2>4 DEF Registered
    <3>3. /\ IsFiniteSet(Registered(c)') /\ Cardinality(Registered(c)') \in Nat
          /\ Cardinality(Registered(c)') <= Cardinality(Registered(c))
      BY Zenon, <2>1, <3>2 DEF Counting, Shrink, FiniteOK
    <3> QED
      BY <1>2, <2>1, <2>n, <2>2, <3>1, <3>3 DEF FiniteOK, Covers
  <2> QED
    BY Zenon, <2>3, <2>4
<1> QED
  BY Zenon, <1>4 DEF QuotaOK

LEMMA CountsQuota ==
  ASSUME RegistryOK, JobOK, JobData, QuotaOK, Counting, NEW w \in Worker, NEW j, Counts(w, j)
  PROVE  QuotaOK'
<1>1. job'[w] = j /\ \A v \in Worker : v # w => job'[v] = job[v]
  BY Zenon, Others DEF Counts, Passes
<1>2. /\ calls' = calls /\ job[w].client \in Conn
      /\ job[w].at = "index" /\ j.at # "index" /\ ~Ends(j) /\ ~Ends(job[w])
      /\ clientCalls' = [clientCalls EXCEPT ![job[w].client] = @ + 1]
  BY Zenon DEF Counts, Ends, JobData, HasData
<1>3. ASSUME NEW c \in Conn PROVE FiniteOK(c)' /\ Covers(c)'
  <2>1. FiniteOK(c) /\ Covers(c) /\ clientCalls[c] \in Nat
    BY Zenon DEF QuotaOK, RegistryOK
  <2>n. /\ Cardinality(Indexing(c)) \in Nat /\ Cardinality(Registered(c)) \in Nat
        /\ Cardinality(Owed(c)) \in Nat
    BY Zenon, <2>1 DEF Counting, Counted, FiniteOK
  <2>2. Owed(c)' = Owed(c) /\ Registered(c)' = Registered(c)
    BY Zenon, <1>1, <1>2 DEF Owed, Ends, Registered
  <2>3. CASE job[w].client = c
    <3>1. Indexing(c)' = Indexing(c) \ {w} /\ w \in Indexing(c)
      BY Zenon, <1>1, <1>2, <2>3 DEF Indexing, At
    <3>2. clientCalls'[c] = clientCalls[c] + 1
      BY Zenon, <1>2, <2>3 DEF RegistryOK
    <3>3. /\ IsFiniteSet(Indexing(c)')
          /\ Cardinality(Indexing(c)') = Cardinality(Indexing(c)) - 1
      BY Zenon, <2>1, <3>1 DEF Counting, Shrink, FiniteOK
    <3> QED
      BY <2>1, <2>n, <2>2, <3>2, <3>3 DEF FiniteOK, Covers
  <2>4. CASE job[w].client # c
    <3>1. Indexing(c)' = Indexing(c) /\ clientCalls'[c] = clientCalls[c]
      BY Zenon, <1>1, <1>2, <2>4 DEF Indexing, At, RegistryOK
    <3> QED
      BY Zenon, <2>1, <2>2, <3>1, SameQuota
  <2> QED
    BY Zenon, <2>3, <2>4
<1> QED
  BY Zenon, <1>3 DEF QuotaOK

LEMMA RemovesQuota ==
  ASSUME RegistryOK, JobOK, JobData, QuotaOK, Counting, NEW w \in Worker, NEW j, NEW x \in Id,
         Removes(w, j, x)
  PROVE  QuotaOK'
<1>1. job'[w] = j /\ \A v \in Worker : v # w => job'[v] = job[v]
  BY Zenon, Others DEF Removes, Passes
<1>2. /\ clientCalls' = clientCalls /\ calls[x] # None
      /\ job[w].at # "index" /\ j.at # "index" /\ Ends(j) /\ ~Ends(job[w]) /\ j.call = calls[x]
  BY Zenon DEF Removes, Ends
<1>3. calls'[x] = None /\ \A y \in Id : y # x => calls'[y] = calls[y]
  BY Zenon DEF Removes, RegistryOK
<1>4. ASSUME NEW c \in Conn PROVE FiniteOK(c)' /\ Covers(c)'
  <2>1. FiniteOK(c) /\ Covers(c) /\ clientCalls[c] \in Nat
    BY Zenon DEF QuotaOK, RegistryOK
  <2>n. /\ Cardinality(Indexing(c)) \in Nat /\ Cardinality(Registered(c)) \in Nat
        /\ Cardinality(Owed(c)) \in Nat
    BY Zenon, <2>1 DEF Counting, Counted, FiniteOK
  <2>2. Indexing(c)' = Indexing(c)
    BY Zenon, <1>1, <1>2 DEF Indexing, At
  <2>3. CASE calls[x].owner = c
    <3>1. Registered(c)' = Registered(c) \ {x} /\ x \in Registered(c)
      BY Zenon, <1>2, <1>3, <2>3 DEF Registered
    <3>2. Owed(c)' = Owed(c) \cup {w} /\ w \notin Owed(c)
      BY Zenon, <1>1, <1>2, <2>3 DEF Owed, Ends
    <3>3. /\ IsFiniteSet(Registered(c)')
          /\ Cardinality(Registered(c)') = Cardinality(Registered(c)) - 1
      BY Zenon, <2>1, <3>1 DEF Counting, Shrink, FiniteOK
    <3>4. IsFiniteSet(Owed(c)') /\ Cardinality(Owed(c)') = Cardinality(Owed(c)) + 1
      BY Zenon, <2>1, <3>2 DEF Counting, Grow, FiniteOK
    <3> QED
      BY <1>2, <2>1, <2>n, <2>2, <3>3, <3>4 DEF FiniteOK, Covers
  <2>4. CASE calls[x].owner # c
    <3>1. Registered(c)' = Registered(c) /\ Owed(c)' = Owed(c)
      BY <1>1, <1>2, <1>3, <2>4 DEF Registered, Owed, Ends
    <3> QED
      BY Zenon, <1>2, <2>1, <2>2, <3>1, SameQuota
  <2> QED
    BY Zenon, <2>3, <2>4
<1> QED
  BY Zenon, <1>4 DEF QuotaOK

LEMMA GivesBackQuota ==
  ASSUME RegistryOK, JobOK, JobData, QuotaOK, Counting, NEW w \in Worker, NEW j, GivesBack(w, j)
  PROVE  QuotaOK'
<1>1. job'[w] = j /\ \A v \in Worker : v # w => job'[v] = job[v]
  BY Zenon, Others DEF GivesBack, Passes
<1> DEFINE o == job[w].call.owner
<1>2. /\ calls' = calls /\ o \in Conn
      /\ job[w].at # "index" /\ j.at # "index" /\ ~Ends(j) /\ Ends(job[w])
      /\ clientCalls' = [clientCalls EXCEPT ![o] = IF @ = 0 THEN 0 ELSE @ - 1]
  BY Zenon, NumberFacts DEF GivesBack, Ends, Call
<1>3. ASSUME NEW c \in Conn PROVE FiniteOK(c)' /\ Covers(c)'
  <2>1. FiniteOK(c) /\ Covers(c) /\ clientCalls[c] \in Nat
    BY Zenon DEF QuotaOK, RegistryOK
  <2>n. /\ Cardinality(Indexing(c)) \in Nat /\ Cardinality(Registered(c)) \in Nat
        /\ Cardinality(Owed(c)) \in Nat
    BY Zenon, <2>1 DEF Counting, Counted, FiniteOK
  <2>2. Indexing(c)' = Indexing(c) /\ Registered(c)' = Registered(c)
    BY Zenon, <1>1, <1>2 DEF Indexing, Registered, At
  <2>3. CASE o = c
    <3>1. Owed(c)' = Owed(c) \ {w} /\ w \in Owed(c)
      BY Zenon, <1>1, <1>2, <2>3 DEF Owed, Ends
    <3>2. clientCalls'[c] \in Nat /\ clientCalls'[c] >= clientCalls[c] - 1
      BY <1>2, <2>1, <2>3 DEF RegistryOK
    <3>3. IsFiniteSet(Owed(c)') /\ Cardinality(Owed(c)') = Cardinality(Owed(c)) - 1
      BY Zenon, <2>1, <3>1 DEF Counting, Shrink, FiniteOK
    <3> QED
      BY <2>1, <2>n, <2>2, <3>2, <3>3 DEF FiniteOK, Covers
  <2>4. CASE o # c
    <3>1. Owed(c)' = Owed(c) /\ clientCalls'[c] = clientCalls[c]
      BY Zenon, <1>1, <1>2, <2>4 DEF Owed, Ends, RegistryOK
    <3> QED
      BY Zenon, <2>1, <2>2, <3>1, SameQuota
  <2> QED
    BY Zenon, <2>3, <2>4
<1> QED
  BY Zenon, <1>3 DEF QuotaOK

LEMMA LedgerQuota ==
  ASSUME RegistryOK, JobOK, JobData, QuotaOK, Counting, NEW w \in Worker, NEW j, LedgerStep(w, j)
  PROVE  QuotaOK'
BY Zenon, KeepsQuota, EntersQuota, CountsQuota, RemovesQuota, GivesBackQuota DEF LedgerStep

----------------------------------------------------------------------------
(* What a claim settles.                                                   *)

LEMMA DeregisterKeeps ==
  ASSUME IdentityOK, NEW client \in Conn, NEW c, Deregister(client, c)
  PROVE  \A d \in Conn : sinks'[d] \in {None, sinks[d]}
BY Zenon DEF Deregister, IdentityOK

LEMMA AttachKept ==
  ASSUME IInv, NEW c \in Conn, AttachRow(c)
  PROVE  Kept
<1>1. IdentityOK /\ ConnShape /\ RowShape
  BY Zenon DEF IInv
<1> DEFINE k == job[Loop(c)].key
<1>2. conn[c].key = None /\ conn[c].client = c /\ k \in Key
  BY Zenon, <1>1 DEF AttachRow, ConnShape, ConnOK, At
<1>3. PICK row : row = IF controllers[k] = None THEN [client |-> c, attached |-> None]
                       ELSE controllers[k]
  BY Zenon
<1>4. /\ Register(row.client, c)
      /\ controllers' = [controllers EXCEPT ![k] = [row EXCEPT !.attached = c]]
      /\ conn' = [conn EXCEPT ![c].client = row.client, ![c].key = k,
                              ![c].chan = sinks'[row.client].chan]
  BY <1>2, <1>3, Zenon DEF AttachRow
<1>5. row \in Row
  BY Zenon, <1>1, <1>2, <1>3 DEF IdentityOK, Row
<1>6. row.client \in Conn /\ (row.client = c \/ conn[row.client].key # None)
  <2>1. row.client \in Conn
    BY Zenon, <1>5 DEF Row
  <2>2. CASE controllers[k] = None
    <3>1. row = [client |-> c, attached |-> None]
      BY Zenon, <1>3, <2>2
    <3> QED
      BY Zenon, <3>1, <2>1
  <2>3. CASE controllers[k] # None
    <3>1. row = controllers[k] /\ RowOK(k, row)
      BY <1>1, <1>2, <1>3, <1>5, <2>3, Zenon DEF RowShape
    <3>2. conn[row.client].key = k /\ k # None
      BY Zenon, <1>2, <3>1, ControlAssumption DEF RowOK
    <3> QED
      BY <2>1, <3>2, Zenon
  <2> QED
    BY Zenon, <2>2, <2>3
<1>7. /\ \A d \in Conn : d # c => conn'[d] = conn[d]
      /\ conn'[c].key = k /\ conn'[c].client = row.client
  BY <1>1, <1>4 DEF IdentityOK, Connection
<1>8. \A d \in Conn : conn[d].key # None => d # c
  BY Zenon, <1>2
<1>9. \A d \in Conn, i \in Key :
        conn[d].key # None /\ controllers'[i] # None /\ controllers'[i].client = d =>
          controllers[i] # None /\ controllers[i].client = d
  <2> SUFFICES ASSUME NEW d \in Conn, NEW i \in Key, conn[d].key # None,
                      controllers'[i] # None, controllers'[i].client = d
               PROVE  controllers[i] # None /\ controllers[i].client = d
    BY Zenon
  <2>1. CASE i # k
    BY Zenon, <1>1, <1>2, <1>4, <2>1 DEF IdentityOK
  <2>2. CASE i = k
    <3>1. controllers'[i].client = row.client
      BY Zenon, <1>1, <1>2, <1>4, <1>5, <2>2 DEF IdentityOK, Row
    <3> QED
      BY Zenon, <1>3, <1>8, <2>2, <3>1
  <2> QED
    BY Zenon, <2>1, <2>2
<1>10. \A d \in Conn : sinks[d] # None => sinks'[d].chan = sinks[d].chan
  BY <1>1, <1>4, <1>6 DEF Register, IdentityOK, Sink
<1>11. \A d \in Conn : conn[d].key # None =>
         conn'[d].key # None /\ conn'[d].client = conn[d].client
  BY Zenon, <1>7, <1>8
<1>12. \A d \in Conn : conn[d].key = None /\ conn'[d].key # None =>
         conn'[conn'[d].client].key # None
  BY <1>2, <1>6, <1>7, ControlAssumption
<1> QED
  BY Zenon, <1>9, <1>10, <1>11, <1>12 DEF Kept

LEMMA OwnKept ==
  ASSUME IInv, NEW c \in Conn,
         Connect(c) \/ ClaimAdmitted(c) \/ ClaimRefused(c) \/ (\E k \in Key : Claim(c, k))
  PROVE  Kept
<1>1. IdentityOK /\ ConnShape
  BY Zenon DEF IInv
<1>2. conn[c].key = None /\ conn[c].client = c
  BY Zenon, <1>1 DEF Connect, ClaimAdmitted, ClaimRefused, Claim, ConnShape, ConnOK, At
<1>3. controllers' = controllers
  BY Zenon DEF Connect, ClaimAdmitted, ClaimRefused, Claim, identity
<1>4. \A d \in Conn : d # c => sinks'[d] = sinks[d]
  BY Zenon, <1>1, <1>2
     DEF Connect, ClaimAdmitted, ClaimRefused, Claim, Register, Deregister, IdentityOK, identity
<1>5. \A d \in Conn : conn'[d].key = conn[d].key /\ conn'[d].client = conn[d].client
  <2>1. CASE \E ch : conn' = [conn EXCEPT ![c].state = "open", ![c].chan = ch]
    BY <1>1, <2>1 DEF IdentityOK, Connection
  <2>2. CASE \E ch : conn' = [conn EXCEPT ![c].chan = ch]
    BY <1>1, <2>2 DEF IdentityOK, Connection
  <2>3. CASE conn' = conn
    BY Zenon, <2>3
  <2> QED
    BY <2>1, <2>2, <2>3, Zenon DEF Connect, ClaimAdmitted, ClaimRefused, Claim, identity
<1> QED
  BY Zenon, <1>2, <1>3, <1>4, <1>5 DEF Kept

LEMMA LeaveKept ==
  ASSUME IInv, NEW c \in Conn, Publish(c) \/ Close(c) \/ Detach(c)
  PROVE  Kept
<1>1. IdentityOK
  BY Zenon DEF IInv
<1>2. \A d \in Conn : conn'[d].key = conn[d].key /\ conn'[d].client = conn[d].client
  BY <1>1 DEF Publish, Close, Detach, IdentityOK, Connection
<1>3. \A k \in Key : controllers'[k] # None =>
        controllers[k] # None /\ controllers'[k].client = controllers[k].client
  BY <1>1 DEF Publish, Close, Detach, IdentityOK, Row
<1>4. \A d \in Conn : sinks'[d] \in {None, sinks[d]}
  <2>1. conn[c].client \in Conn
    BY Zenon, <1>1 DEF IdentityOK, Connection
  <2> QED
    BY Zenon, <1>1, <2>1, DeregisterKeeps DEF Publish, Close, Detach
<1> QED
  BY Zenon, <1>2, <1>3, <1>4 DEF Kept

LEMMA ReapKept ==
  ASSUME IInv, NEW w \in Worker, ReapRow(w) \/ ReapRest(w)
  PROVE  Kept
<1>1. IdentityOK
  BY Zenon DEF IInv
<1>2. conn' = conn
  BY Zenon DEF ReapRow, ReapRest
<1>3. \A k \in Key : controllers'[k] \in {None, controllers[k]}
  BY Zenon, <1>1 DEF ReapRow, ReapRest, IdentityOK
<1>4. \A d \in Conn : sinks'[d] \in {None, sinks[d]}
  BY Zenon, <1>1 DEF ReapRow, ReapRest, IdentityOK
<1> QED
  BY Zenon, <1>2, <1>3, <1>4 DEF Kept

LEMMA NextKept ==
  ASSUME IInv, [Next]_vars
  PROVE  Kept /\ \A x \in Id : Wired(x)
<1>0. RegistryOK
  BY Zenon DEF IInv
<1>1. UNCHANGED identity => Kept
  BY Zenon DEF Kept, identity
<1>2. UNCHANGED pipes => \A x \in Id : Wired(x)
  BY Zenon DEF Wired
<1>3. ASSUME NEW c \in Conn, ConnectionStep(c) PROVE Kept /\ UNCHANGED pipes
  <2>1. CASE \E x \in Id : Offer(c, x) \/ AnswerLocal(c, x) \/ Delete(c, x)
    BY <1>1, <2>1, Zenon DEF Offer, AnswerLocal, Delete
  <2>2. CASE Connect(c) \/ ClaimAdmitted(c) \/ ClaimRefused(c) \/ \E k \in Key : Claim(c, k)
    BY <2>2, OwnKept, Zenon DEF Connect, ClaimAdmitted, ClaimRefused, Claim, registry
  <2>3. CASE AttachRow(c)
    BY <2>3, AttachKept, Zenon DEF AttachRow, registry
  <2>4. CASE Publish(c) \/ Close(c) \/ Detach(c)
    BY <2>4, LeaveKept, Zenon DEF Publish, Close, Detach, registry
  <2> QED
    BY Zenon, <1>3, <2>1, <2>2, <2>3, <2>4 DEF ConnectionStep
<1>4. ASSUME NEW w \in Worker, WorkerStep(w) PROVE Kept /\ \A x \in Id : Wired(x)
  <2>1. CASE ReapRow(w) \/ ReapRest(w)
    BY <1>2, <2>1, ReapKept, Zenon DEF ReapRow, ReapRest, registry
  <2>2. CASE PipeRegister(w)
    <3>1. UNCHANGED identity
      BY Zenon, <2>2 DEF PipeRegister
    <3>2. CASE UNCHANGED pipes
      BY Zenon, <1>1, <1>2, <3>1, <3>2
    <3>3. CASE pipes' = [pipes EXCEPT ![job[w].id] =
                  [number |-> job[w].call.number, owner |-> job[w].call.owner,
                   chan |-> IF sinks[job[w].call.owner] = None THEN None
                            ELSE sinks[job[w].call.owner].chan]]
      <4>1. \A x \in Id : Wired(x)
        BY Zenon, <1>0, <3>1, <3>3 DEF Wired, RegistryOK
      <4> QED
        BY Zenon, <1>1, <3>1, <4>1
    <3> QED
      BY Zenon, <2>2, <3>2, <3>3 DEF PipeRegister
  <2>3. CASE Unpipe(w)
    <3>1. UNCHANGED identity /\ pipes' = [pipes EXCEPT ![job[w].id] = None]
      BY Zenon, <2>3 DEF Unpipe
    <3>2. \A x \in Id : Wired(x)
      BY Zenon, <1>0, <3>1 DEF Wired, RegistryOK
    <3> QED
      BY Zenon, <1>1, <3>1, <3>2
  <2>4. CASE \/ ReplaceCheck(w) \/ ReplaceRemove(w) \/ Build(w) \/ LocalRemove(w)
             \/ LocalRegate(w) \/ Insert(w) \/ IndexNewCall(w) \/ TeardownCall(w)
             \/ PipeRedirect(w) \/ Free(w) \/ ReapCount(w)
    <3>1. UNCHANGED identity /\ UNCHANGED pipes
      BY <2>4, Zenon DEF ReplaceCheck, ReplaceRemove, Build, LocalRemove, LocalRegate, Insert,
         IndexNewCall, PipeRedirect, TeardownCall, Free, ReapCount, registry
    <3> QED
      BY Zenon, <1>1, <1>2, <3>1
  <2> QED
    BY Zenon, <1>4, <2>1, <2>2, <2>3, <2>4 DEF WorkerStep
<1>5. CASE (\E x \in Id : SweepFinds(x)) \/ ReapCall
  <2>1. UNCHANGED identity /\ UNCHANGED pipes
    BY <1>5, Zenon DEF SweepFinds, ReapCall, registry
  <2> QED
    BY Zenon, <1>1, <1>2, <2>1
<1>6. CASE UNCHANGED vars
  BY Zenon, <1>1, <1>2, <1>6 DEF vars, registry
<1> QED
  BY Zenon, <1>2, <1>3, <1>4, <1>5, <1>6 DEF Next

----------------------------------------------------------------------------
(* The records of the tasks.                                               *)

(* Where a task touches the identities.                                    *)
Special == {"claim", "row", "publish", "detach", "reapRest"}

(* One task moves on, away from the identities (a command, finish_call).   *)
Moves(w, j) ==
  j \in Job /\ HasData(j) /\ j.at \notin Special /\ job' = [job EXCEPT ![w] = j]

Quiet(w) ==
  UNCHANGED identity /\ job[w].at \notin Special /\ \E j : Moves(w, j)

LEMMA WorkerFacts ==
  /\ \A c \in Conn : Loop(c) \in Worker /\ Dial(c) \in Worker
  /\ Sweep \in Worker
  /\ \A c, d : Loop(c) = Loop(d) => c = d
  /\ \A c, d : Loop(c) # Dial(d)
BY Zenon DEF Worker, Loop, Dial, Sweep

LEMMA IdleJob == Idle \in Job /\ HasData(Idle) /\ Idle.at = "idle"
BY Zenon DEF Idle, Job, HasData, Labels, Follow

LEMMA ResumeJob ==
  ASSUME NEW j \in Job, HasData(j)
  PROVE  Resume(j) \in Job /\ HasData(Resume(j)) /\ Resume(j).at \in Follow
<1>1. CASE j.then = "idle"
  BY Zenon, <1>1, IdleJob DEF Resume, Follow
<1>2. CASE j.then # "idle"
  <2>1. j.id \in Id /\ j.client \in Conn /\ j.number \in Number
    BY Zenon, <1>2 DEF HasData
  <2> DEFINE r == [j EXCEPT !.at = j.then, !.call = None, !.key = None,
                            !.other = None, !.then = "idle"]
  <2>2. r \in Job
    BY Zenon DEF Job, Follow, Labels
  <2>3. /\ r.at = j.then /\ r.then = "idle" /\ r.id = j.id
        /\ r.client = j.client /\ r.number = j.number
    BY Zenon DEF Job
  <2>4. j.then \in {"build", "localRegate"}
    BY Zenon, <1>2 DEF Job, Follow
  <2> HIDE DEF r
  <2>5. HasData(r)
    BY Zenon, <2>1, <2>3, <2>4 DEF HasData
  <2>6. Resume(j) = r
    BY Zenon, <1>2 DEF Resume, r
  <2> QED
    BY Zenon, <2>2, <2>3, <2>4, <2>5, <2>6 DEF Follow
<1> QED
  BY Zenon, <1>1, <1>2

LEMMA EndJob ==
  ASSUME NEW j \in Job, NEW x \in Id, calls[x] \in Call, NEW next \in Follow,
         next # "idle" => j.client \in Conn /\ j.number \in Number
  PROVE  End(j, x, next) \in Job /\ HasData(End(j, x, next)) /\ End(j, x, next).at = "unpipe"
<1> DEFINE e == [j EXCEPT !.at = "unpipe", !.id = x, !.call = calls[x], !.then = next]
<1>1. e \in Job
  BY Zenon DEF Job, Labels
<1>2. /\ e.at = "unpipe" /\ e.id = x /\ e.call = calls[x] /\ e.then = next
      /\ e.client = j.client /\ e.number = j.number
  BY Zenon DEF Job
<1>3. End(j, x, next) = e
  BY Zenon DEF End
<1> HIDE DEF e
<1>4. HasData(e)
  BY Zenon, <1>2 DEF HasData
<1> QED
  BY Zenon, <1>1, <1>2, <1>3, <1>4

LEMMA LabelJob ==
  ASSUME NEW j \in Job, NEW label \in Labels
  PROVE  LET g == [j EXCEPT !.at = label]
         IN /\ g \in Job /\ g.at = label /\ g.id = j.id /\ g.client = j.client
            /\ g.number = j.number /\ g.call = j.call /\ g.other = j.other
            /\ g.then = j.then /\ g.key = j.key /\ g.claimed = j.claimed /\ g.verb = j.verb
BY DEF Job

LEMMA GoJob ==
  ASSUME job \in [Worker -> Job], NEW w \in Worker, NEW label, Go(w, label)
  PROVE  job' = [job EXCEPT ![w] = [job[w] EXCEPT !.at = label]]
BY Zenon DEF Go

----------------------------------------------------------------------------
(* The steps of commands, of the sweep and of finish_call.                 *)

LEMMA GoMoves ==
  ASSUME job \in [Worker -> Job], NEW w \in Worker, NEW label \in Labels \ Special, Go(w, label),
         HasData([job[w] EXCEPT !.at = label])
  PROVE  \E j : Moves(w, j)
<1> DEFINE g == [job[w] EXCEPT !.at = label]
<1>1. g \in Job /\ g.at = label
  BY LabelJob
<1>2. job' = [job EXCEPT ![w] = g]
  BY Zenon, GoJob
<1> HIDE DEF g
<1>3. Moves(w, g)
  BY Zenon, <1>1, <1>2 DEF Moves, g
<1> QED
  BY Zenon, <1>3

LEMMA DoneMoves ==
  ASSUME NEW w \in Worker, Done(w)
  PROVE  \E j : Moves(w, j)
BY Zenon, IdleJob DEF Done, Moves, Special

LEMMA ResumeMoves ==
  ASSUME job \in [Worker -> Job], NEW w \in Worker, HasData(job[w]),
         job' = [job EXCEPT ![w] = Resume(@)]
  PROVE  \E j : Moves(w, j)
<1>1. job' = [job EXCEPT ![w] = Resume(job[w])]
  BY Zenon
<1>2. job[w] \in Job
  BY Zenon
<1> QED
  BY Zenon, <1>1, <1>2, ResumeJob DEF Moves, Special, Follow

LEMMA EndMoves ==
  ASSUME job \in [Worker -> Job], RegistryOK, NEW w \in Worker, NEW x \in Id, calls[x] # None,
         NEW next \in Follow,
         next # "idle" => job[w].client \in Conn /\ job[w].number \in Number,
         job' = [job EXCEPT ![w] = End(@, x, next)]
  PROVE  \E j : Moves(w, j)
<1>1. job' = [job EXCEPT ![w] = End(job[w], x, next)]
  BY Zenon
<1>2. job[w] \in Job /\ calls[x] \in Call
  BY Zenon DEF RegistryOK
<1> QED
  BY Zenon, <1>1, <1>2, EndJob DEF Moves, Special

LEMMA CommandStep ==
  ASSUME job \in [Worker -> Job], RegistryOK, JobData, NEW w \in Worker,
         \/ ReplaceCheck(w) \/ ReplaceRemove(w) \/ Build(w)
         \/ LocalRemove(w) \/ LocalRegate(w) \/ Insert(w)
         \/ TeardownCall(w) \/ Unpipe(w)
  PROVE  RegistryOK' /\ Quiet(w)
<1> USE DEF At
<1>0. job[w] \in Job /\ HasData(job[w])
  BY Zenon DEF JobData
<1> DEFINE j == job[w]
           g(label) == [job[w] EXCEPT !.at = label]
<1>g. ASSUME NEW label \in Labels
      PROVE  /\ g(label).at = label /\ g(label).id = j.id /\ g(label).client = j.client
             /\ g(label).number = j.number /\ g(label).call = j.call
             /\ g(label).then = j.then
  BY <1>0, LabelJob
<1> HIDE DEF g
<1>1. CASE ReplaceCheck(w)
  <2>1. j.at = "replaceCheck" /\ j.id \in Id /\ j.client \in Conn /\ j.number \in Number
    BY Zenon, <1>0, <1>1 DEF ReplaceCheck, HasData
  <2>2. HasData(g("build")) /\ HasData(g("replaceRemove"))
    BY <2>1, <1>g DEF HasData, Labels
  <2>3. \E n : Moves(w, n)
    BY Zenon, <1>1, <2>2, GoMoves, DoneMoves DEF ReplaceCheck, Labels, Special, g
  <2>4. RegistryOK'
    BY Zenon, <1>1 DEF ReplaceCheck, registry, RegistryOK
  <2> QED
    BY Zenon, <2>1, <2>3, <2>4, <1>1 DEF Quiet, ReplaceCheck, Special
<1>2. CASE ReplaceRemove(w)
  <2>1. j.at = "replaceRemove" /\ j.id \in Id /\ j.client \in Conn /\ j.number \in Number
    BY Zenon, <1>0, <1>2 DEF ReplaceRemove, HasData
  <2>2. HasData(g("build"))
    BY <2>1, <1>g DEF HasData, Labels
  <2>3. \E n : Moves(w, n)
    BY Zenon, <1>2, <2>1, <2>2, GoMoves, EndMoves DEF ReplaceRemove, Labels, Special, Follow, g
  <2>4. RegistryOK'
    BY Zenon, <1>2, <2>1 DEF ReplaceRemove, RegistryOK
  <2> QED
    BY Zenon, <2>1, <2>3, <2>4, <1>2 DEF Quiet, ReplaceRemove, Special
<1>3. CASE Build(w)
  <2>1. j.at = "build" /\ j.id \in Id /\ j.client \in Conn /\ j.number \in Number
    BY Zenon, <1>0, <1>3 DEF Build, HasData
  <2>2. HasData(g("index"))
    BY <2>1, <1>g DEF HasData, Labels
  <2>3. \E n : Moves(w, n)
    BY Zenon, <1>3, <2>2, GoMoves, DoneMoves DEF Build, Labels, Special, g
  <2>4. CallOf(j) \in Call
    BY Zenon, <1>0, <2>1 DEF CallOf, Call, Job
  <2>5. RegistryOK'
    BY Zenon, <1>3, <2>1, <2>4 DEF Build, RegistryOK
  <2> QED
    BY Zenon, <2>1, <2>3, <2>5, <1>3 DEF Quiet, Build, Special
<1>4. CASE LocalRemove(w)
  <2>1. j.at = "localRemove" /\ j.id \in Id /\ j.client \in Conn /\ j.number \in Number
    BY Zenon, <1>0, <1>4 DEF LocalRemove, HasData
  <2>2. HasData(g("localRegate"))
    BY <2>1, <1>g DEF HasData, Labels
  <2>3. \E n : Moves(w, n)
    BY Zenon, <1>4, <2>1, <2>2, GoMoves, DoneMoves, EndMoves
       DEF LocalRemove, Labels, Special, Follow, g
  <2>4. RegistryOK'
    BY Zenon, <1>4, <2>1 DEF LocalRemove, RegistryOK
  <2> QED
    BY Zenon, <2>1, <2>3, <2>4, <1>4 DEF Quiet, LocalRemove, Special
<1>5. CASE LocalRegate(w)
  <2>1. j.at = "localRegate" /\ j.id \in Id /\ j.client \in Conn /\ j.number \in Number
    BY Zenon, <1>0, <1>5 DEF LocalRegate, HasData
  <2>2. HasData(g("insert"))
    BY <2>1, <1>g DEF HasData, Labels
  <2>3. \E n : Moves(w, n)
    BY Zenon, <1>5, <2>2, GoMoves, DoneMoves DEF LocalRegate, Labels, Special, g
  <2>4. RegistryOK'
    BY Zenon, <1>5, <2>1 DEF LocalRegate, RegistryOK
  <2> QED
    BY Zenon, <2>1, <2>3, <2>4, <1>5 DEF Quiet, LocalRegate, Special
<1>6. CASE Insert(w)
  <2>1. j.at = "insert" /\ j.id \in Id /\ j.client \in Conn /\ j.number \in Number
    BY Zenon, <1>0, <1>6 DEF Insert, HasData
  <2>2. HasData(g("index"))
    BY <2>1, <1>g DEF HasData, Labels
  <2>3. \E n : Moves(w, n)
    BY Zenon, <1>6, <2>2, GoMoves DEF Insert, Labels, Special, g
  <2>4. CallOf(j) \in Call
    BY Zenon, <1>0, <2>1 DEF CallOf, Call, Job
  <2>5. RegistryOK'
    BY Zenon, <1>6, <2>1, <2>4 DEF Insert, RegistryOK
  <2> QED
    BY Zenon, <2>1, <2>3, <2>5, <1>6 DEF Quiet, Insert, Special
<1>7. CASE TeardownCall(w)
  <2>1. j.at = "teardown" /\ j.id \in Id
    BY Zenon, <1>0, <1>7 DEF TeardownCall, HasData
  <2>2. \E n : Moves(w, n)
    BY Zenon, <1>7, <2>1, DoneMoves, EndMoves DEF TeardownCall, Follow
  <2>3. RegistryOK'
    BY Zenon, <1>7, <2>1 DEF TeardownCall, RegistryOK
  <2> QED
    BY Zenon, <2>1, <2>2, <2>3, <1>7 DEF Quiet, TeardownCall, Special
<1>8. CASE Unpipe(w)
  <2>1. j.at = "unpipe" /\ j.id \in Id /\ j.call \in Call
    BY Zenon, <1>0, <1>8 DEF Unpipe, HasData
  <2>2. HasData(g("free"))
    BY <1>0, <2>1, <1>g DEF HasData, Labels
  <2>3. \E n : Moves(w, n)
    BY Zenon, <1>8, <2>2, GoMoves DEF Unpipe, Labels, Special, g
  <2>4. RegistryOK'
    BY Zenon, <1>8, <2>1 DEF Unpipe, RegistryOK
  <2> QED
    BY Zenon, <2>1, <2>3, <2>4, <1>8 DEF Quiet, Unpipe, Special
<1> QED
  BY Zenon, <1>1, <1>2, <1>3, <1>4, <1>5, <1>6, <1>7, <1>8

LEMMA PipelineStep ==
  ASSUME IdentityOK, RegistryOK, JobOK, JobData, NEW w \in Worker,
         IndexNewCall(w) \/ PipeRedirect(w) \/ PipeRegister(w)
  PROVE  RegistryOK' /\ Quiet(w)
<1> USE DEF At
<1>0. /\ job \in [Worker -> Job] /\ RegistryOK /\ sinks \in [Conn -> Sink \cup {None}]
      /\ job[w] \in Job /\ HasData(job[w])
  BY Zenon DEF JobData, IdentityOK, JobOK
<1> DEFINE j == job[w]
           g(label) == [job[w] EXCEPT !.at = label]
<1>g. ASSUME NEW label \in Labels
      PROVE  /\ g(label).at = label /\ g(label).id = j.id /\ g(label).client = j.client
             /\ g(label).number = j.number /\ g(label).call = j.call
             /\ g(label).then = j.then
  BY <1>0, LabelJob
<1> HIDE DEF g
<1>t. ASSUME job' = [job EXCEPT ![w].at = "teardown", ![w].call = None],
             j.id \in Id, j.client \in Conn, j.number \in Number
      PROVE  \E n : Moves(w, n)
  <2> DEFINE p == [job[w] EXCEPT !.at = "teardown", !.call = None]
  <2>1. job' = [job EXCEPT ![w] = p]
    BY Zenon, <1>0, <1>t
  <2>2. /\ p \in Job /\ p.at = "teardown" /\ p.id = j.id /\ p.client = j.client
        /\ p.number = j.number /\ p.then = j.then
    BY Zenon, <1>0 DEF Job, Labels
  <2> HIDE DEF p
  <2>3. HasData(p)
    BY Zenon, <1>0, <1>t, <2>2 DEF HasData
  <2> QED
    BY Zenon, <2>1, <2>2, <2>3 DEF Moves, Special
<1>1. CASE IndexNewCall(w)
  <2>1. j.at = "index" /\ j.id \in Id /\ j.client \in Conn /\ j.number \in Number
    BY Zenon, <1>0, <1>1 DEF IndexNewCall, HasData
  <2>2. HasData(g("teardown"))
    BY <2>1, <1>0, <1>g DEF HasData, Labels
  <2>3. ASSUME j.verb = "offer" \/ calls[j.id] = None
      PROVE  \E n : Moves(w, n)
    BY Zenon, <1>0, <1>1, <2>2, <2>3, GoMoves, DoneMoves DEF IndexNewCall, Labels, Special, g
  <2>4. ASSUME j.verb # "offer" /\ calls[j.id] # None
      PROVE  \E n : Moves(w, n)
    <3> DEFINE n == IF j.verb = "wsOffer" THEN j.number ELSE calls[j.id].number
               f == [calls[j.id] EXCEPT !.number = n]
               p == [job[w] EXCEPT !.at = "pipe", !.call = f]
    <3>1. f \in Call
      BY <1>0, <2>1, <2>4 DEF RegistryOK, Call
    <3>2. job' = [job EXCEPT ![w] = p]
      BY Zenon, <1>0, <1>1, <2>4 DEF IndexNewCall
    <3> HIDE DEF f
    <3>3. /\ p \in Job /\ p.at = "pipe" /\ p.call = f /\ p.id = j.id /\ p.client = j.client
          /\ p.number = j.number /\ p.then = j.then
      BY Zenon, <1>0, <3>1 DEF Job, Labels
    <3> HIDE DEF p
    <3>4. HasData(p)
      BY Zenon, <2>1, <3>1, <3>3, <1>0 DEF HasData
    <3> QED
      BY Zenon, <3>2, <3>3, <3>4 DEF Moves, Special
  <2>5. RegistryOK'
    BY <1>0, <1>1, <2>1 DEF IndexNewCall, RegistryOK
  <2>6. \E n : Moves(w, n)
    BY Zenon, <2>3, <2>4
  <2> QED
    BY Zenon, <2>1, <2>5, <2>6, <1>1 DEF Quiet, IndexNewCall, Special
<1>2. CASE PipeRegister(w)
  <2>1. /\ j.at = "register" /\ j.id \in Id /\ j.client \in Conn /\ j.number \in Number
        /\ j.call \in Call
    BY Zenon, <1>0, <1>2 DEF PipeRegister, HasData
  <2>2. \/ /\ pipes' = [pipes EXCEPT ![j.id] =
                [number |-> j.call.number, owner |-> j.call.owner,
                 chan |-> IF sinks[j.call.owner] = None THEN None ELSE sinks[j.call.owner].chan]]
           /\ Done(w)
        \/ /\ job' = [job EXCEPT ![w].at = "teardown", ![w].call = None]
           /\ UNCHANGED pipes
    BY Zenon, <1>2 DEF PipeRegister
  <2>3. ASSUME Done(w)
      PROVE  \E n : Moves(w, n)
    BY Zenon, <2>3, DoneMoves
  <2>4. ASSUME job' = [job EXCEPT ![w].at = "teardown", ![w].call = None]
      PROVE  \E n : Moves(w, n)
    BY Zenon, <1>t, <2>1, <2>4
  <2>5. pipes' \in [Id -> Pipe \cup {None}]
    <3> DEFINE ch == IF sinks[j.call.owner] = None THEN None ELSE sinks[j.call.owner].chan
    <3>1. j.call.number \in Number /\ j.call.owner \in Conn
      BY Zenon, <2>1 DEF Call
    <3>2. ch \in Nat \cup {None}
      BY Zenon, <1>0, <3>1 DEF Sink
    <3> HIDE DEF ch
    <3>3. [number |-> j.call.number, owner |-> j.call.owner, chan |-> ch] \in Pipe
      BY Zenon, <3>1, <3>2 DEF Pipe
    <3> QED
      BY Zenon, <1>0, <2>1, <2>2, <3>3 DEF RegistryOK, ch
  <2>6. RegistryOK'
    BY Zenon, <1>0, <1>2, <2>5 DEF PipeRegister, RegistryOK
  <2>7. \E n : Moves(w, n)
    BY Zenon, <2>2, <2>3, <2>4
  <2> QED
    BY Zenon, <2>1, <2>6, <2>7, <1>2 DEF Quiet, PipeRegister, Special
<1>3. CASE PipeRedirect(w)
  <2>1. /\ j.at = "pipe" /\ j.id \in Id /\ j.client \in Conn /\ j.number \in Number
        /\ j.call \in Call
    BY Zenon, <1>0, <1>3 DEF PipeRedirect, HasData
  <2>2. HasData(g("register"))
    <3>1. "register" \in Labels
      BY Zenon DEF Labels
    <3>2. /\ g("register").at = "register" /\ g("register").id = j.id
          /\ g("register").client = j.client /\ g("register").number = j.number
          /\ g("register").call = j.call /\ g("register").then = j.then
      BY Zenon, <1>g, <3>1
    <3> QED
      BY Zenon, <1>0, <2>1, <3>2 DEF HasData
  <2>3. ASSUME Go(w, "register") PROVE \E n : Moves(w, n)
    BY Zenon, <1>0, <2>2, <2>3, GoMoves DEF Labels, Special, g
  <2>4. ASSUME job' = [job EXCEPT ![w].at = "teardown", ![w].call = None]
        PROVE  \E n : Moves(w, n)
    BY Zenon, <1>t, <2>1, <2>4
  <2>5. \E n : Moves(w, n)
    BY Zenon, <1>3, <2>3, <2>4 DEF PipeRedirect
  <2>6. RegistryOK'
    BY Zenon, <1>0, <1>3 DEF PipeRedirect, RegistryOK, registry
  <2> QED
    BY Zenon, <2>1, <2>5, <2>6, <1>3 DEF Quiet, PipeRedirect, Special
<1> QED
  BY Zenon, <1>1, <1>2, <1>3

LEMMA FreeStep ==
  ASSUME job \in [Worker -> Job], RegistryOK, JobData, NEW w \in Worker,
         Free(w) \/ ReapCount(w)
  PROVE  RegistryOK' /\ Quiet(w)
<1> USE DEF At
<1>0. job[w] \in Job /\ HasData(job[w])
  BY Zenon DEF JobData
<1>1. CASE Free(w)
  <2> DEFINE owner == job[w].call.owner
             p == [job[w] EXCEPT !.at = "reap", !.other = owner]
  <2>1. job[w].at = "free" /\ owner \in Conn
    BY Zenon, <1>0, <1>1 DEF Free, HasData, Call
  <2>2. job' = [job EXCEPT ![w] = IF clientCalls[owner] = 1 THEN p ELSE Resume(@)]
    BY Zenon, <1>1 DEF Free, ReleaseCall
  <2> HIDE DEF owner
  <2>3. /\ p \in Job /\ p.at = "reap" /\ p.other = owner /\ p.id = job[w].id
        /\ p.client = job[w].client /\ p.number = job[w].number /\ p.then = job[w].then
    BY Zenon, <1>0, <2>1 DEF Job, Labels
  <2> HIDE DEF p
  <2>4. HasData(p)
    BY Zenon, <1>0, <2>1, <2>3 DEF HasData
  <2>5. ASSUME clientCalls[owner] = 1
      PROVE  \E n : Moves(w, n)
    <3>1. job' = [job EXCEPT ![w] = p]
      BY Zenon, <2>2, <2>5
    <3> QED
      BY Zenon, <3>1, <2>3, <2>4 DEF Moves, Special
  <2>6. ASSUME clientCalls[owner] # 1
      PROVE  \E n : Moves(w, n)
    <3>1. job' = [job EXCEPT ![w] = Resume(@)]
      BY Zenon, <2>2, <2>6
    <3> QED
      BY Zenon, <3>1, <1>0, ResumeMoves
  <2>7. clientCalls' = [clientCalls EXCEPT ![owner] = IF @ = 0 THEN 0 ELSE @ - 1]
    BY Zenon, <1>1 DEF Free, ReleaseCall, owner
  <2>8. clientCalls' \in [Conn -> Nat]
    BY <2>1, <2>7 DEF RegistryOK
  <2>9. RegistryOK'
    BY Zenon, <1>1, <2>8 DEF Free, RegistryOK
  <2>10. \E n : Moves(w, n)
    BY Zenon, <2>5, <2>6
  <2> QED
    BY Zenon, <2>1, <2>9, <2>10, <1>1 DEF Quiet, Free, Special
<1>2. CASE ReapCount(w)
  <2> DEFINE p == [job[w] EXCEPT !.at = "reapRow"]
  <2>1. job[w].at = "reap" /\ job[w].other \in Conn
    BY Zenon, <1>0, <1>2 DEF ReapCount, HasData
  <2>2. /\ p.at = "reapRow" /\ p.other = job[w].other /\ p.id = job[w].id
        /\ p.client = job[w].client /\ p.number = job[w].number /\ p.then = job[w].then
    <3>1. job[w] \in Job /\ "reapRow" \in Labels
      BY Zenon, <1>0 DEF Labels
    <3> QED
      BY <3>1, LabelJob
  <2> HIDE DEF p
  <2>3. HasData(p)
    BY Zenon, <1>0, <2>1, <2>2 DEF HasData
  <2>4. \E n : Moves(w, n)
    BY Zenon, <1>0, <1>2, <2>3, GoMoves, ResumeMoves DEF ReapCount, Labels, Special, p
  <2>5. RegistryOK'
    BY Zenon, <1>2 DEF ReapCount, registry, RegistryOK
  <2> QED
    BY Zenon, <2>1, <2>4, <2>5, <1>2 DEF Quiet, ReapCount, Special
<1> QED
  BY Zenon, <1>1, <1>2

LEMMA AskedJob ==
  ASSUME NEW c \in Conn, conn[c].client \in Conn, NEW verb \in Verb, NEW x \in Id
  PROVE  /\ Asked(c, verb, x) \in Job
         /\ Asked(c, verb, x).client = conn[c].client /\ Asked(c, verb, x).id = x
         /\ Asked(c, verb, x).then = "idle"
BY Zenon DEF Asked, Idle, Job, Labels, Follow, Verb

LEMMA BuildingJob ==
  ASSUME NEW c \in Conn, conn[c].client \in Conn, NEW verb \in Verb, NEW x \in Id,
         asked[c] \in 0 .. MaxCalls, asked[c] < MaxCalls,
         NEW label \in {"replaceCheck", "localRemove"}
  PROVE  LET b == Building(c, verb, x, label)
         IN b \in Job /\ HasData(b) /\ b.at = label
<1> DEFINE a == Asked(c, verb, x)
           n == <<c, asked[c] + 1>>
           b == [a EXCEPT !.at = label, !.number = n]
<1>1. a \in Job /\ a.client = conn[c].client /\ a.id = x /\ a.then = "idle"
  BY AskedJob
<1>2. n \in Number
  BY ControlAssumption DEF Number, ControlAssumption
<1> HIDE DEF a, n
<1>3. label \in Labels
  BY Zenon DEF Labels
<1>4. b \in Job
  BY Zenon, <1>1, <1>2, <1>3 DEF Job
<1>5. b.at = label /\ b.id = a.id /\ b.client = a.client /\ b.number = n /\ b.then = a.then
  BY Zenon, <1>1 DEF Job
<1>6. Building(c, verb, x, label) = b
  BY Zenon DEF Building, a, n
<1> HIDE DEF b
<1>7. HasData(b)
  BY Zenon, <1>1, <1>2, <1>5 DEF HasData
<1> QED
  BY Zenon, <1>4, <1>5, <1>6, <1>7

LEMMA TakenStep ==
  ASSUME IdentityOK, RegistryOK, JobOK, JobData, NEW c \in Conn, NEW x \in Id,
         Offer(c, x) \/ AnswerLocal(c, x) \/ Delete(c, x)
  PROVE  \E w \in Worker : RegistryOK' /\ Quiet(w)
<1> USE DEF At
<1>0. /\ job \in [Worker -> Job] /\ RegistryOK /\ conn[c].client \in Conn
      /\ asked[c] \in 0 .. MaxCalls
  BY Zenon DEF IdentityOK, RegistryOK, JobOK, Connection
<1>1. CASE Offer(c, x)
  <2>1. PICK w \in {Loop(c), Dial(c)}, verb \in Verb :
          job[w].at = "idle" /\ job' = [job EXCEPT ![w] = Building(c, verb, x, "replaceCheck")]
    BY Zenon, <1>1 DEF Offer, LaneFree, Serving, Verb
  <2>2. asked[c] < MaxCalls
    BY Zenon, <1>1 DEF Offer
  <2>3. Quiet(w)
    BY Zenon, <1>0, <1>1, <2>1, <2>2, BuildingJob DEF Quiet, Moves, Special, Offer
  <2>4. asked' \in [Conn -> 0 .. MaxCalls]
    BY <1>0, <1>1, <2>2, ControlAssumption DEF Offer, RegistryOK, ControlAssumption
  <2>5. RegistryOK'
    BY Zenon, <1>0, <1>1, <2>4 DEF Offer, RegistryOK
  <2> QED
    BY Zenon, <2>1, <2>3, <2>5, WorkerFacts
<1>2. CASE AnswerLocal(c, x)
  <2>1. /\ job[Loop(c)].at = "idle" /\ asked[c] < MaxCalls
        /\ job' = [job EXCEPT ![Loop(c)] = Building(c, "answerLocal", x, "localRemove")]
    BY Zenon, <1>2 DEF AnswerLocal, LaneFree, Serving
  <2>2. Quiet(Loop(c))
    BY Zenon, <1>0, <1>2, <2>1, BuildingJob DEF Quiet, Moves, Special, AnswerLocal, Verb
  <2>3. asked' \in [Conn -> 0 .. MaxCalls]
    BY <1>0, <1>2, <2>1, ControlAssumption DEF AnswerLocal, RegistryOK, ControlAssumption
  <2>4. RegistryOK'
    BY Zenon, <1>0, <1>2, <2>3 DEF AnswerLocal, RegistryOK
  <2> QED
    BY Zenon, <2>2, <2>4, WorkerFacts
<1>3. CASE Delete(c, x)
  <2>1. /\ job[Loop(c)].at = "idle" /\ calls[x] # None
        /\ job' = [job EXCEPT ![Loop(c)] = End(Asked(c, "delete", x), x, "idle")]
    BY Zenon, <1>3 DEF Delete, LaneFree, Serving
  <2>2. Asked(c, "delete", x) \in Job /\ calls[x] \in Call
    BY <1>0, <2>1, AskedJob DEF RegistryOK, Verb
  <2>3. Quiet(Loop(c))
    BY Zenon, <1>0, <1>3, <2>1, <2>2, EndJob DEF Quiet, Moves, Special, Delete, Follow
  <2>4. RegistryOK'
    BY Zenon, <1>0, <1>3 DEF Delete, RegistryOK
  <2> QED
    BY Zenon, <2>3, <2>4, WorkerFacts
<1> QED
  BY Zenon, <1>1, <1>2, <1>3

LEMMA SweepStep ==
  ASSUME job \in [Worker -> Job], RegistryOK, JobData,
         (\E x \in Id : SweepFinds(x)) \/ ReapCall
  PROVE  RegistryOK' /\ Quiet(Sweep)
<1> USE DEF At
<1>0. Sweep \in Worker /\ job[Sweep] \in Job /\ HasData(job[Sweep])
  BY Zenon, WorkerFacts DEF JobData
<1>1. ASSUME NEW x \in Id, SweepFinds(x)
      PROVE  RegistryOK' /\ Quiet(Sweep)
  <2> DEFINE f == [Idle EXCEPT !.at = "reapCall", !.id = x, !.number = calls[x].number]
  <2>1. job' = [job EXCEPT ![Sweep] = f] /\ job[Sweep].at = "idle"
    BY Zenon, <1>1 DEF SweepFinds
  <2>2. calls[x].number \in Number
    BY Zenon, <1>1 DEF SweepFinds, RegistryOK, Call
  <2>3. f \in Job /\ f.at = "reapCall" /\ f.id = x /\ f.then = "idle"
    BY Zenon, <2>2 DEF Idle, Job, Labels, Follow
  <2> HIDE DEF f
  <2>4. HasData(f)
    BY Zenon, <2>3 DEF HasData
  <2>5. Quiet(Sweep)
    BY Zenon, <1>1, <2>1, <2>3, <2>4 DEF Quiet, Moves, Special, SweepFinds
  <2> QED
    BY Zenon, <1>1, <2>5 DEF SweepFinds, registry, RegistryOK
<1>2. ASSUME ReapCall
      PROVE  RegistryOK' /\ Quiet(Sweep)
  <2>1. job[Sweep].at = "reapCall" /\ job[Sweep].id \in Id
    BY Zenon, <1>0, <1>2 DEF ReapCall, HasData
  <2>2. \E n : Moves(Sweep, n)
    BY Zenon, <1>0, <1>2, <2>1, DoneMoves, EndMoves DEF ReapCall, Follow
  <2>3. RegistryOK'
    BY Zenon, <1>2, <2>1 DEF ReapCall, RegistryOK
  <2> QED
    BY Zenon, <1>2, <2>1, <2>2, <2>3 DEF Quiet, ReapCall, Special
<1> QED
  BY Zenon, <1>1, <1>2

----------------------------------------------------------------------------
(* The inductive invariant.                                                *)

(* What an unchanged connection, row or reap keeps.                        *)
LEMMA ConnKept ==
  ASSUME NEW c \in Conn, ConnOK(c), conn'[c].state = conn[c].state, conn'[c].key = conn[c].key,
         conn'[c].client = conn[c].client, job'[Loop(c)] = job[Loop(c)]
  PROVE  ConnOK(c)'
BY Zenon DEF ConnOK, At

LEMMA RowKept ==
  ASSUME NEW k, NEW row, RowOK(k, row),
         conn'[row.client].key = conn[row.client].key,
         sinks'[row.client] = sinks[row.client],
         row.attached # None =>
           /\ conn'[row.attached].key = conn[row.attached].key
           /\ conn'[row.attached].client = conn[row.attached].client
           /\ conn'[row.attached].chan = conn[row.attached].chan
           /\ \/ job'[Loop(row.attached)] = job[Loop(row.attached)]
                /\ controllerIds'[row.client] = controllerIds[row.client]
              \/ controllerIds'[row.client] # None,
         row.attached = None =>
           conn'[sinks[row.client].generation].state = conn[sinks[row.client].generation].state
  PROVE  RowOK(k, row)'
BY Zenon DEF RowOK, AttachedOK, At

LEMMA NewestKept ==
  ASSUME NEW c \in Conn, NewestOK(c),
         conn'[c].state = conn[c].state, conn'[c].key = conn[c].key,
         conn'[c].evicted = conn[c].evicted,
         controllers[conn[c].key] # None /\ controllers[conn[c].key].attached = c =>
           controllers'[conn[c].key] = controllers[conn[c].key],
         \A d \in Conn : At(Loop(d), "publish") /\ job[Loop(d)].other = c =>
                          job'[Loop(d)] = job[Loop(d)]
  PROVE  NewestOK(c)'
BY Zenon DEF NewestOK, At

LEMMA RegistryKept == ASSUME RegistryOK, UNCHANGED registry PROVE RegistryOK'
BY Zenon DEF RegistryOK, registry

LEMMA RowTypes ==
  ASSUME NEW row \in Row
  PROVE  row.client \in Conn /\ row.attached \in Conn \cup {None}
BY Zenon DEF Row

(* The registration of a row is one of a connection.                       *)
LEMMA RowRegistered ==
  ASSUME IdentityOK, NEW k, NEW row \in Row, RowOK(k, row)
  PROVE  sinks[row.client] \in Sink /\ sinks[row.client].generation \in Conn
<1>1. sinks[row.client] \in Sink
  BY Zenon, RowTypes DEF IdentityOK, RowOK
<1> QED
  BY Zenon, <1>1 DEF Sink

LEMMA NoneFacts ==
  None \notin Conn /\ None \notin Key /\ None \notin Sink /\ None \notin Row
BY Zenon, ControlAssumption DEF ControlAssumption, Sink, Row

(* A step that leaves the identities alone preserves what is said of them. *)
LEMMA QuietKeeps ==
  ASSUME IInv, NEW w \in Worker, RegistryOK', Quiet(w)
  PROVE  IInv'
<1> PICK j : Moves(w, j)
  BY Zenon DEF Quiet
<1>1. /\ UNCHANGED <<conn, controllers, controllerIds, sinks, made>> /\ job[w].at \notin Special
      /\ j \in Job /\ HasData(j) /\ j.at \notin Special /\ job' = [job EXCEPT ![w] = j]
  BY Zenon DEF Quiet, Moves, identity
<1>2. JobOK /\ IdentityOK /\ JobData /\ ConnShape /\ RowShape /\ ReapShape /\ Newest
  BY Zenon DEF IInv
<1>3. JobOK' /\ \A v \in Worker : job'[v] = IF v = w THEN j ELSE job[v]
  BY Zenon, <1>1, <1>2 DEF JobOK
<1>4. \A v \in Worker : job[v].at \in Special \/ job'[v].at \in Special => job'[v] = job[v]
  BY Zenon, <1>1, <1>3
<1>5. IdentityOK'
  BY Zenon, <1>1, <1>2 DEF IdentityOK
<1>6. JobData'
  BY Zenon, <1>1, <1>2, <1>3 DEF JobData
<1>7. ASSUME NEW c \in Conn PROVE ConnOK(c)'
  <2>1. ConnOK(c) /\ Loop(c) \in Worker
    BY Zenon, <1>2, WorkerFacts DEF ConnShape
  <2>2. CASE job'[Loop(c)] = job[Loop(c)]
    BY Zenon, <1>1, <2>1, <2>2, ConnKept
  <2>3. CASE job'[Loop(c)].at \notin Special
    BY Zenon, <1>1, <2>1, <2>3 DEF ConnOK, At, Special
  <2> QED
    BY Zenon, <1>4, <2>1, <2>2, <2>3
<1>8. ASSUME NEW k \in Key, NEW row \in Row, controllers'[k] = row PROVE RowOK(k, row)'
  <2>1. RowOK(k, row)
    BY Zenon, <1>1, <1>2, <1>8 DEF RowShape
  <2>2. row.attached # None => row.attached \in Conn /\ Loop(row.attached) \in Worker
    BY Zenon, RowTypes, WorkerFacts
  <2>3. row.attached # None =>
          job'[Loop(row.attached)] = job[Loop(row.attached)] \/ controllerIds'[row.client] # None
    BY Zenon, <1>1, <1>4, <2>1, <2>2 DEF RowOK, AttachedOK, At, Special
  <2> QED
    BY Zenon, <1>1, <2>1, <2>3, RowKept
<1>9. ASSUME NEW v \in Worker, NEW client \in Conn, At(v, "reapRest")', job'[v].other = client
      PROVE  AloneWith(client)'
  <2>1. AloneWith(client)
    BY Zenon, <1>2, <1>4, <1>9 DEF ReapShape, At, Special
  <2> QED
    BY Zenon, <1>1, <2>1 DEF AloneWith
<1>10. ASSUME NEW c \in Conn PROVE NewestOK(c)'
  <2>1. \A d \in Conn : At(Loop(d), "publish") => job'[Loop(d)] = job[Loop(d)]
    BY Zenon, <1>4, WorkerFacts DEF At, Special
  <2> QED
    BY Zenon, <1>1, <1>2, <2>1, NewestKept DEF Newest
<1> QED
  BY Zenon, <1>3, <1>5, <1>6, <1>7, <1>8, <1>9, <1>10
     DEF IInv, ConnShape, RowShape, ReapShape, Newest

----------------------------------------------------------------------------
(* Connecting and claiming.                                                *)

(* The row of an identity is not the client of a connection that has not   *)
(* claimed one: what it registers and releases is its own.                 *)
LEMMA UnclaimedIsNoRow ==
  ASSUME ConnShape, RowShape, NEW c \in Conn, conn[c].key = None
  PROVE  /\ conn[c].client = c
         /\ \A k \in Key, row \in Row : controllers[k] = row =>
              row.client \in Conn \ {c} /\ row.attached # c
<1>1. conn[c].client = c
  BY Zenon DEF ConnShape, ConnOK
<1>2. ASSUME NEW k \in Key, NEW row \in Row, controllers[k] = row
      PROVE  row.client \in Conn \ {c} /\ row.attached # c
  <2>1. RowOK(k, row)
    BY Zenon, <1>2 DEF RowShape
  <2> QED
    BY Zenon, <2>1, RowTypes, NoneFacts DEF RowOK, AttachedOK
<1> QED
  BY Zenon, <1>1, <1>2

LEMMA ConnectionRecords ==
  ASSUME NEW r \in Connection, NEW ch \in Nat
  PROVE  /\ [r EXCEPT !.state = "open", !.chan = ch] \in Connection
         /\ \A client \in Conn, k \in Key :
              [r EXCEPT !.client = client, !.key = k, !.chan = ch] \in Connection
         /\ [r EXCEPT !.chan = ch] \in Connection
         /\ [r EXCEPT !.state = "closed"] \in Connection
         /\ [r EXCEPT !.evicted = TRUE] \in Connection
<1>1. [r EXCEPT !.state = "open", !.chan = ch] \in Connection
  BY Zenon DEF Connection
<1>2. ASSUME NEW client \in Conn, NEW k \in Key
      PROVE  [r EXCEPT !.client = client, !.key = k, !.chan = ch] \in Connection
  BY Zenon DEF Connection
<1>3. [r EXCEPT !.chan = ch] \in Connection
  BY Zenon DEF Connection
<1>4. [r EXCEPT !.state = "closed"] \in Connection
  BY Zenon DEF Connection
<1>5. [r EXCEPT !.evicted = TRUE] \in Connection
  BY Zenon DEF Connection
<1> QED
  BY Zenon, <1>1, <1>2, <1>3, <1>4, <1>5

(* A connection without an identity changes nothing but its own entries.   *)
LEMMA OwnStep ==
  ASSUME IInv, NEW c \in Conn, conn[c].key = None, conn[c].state # "closed",
         conn'[c].key = None,
         \A d \in Conn \ {c} : conn'[d] = conn[d] /\ sinks'[d] = sinks[d],
         UNCHANGED <<controllers, controllerIds>>,
         \A v \in Worker : job[v].at \in {"publish", "reapRest"} \/ job'[v].at \in {"publish", "reapRest"} =>
                              job'[v] = job[v]
  PROVE  RowShape' /\ ReapShape' /\ Newest'
<1>1. JobData /\ IdentityOK /\ ConnShape /\ RowShape /\ ReapShape /\ Newest
  BY Zenon DEF IInv
<1>2. ASSUME NEW k \in Key, NEW row \in Row, controllers'[k] = row PROVE RowOK(k, row)'
  <2>1. RowOK(k, row) /\ row.client \in Conn \ {c} /\ row.attached # c
    BY <1>1, <1>2, UnclaimedIsNoRow DEF RowShape
  <2>2. row.attached # None => row.attached \in Conn \ {c} /\ Loop(row.attached) \in Worker
    BY Zenon, <2>1, RowTypes, WorkerFacts
  <2>3. row.attached = None => sinks[row.client].generation \in Conn \ {c}
    BY Zenon, <1>1, <2>1, RowRegistered DEF RowOK
  <2>4. row.attached # None =>
          job'[Loop(row.attached)] = job[Loop(row.attached)] \/ controllerIds'[row.client] # None
    BY Zenon, <2>1, <2>2 DEF RowOK, AttachedOK, At
  <2> QED
    BY Zenon, <2>1, <2>2, <2>3, <2>4, RowKept
<1>3. ASSUME NEW v \in Worker, NEW client \in Conn, At(v, "reapRest")', job'[v].other = client
      PROVE  AloneWith(client)'
  <2>1. AloneWith(client)
    BY Zenon, <1>1, <1>3 DEF ReapShape, At
  <2> QED
    BY Zenon, <2>1 DEF AloneWith
<1>4. ASSUME NEW d \in Conn PROVE NewestOK(d)'
  <2>1. \A e \in Conn : At(Loop(e), "publish") => job'[Loop(e)] = job[Loop(e)]
    BY Zenon, WorkerFacts DEF At
  <2>2. CASE d = c
    BY Zenon, <2>2 DEF NewestOK
  <2>3. CASE d # c
    BY Zenon, <1>1, <2>1, <2>3, NewestKept DEF Newest
  <2> QED
    BY Zenon, <2>2, <2>3
<1> QED
  BY Zenon, <1>2, <1>3, <1>4 DEF RowShape, ReapShape, Newest

(* A registration changes the one client's channel and is the last one.    *)
LEMMA RegisterFacts ==
  ASSUME IdentityOK, NEW client \in Conn, NEW c \in Conn, Register(client, c)
  PROVE  /\ sinks' \in [Conn -> Sink \cup {None}] /\ sinks'[client] \in Sink
         /\ sinks'[client].generation = c /\ sinks'[client].chan \in Nat
         /\ made' \in [Conn -> Nat]
         /\ \A d \in Conn \ {client} : sinks'[d] = sinks[d]
<1>1. /\ sinks[client] \in Sink \cup {None} /\ made[client] \in Nat
      /\ sinks \in [Conn -> Sink \cup {None}] /\ made \in [Conn -> Nat]
  BY Zenon DEF IdentityOK
<1>2. PICK s \in Sink : s.generation = c /\ s.chan \in Nat /\ sinks' = [sinks EXCEPT ![client] = s]
  <2>1. CASE sinks[client] = None
    <3> DEFINE s == [generation |-> c, chan |-> made[client] + 1]
    <3>1. s \in Sink /\ s.generation = c /\ s.chan \in Nat
      BY <1>1 DEF Sink
    <3>2. sinks' = [sinks EXCEPT ![client] = s]
      BY Zenon, <2>1 DEF Register
    <3> QED
      BY Zenon, <3>1, <3>2
  <2>2. CASE sinks[client] # None
    <3> DEFINE s == [sinks[client] EXCEPT !.generation = c]
    <3>1. s \in Sink /\ s.generation = c /\ s.chan \in Nat
      BY Zenon, <1>1, <2>2 DEF Sink
    <3>2. sinks' = [sinks EXCEPT ![client] = s]
      BY Zenon, <1>1, <2>2 DEF Register
    <3> QED
      BY Zenon, <3>1, <3>2
  <2> QED
    BY Zenon, <2>1, <2>2
<1>3. made' \in [Conn -> Nat]
  BY <1>1 DEF Register
<1> QED
  BY Zenon, <1>1, <1>2, <1>3

LEMMA ConnectStep ==
  ASSUME IInv, NEW c \in Conn, Connect(c)
  PROVE  IInv'
<1>1. IdentityOK /\ RegistryOK /\ JobOK /\ JobData /\ ConnShape
  BY Zenon DEF IInv
<1>2. conn[c].state = "new" /\ conn[c].key = None /\ conn[c].client = c /\ ConnOK(c)
  BY Zenon, <1>1 DEF Connect, ConnShape, ConnOK
<1>3. /\ Register(c, c) /\ UNCHANGED <<controllers, controllerIds, registry, job>>
      /\ conn' = [conn EXCEPT ![c].state = "open", ![c].chan = sinks'[c].chan]
  BY Zenon DEF Connect
<1>4. /\ sinks' \in [Conn -> Sink \cup {None}] /\ sinks'[c] \in Sink /\ made' \in [Conn -> Nat]
      /\ \A d \in Conn \ {c} : sinks'[d] = sinks[d]
  BY Zenon, <1>1, <1>3, RegisterFacts
<1>5. PICK ch \in Nat : ch = sinks'[c].chan
  BY Zenon, <1>4 DEF Sink
<1> DEFINE r == [conn[c] EXCEPT !.state = "open", !.chan = ch]
<1>6. conn' = [conn EXCEPT ![c] = r]
  BY Zenon, <1>1, <1>3, <1>5 DEF IdentityOK
<1>7. r \in Connection /\ r.key = None /\ r.client = c
  <2>1. conn[c] \in Connection
    BY Zenon, <1>1 DEF IdentityOK
  <2>2. r \in Connection
    BY Zenon, <2>1, ConnectionRecords
  <2> QED
    BY Zenon, <1>2, <2>1, <2>2 DEF Connection
<1> HIDE DEF r
<1>8. /\ conn' \in [Conn -> Connection] /\ conn'[c] = r
      /\ \A d \in Conn \ {c} : conn'[d] = conn[d]
  BY Zenon, <1>1, <1>6, <1>7 DEF IdentityOK
<1>9. IdentityOK'
  BY Zenon, <1>1, <1>3, <1>4, <1>8 DEF IdentityOK
<1>10. RegistryOK' /\ JobOK' /\ JobData'
  BY Zenon, <1>1, <1>3, RegistryKept DEF JobOK, JobData
<1>11. ConnShape'
  <2>1. ConnOK(c)'
    BY Zenon, <1>2, <1>3, <1>7, <1>8 DEF ConnOK, At
  <2>2. ASSUME NEW d \in Conn \ {c} PROVE ConnOK(d)'
    BY Zenon, <1>1, <1>3, <1>8, ConnKept DEF ConnShape
  <2> QED
    BY Zenon, <2>1, <2>2 DEF ConnShape
<1>12. RowShape' /\ ReapShape' /\ Newest'
  BY <1>2, <1>3, <1>4, <1>7, <1>8, OwnStep
<1> QED
  BY Zenon, <1>9, <1>10, <1>11, <1>12 DEF IInv

(* A claim leaves the identities alone until it is admitted.               *)
LEMMA ClaimRefusedStep ==
  ASSUME IInv, NEW c \in Conn, ClaimRefused(c)
  PROVE  IInv'
<1>1. IdentityOK /\ RegistryOK /\ JobOK /\ JobData /\ ConnShape
  BY Zenon DEF IInv
<1>2. /\ conn[c].state = "open" /\ conn[c].key = None /\ conn[c].client = c /\ ConnOK(c)
      /\ job[Loop(c)].at = "claim"
  BY Zenon, <1>1 DEF ClaimRefused, At, ConnShape, ConnOK
<1>3. /\ Register(c, c) /\ UNCHANGED <<controllers, controllerIds, registry>>
      /\ conn' = [conn EXCEPT ![c].chan = sinks'[c].chan]
      /\ job' = [job EXCEPT ![Loop(c)] = Idle]
  BY Zenon, <1>2 DEF ClaimRefused, Done
<1>4. /\ sinks' \in [Conn -> Sink \cup {None}] /\ sinks'[c] \in Sink /\ made' \in [Conn -> Nat]
      /\ \A d \in Conn \ {c} : sinks'[d] = sinks[d]
  BY Zenon, <1>1, <1>3, RegisterFacts
<1>5. PICK ch \in Nat : ch = sinks'[c].chan
  BY Zenon, <1>4 DEF Sink
<1> DEFINE r == [conn[c] EXCEPT !.chan = ch]
<1>6. conn' = [conn EXCEPT ![c] = r]
  BY Zenon, <1>1, <1>3, <1>5 DEF IdentityOK
<1>7. r \in Connection /\ r.key = None /\ r.client = c /\ r.state = "open"
  <2>1. conn[c] \in Connection
    BY Zenon, <1>1 DEF IdentityOK
  <2>2. r \in Connection
    BY Zenon, <2>1, ConnectionRecords
  <2> QED
    BY Zenon, <1>2, <2>1, <2>2 DEF Connection
<1> HIDE DEF r
<1>8. /\ conn' \in [Conn -> Connection] /\ conn'[c] = r
      /\ \A d \in Conn \ {c} : conn'[d] = conn[d]
  BY Zenon, <1>1, <1>6, <1>7 DEF IdentityOK
<1>9. /\ JobOK' /\ job'[Loop(c)] = Idle
      /\ \A v \in Worker \ {Loop(c)} : job'[v] = job[v]
  BY Zenon, <1>1, <1>3, IdleJob, WorkerFacts DEF JobOK
<1>10. IdentityOK'
  BY Zenon, <1>1, <1>3, <1>4, <1>8 DEF IdentityOK
<1>11. RegistryOK' /\ JobData'
  BY Zenon, <1>1, <1>3, <1>9, IdleJob, RegistryKept DEF JobData
<1>12. ConnShape'
  <2>1. ConnOK(c)'
    BY Zenon, <1>7, <1>8, <1>9, IdleJob DEF ConnOK, At
  <2>2. ASSUME NEW d \in Conn \ {c} PROVE ConnOK(d)'
    BY Zenon, <1>1, <1>8, <1>9, ConnKept, WorkerFacts DEF ConnShape
  <2> QED
    BY Zenon, <2>1, <2>2 DEF ConnShape
<1>13. RowShape' /\ ReapShape' /\ Newest'
  <2>1. \A v \in Worker : job[v].at \in {"publish", "reapRest"} \/ job'[v].at \in {"publish", "reapRest"} =>
                             job'[v] = job[v]
    BY Zenon, <1>2, <1>9, IdleJob
  <2> QED
    BY <1>2, <1>3, <1>4, <1>7, <1>8, <2>1, OwnStep
<1> QED
  BY Zenon, <1>9, <1>10, <1>11, <1>12, <1>13 DEF IInv

LEMMA ClaimAdmittedStep ==
  ASSUME IInv, NEW c \in Conn, ClaimAdmitted(c)
  PROVE  IInv'
<1>1. IdentityOK /\ RegistryOK /\ JobOK /\ JobData /\ ConnShape
  BY Zenon DEF IInv
<1>2. /\ conn[c].state = "open" /\ conn[c].key = None /\ conn[c].client = c
      /\ job[Loop(c)].at = "claim" /\ job[Loop(c)].key \in Key
  BY Zenon, <1>1 DEF ClaimAdmitted, At, ConnShape, ConnOK
<1> DEFINE j == [job[Loop(c)] EXCEPT !.at = "row"]
<1>3. /\ job' = [job EXCEPT ![Loop(c)] = j] /\ job[Loop(c)] \in Job
      /\ UNCHANGED <<conn, controllers, controllerIds, sinks, made>> /\ UNCHANGED registry
  BY Zenon, <1>1, GoJob, WorkerFacts DEF ClaimAdmitted, identity, JobOK
<1>4. /\ j \in Job /\ j.at = "row" /\ j.key = job[Loop(c)].key /\ j.then = job[Loop(c)].then
      /\ j.id = job[Loop(c)].id /\ j.client = job[Loop(c)].client
      /\ j.number = job[Loop(c)].number
  <2>1. "row" \in Labels
    BY Zenon DEF Labels
  <2> QED
    BY <1>3, <2>1, LabelJob
<1> HIDE DEF j
<1>5. HasData(j)
  <2>1. HasData(job[Loop(c)])
    BY Zenon, <1>1, WorkerFacts DEF JobData
  <2> QED
    BY Zenon, <1>4, <2>1 DEF HasData
<1>6. /\ JobOK' /\ job'[Loop(c)] = j
      /\ \A v \in Worker \ {Loop(c)} : job'[v] = job[v]
  BY Zenon, <1>1, <1>3, <1>4, WorkerFacts DEF JobOK
<1>7. IdentityOK' /\ RegistryOK' /\ JobData'
  BY Zenon, <1>1, <1>3, <1>5, <1>6, RegistryKept DEF IdentityOK, JobData
<1>8. ConnShape'
  <2>1. ConnOK(c)'
    BY Zenon, <1>2, <1>3, <1>4, <1>6 DEF ConnOK, At
  <2>2. ASSUME NEW d \in Conn \ {c} PROVE ConnOK(d)'
    BY Zenon, <1>1, <1>3, <1>6, ConnKept, WorkerFacts DEF ConnShape
  <2> QED
    BY Zenon, <2>1, <2>2 DEF ConnShape
<1>9. RowShape' /\ ReapShape' /\ Newest'
  <2>1. \A v \in Worker : job[v].at \in {"publish", "reapRest"} \/ job'[v].at \in {"publish", "reapRest"} =>
                             job'[v] = job[v]
    BY Zenon, <1>2, <1>4, <1>6
  <2> QED
    BY Zenon, <1>2, <1>3, <2>1, OwnStep
<1> QED
  BY Zenon, <1>6, <1>7, <1>8, <1>9 DEF IInv

LEMMA ClaimStep ==
  ASSUME IInv, NEW c \in Conn, NEW k \in Key, Claim(c, k)
  PROVE  IInv'
<1>1. IdentityOK /\ RegistryOK /\ JobOK /\ JobData /\ ConnShape
  BY Zenon DEF IInv
<1>2. /\ conn[c].state = "open" /\ conn[c].key = None /\ conn[c].client = c
      /\ job[Loop(c)].at = "idle"
  BY Zenon, <1>1 DEF Claim, Serving, ConnShape, ConnOK, At
<1> DEFINE j == [Idle EXCEPT !.at = "claim", !.key = k]
<1>3. /\ Deregister(c, c) /\ job' = [job EXCEPT ![Loop(c)] = j]
      /\ UNCHANGED <<conn, controllers, controllerIds, made, registry>>
  BY Zenon, <1>2 DEF Claim
<1>4. /\ sinks' \in [Conn -> Sink \cup {None}]
      /\ \A d \in Conn \ {c} : sinks'[d] = sinks[d]
  BY Zenon, <1>1, <1>3 DEF IdentityOK, Deregister
<1>5. j \in Job /\ j.at = "claim" /\ j.key = k /\ j.then = "idle"
  BY Zenon DEF Idle, Job, Labels, Follow
<1> HIDE DEF j
<1>6. HasData(j)
  BY Zenon, <1>5 DEF HasData
<1>7. /\ JobOK' /\ job'[Loop(c)] = j
      /\ \A v \in Worker \ {Loop(c)} : job'[v] = job[v]
  BY Zenon, <1>1, <1>3, <1>5, WorkerFacts DEF JobOK
<1>8. IdentityOK'
  BY Zenon, <1>1, <1>3, <1>4 DEF IdentityOK
<1>9. RegistryOK' /\ JobData'
  BY Zenon, <1>1, <1>3, <1>6, <1>7, RegistryKept DEF JobData
<1>10. ConnShape'
  <2>1. ConnOK(c)'
    BY Zenon, <1>2, <1>3, <1>5, <1>7 DEF ConnOK, At
  <2>2. ASSUME NEW d \in Conn \ {c} PROVE ConnOK(d)'
    BY Zenon, <1>1, <1>3, <1>7, ConnKept, WorkerFacts DEF ConnShape
  <2> QED
    BY Zenon, <2>1, <2>2 DEF ConnShape
<1>11. RowShape' /\ ReapShape' /\ Newest'
  <2>1. \A v \in Worker : job[v].at \in {"publish", "reapRest"} \/ job'[v].at \in {"publish", "reapRest"} =>
                             job'[v] = job[v]
    BY Zenon, <1>2, <1>5, <1>7
  <2> QED
    BY Zenon, <1>2, <1>3, <1>4, <2>1, OwnStep
<1> QED
  BY Zenon, <1>7, <1>8, <1>9, <1>10, <1>11 DEF IInv

----------------------------------------------------------------------------
(* Attaching and closing.                                                  *)

LEMMA AttachRowStep ==
  ASSUME IInv, NEW c \in Conn, AttachRow(c)
  PROVE  IInv'
<1>1. IdentityOK /\ RegistryOK /\ JobOK /\ JobData /\ ConnShape /\ RowShape /\ ReapShape /\ Newest
  BY Zenon DEF IInv
<1>2. /\ At(Loop(c), "row") /\ job[Loop(c)].key \in Key
      /\ conn[c].state = "open" /\ conn[c].key = None /\ conn[c].client = c
  BY Zenon, <1>1 DEF AttachRow, ConnShape, ConnOK, At
<1> DEFINE found(k) == IF controllers[k] = None
                       THEN [client |-> conn[c].client, attached |-> None] ELSE controllers[k]
<1>3. PICK k \in Key : k = job[Loop(c)].key
  BY Zenon, <1>2
<1>4. PICK row \in Row : row = found(k)
  <2>1. [client |-> conn[c].client, attached |-> None] \in Row
    BY Zenon, <1>2 DEF Row
  <2>2. controllers[k] \in Row \cup {None}
    BY Zenon, <1>1 DEF IdentityOK
  <2>3. found(k) \in Row
    BY Zenon, <2>1, <2>2
  <2> QED
    BY Zenon, <2>3
<1>5. PICK client \in Conn, last \in Conn \cup {None} : client = row.client /\ last = row.attached
  BY Zenon, RowTypes
<1>6. client = c \/ (controllers[k] = row /\ conn[client].key = k)
  <2>1. CASE controllers[k] = None
    BY Zenon, <1>2, <1>4, <1>5, <2>1
  <2>2. CASE controllers[k] # None
    <3>1. controllers[k] = row
      BY Zenon, <1>4, <2>2
    <3>2. RowOK(k, row)
      BY Zenon, <1>1, <3>1 DEF RowShape
    <3> QED
      BY Zenon, <1>5, <3>1, <3>2 DEF RowOK
  <2> QED
    BY Zenon, <2>1, <2>2
<1> DEFINE new == [row EXCEPT !.attached = c]
           j == [job[Loop(c)] EXCEPT !.at = "publish", !.other = last]
<1>7. /\ Register(client, c) /\ UNCHANGED <<controllerIds, registry>>
      /\ controllers' = [controllers EXCEPT ![k] = new]
      /\ conn' = [conn EXCEPT ![c].client = client, ![c].key = k,
                             ![c].chan = sinks'[client].chan]
      /\ job' = [job EXCEPT ![Loop(c)].at = "publish", ![Loop(c)].other = last]
  BY Zenon, <1>3, <1>4, <1>5 DEF AttachRow
<1>8. new \in Row /\ new.client = client /\ new.attached = c
  BY Zenon, <1>5 DEF Row
<1>9. /\ sinks' \in [Conn -> Sink \cup {None}] /\ sinks'[client] \in Sink
      /\ sinks'[client].generation = c /\ made' \in [Conn -> Nat]
      /\ \A d \in Conn \ {client} : sinks'[d] = sinks[d]
  BY Zenon, <1>1, <1>7, RegisterFacts
<1> HIDE DEF new
<1>10. PICK ch \in Nat : ch = sinks'[client].chan
  BY Zenon, <1>1, <1>7, RegisterFacts
<1> DEFINE r == [conn[c] EXCEPT !.client = client, !.key = k, !.chan = ch]
<1>11. conn' = [conn EXCEPT ![c] = r]
  BY Zenon, <1>1, <1>7, <1>10 DEF IdentityOK
<1>12. /\ r \in Connection /\ r.client = client /\ r.key = k /\ r.chan = ch
       /\ r.state = "open"
  <2>1. conn[c] \in Connection
    BY Zenon, <1>1 DEF IdentityOK
  <2>2. r \in Connection
    BY Zenon, <2>1, ConnectionRecords
  <2> QED
    BY Zenon, <1>2, <2>1, <2>2 DEF Connection
<1> HIDE DEF r
<1>13. /\ conn' \in [Conn -> Connection] /\ conn'[c] = r
       /\ \A d \in Conn \ {c} : conn'[d] = conn[d]
  BY Zenon, <1>1, <1>11, <1>12 DEF IdentityOK
<1>14. job' = [job EXCEPT ![Loop(c)] = j]
  BY Zenon, <1>1, <1>7, WorkerFacts DEF JobOK
<1>15. /\ j \in Job /\ j.at = "publish" /\ j.other = last /\ j.then = job[Loop(c)].then
       /\ j.id = job[Loop(c)].id /\ j.client = job[Loop(c)].client
       /\ j.number = job[Loop(c)].number
  <2>1. job[Loop(c)] \in Job
    BY Zenon, <1>1, WorkerFacts DEF JobOK
  <2>2. j \in Job
    BY Zenon, <2>1 DEF Job, Labels
  <2> QED
    BY Zenon, <2>1, <2>2 DEF Job
<1> HIDE DEF j
<1>16. HasData(j)
  BY Zenon, <1>1, <1>15, WorkerFacts DEF JobData, HasData
<1>17. /\ JobOK' /\ job'[Loop(c)] = j
       /\ \A v \in Worker \ {Loop(c)} : job'[v] = job[v]
  BY Zenon, <1>1, <1>14, <1>15, WorkerFacts DEF JobOK
<1>18. /\ controllers' \in [Key -> Row \cup {None}] /\ controllers'[k] = new
       /\ \A l \in Key \ {k} : controllers'[l] = controllers[l]
  BY Zenon, <1>1, <1>7, <1>8 DEF IdentityOK
<1>19. IdentityOK'
  BY Zenon, <1>1, <1>7, <1>9, <1>13, <1>18 DEF IdentityOK
<1>20. RegistryOK' /\ JobData'
  BY Zenon, <1>1, <1>7, <1>16, <1>17, RegistryKept DEF JobData
<1>21. ConnShape'
  <2>1. ConnOK(c)'
    BY Zenon, <1>12, <1>13, <1>15, <1>17, NoneFacts DEF ConnOK, At
  <2>2. ASSUME NEW d \in Conn \ {c} PROVE ConnOK(d)'
    BY Zenon, <1>1, <1>13, <1>17, ConnKept, WorkerFacts DEF ConnShape
  <2> QED
    BY Zenon, <2>1, <2>2 DEF ConnShape
<1>22. ASSUME NEW l \in Key, NEW old \in Row, controllers'[l] = old PROVE RowOK(l, old)'
  <2>1. CASE l = k
    <3>1. old.client = client /\ old.attached = c
      BY Zenon, <1>8, <1>18, <1>22, <2>1
    <3>2. conn'[client].key = k
      BY Zenon, <1>6, <1>12, <1>13
    <3>3. AttachedOK(k, client, c)'
      BY Zenon, <1>9, <1>10, <1>12, <1>13, <1>15, <1>17 DEF AttachedOK, At
    <3> QED
      BY Zenon, <1>9, <2>1, <3>1, <3>2, <3>3, NoneFacts DEF RowOK
  <2>2. CASE l # k
    <3>1. controllers[l] = old /\ RowOK(l, old)
      BY Zenon, <1>1, <1>18, <1>22, <2>2 DEF RowShape
    <3>2. old.client \in Conn \ {c} /\ old.attached # c
      BY Zenon, <1>1, <1>2, <3>1, UnclaimedIsNoRow
    <3>3. old.client # client
      BY Zenon, <1>6, <2>2, <3>1, <3>2 DEF RowOK
    <3>4. /\ sinks[old.client].generation \in Conn
          /\ old.attached = None => sinks[old.client].generation # c
      BY Zenon, <1>1, <1>2, <3>1, RowRegistered DEF RowOK
    <3>5. old.attached # None => old.attached \in Conn \ {c} /\ Loop(old.attached) \in Worker \ {Loop(c)}
      BY Zenon, <3>2, RowTypes, WorkerFacts
    <3> QED
      BY Zenon, <1>7, <1>9, <1>13, <1>17, <3>1, <3>2, <3>3, <3>4, <3>5, RowKept
  <2> QED
    BY Zenon, <2>1, <2>2
<1>23. ASSUME NEW w \in Worker, NEW other \in Conn, At(w, "reapRest")', job'[w].other = other
       PROVE  AloneWith(other)'
  <2>1. job'[w] = job[w]
    BY Zenon, <1>15, <1>17, <1>23 DEF At
  <2>2. AloneWith(other)
    BY Zenon, <1>1, <1>23, <2>1 DEF ReapShape, At
  <2>3. client # other
    BY Zenon, <1>2, <1>4, <1>5, <1>6, <2>2, NoneFacts DEF AloneWith
  <2>4. \A l \in Key : controllers'[l] # None => controllers'[l].client # other
    BY Zenon, <1>8, <1>18, <2>2, <2>3 DEF AloneWith
  <2>5. conn'[other].key # None
    BY Zenon, <1>12, <1>13, <2>2, NoneFacts DEF AloneWith
  <2> QED
    BY Zenon, <2>4, <2>5 DEF AloneWith
<1>24. ASSUME NEW d \in Conn PROVE NewestOK(d)'
  <2>1. CASE d = c
    BY Zenon, <1>8, <1>12, <1>13, <1>18, <2>1, NoneFacts DEF NewestOK
  <2>2. CASE d # c
    <3>1. conn'[d] = conn[d] /\ NewestOK(d)
      BY Zenon, <1>1, <1>13, <2>2 DEF Newest
    <3>2. \A e \in Conn : At(Loop(e), "publish") => job'[Loop(e)] = job[Loop(e)]
      BY Zenon, <1>2, <1>17, WorkerFacts DEF At
    <3>3. CASE last = d
      BY Zenon, <1>15, <1>17, <3>3 DEF NewestOK, At
    <3>4. CASE last # d
      <4>1. conn[d].key \in Key \cup {None}
        BY Zenon, <1>1 DEF IdentityOK, Connection
      <4>2. conn[d].key = None => NewestOK(d)'
        BY Zenon, <3>1 DEF NewestOK
      <4>3. conn[d].key \in Key /\ controllers[conn[d].key] # None
              /\ controllers[conn[d].key].attached = d =>
            controllers'[conn[d].key] = controllers[conn[d].key]
        BY Zenon, <1>4, <1>5, <1>18, <3>4
      <4> QED
        BY Zenon, <3>1, <3>2, <4>1, <4>2, <4>3, NewestKept
    <3> QED
      BY Zenon, <3>3, <3>4
  <2> QED
    BY Zenon, <2>1, <2>2
<1> QED
  BY Zenon, <1>17, <1>19, <1>20, <1>21, <1>22, <1>23, <1>24 DEF IInv, RowShape, ReapShape, Newest

LEMMA PublishStep ==
  ASSUME IInv, NEW c \in Conn, Publish(c)
  PROVE  IInv'
<1>1. IdentityOK /\ RegistryOK /\ JobOK /\ JobData /\ ConnShape /\ RowShape /\ ReapShape /\ Newest
  BY Zenon DEF IInv
<1>2. At(Loop(c), "publish") /\ conn[c].key # None /\ conn[c] \in Connection
  BY Zenon, <1>1 DEF IdentityOK, Publish, ConnShape, ConnOK
<1>3. PICK client \in Conn, k \in Key : client = conn[c].client /\ k = conn[c].key
  BY Zenon, <1>2 DEF Connection
<1>4. PICK last \in Conn \cup {None} : last = job[Loop(c)].other
  BY Zenon, <1>1, WorkerFacts DEF JobOK, Job
<1>5. /\ controllerIds' = [controllerIds EXCEPT ![client] = k]
      /\ conn' = [d \in Conn |-> IF d = last THEN [conn[d] EXCEPT !.evicted = TRUE] ELSE conn[d]]
      /\ job' = [job EXCEPT ![Loop(c)] = Idle]
      /\ UNCHANGED <<controllers, sinks, made, registry>>
  BY Zenon, <1>3, <1>4 DEF Publish, Done
<1>6. conn' \in [Conn -> Connection]
  <2>1. \A d \in Conn : conn[d] \in Connection /\ [conn[d] EXCEPT !.evicted = TRUE] \in Connection
    BY Zenon, <1>1, ConnectionRecords DEF IdentityOK
  <2> QED
    BY Zenon, <1>5, <2>1
<1>7. ASSUME NEW d \in Conn
      PROVE  /\ conn'[d].state = conn[d].state /\ conn'[d].key = conn[d].key
             /\ conn'[d].client = conn[d].client /\ conn'[d].chan = conn[d].chan
             /\ IF d = last THEN conn'[d].evicted ELSE conn'[d] = conn[d]
  <2>1. conn[d] \in Connection
    BY Zenon, <1>1 DEF IdentityOK
  <2> QED
    BY Zenon, <1>5, <2>1 DEF Connection
<1>8. /\ JobOK' /\ job'[Loop(c)] = Idle
      /\ \A v \in Worker \ {Loop(c)} : job'[v] = job[v]
  BY Zenon, <1>1, <1>5, IdleJob, WorkerFacts DEF JobOK
<1>9. /\ controllerIds' \in [Conn -> Key \cup {None}] /\ controllerIds'[client] = k
      /\ \A d \in Conn \ {client} : controllerIds'[d] = controllerIds[d]
  BY Zenon, <1>1, <1>5 DEF IdentityOK
<1>10. IdentityOK'
  BY Zenon, <1>1, <1>5, <1>6, <1>9 DEF IdentityOK
<1>11. RegistryOK' /\ JobData'
  BY Zenon, <1>1, <1>5, <1>8, IdleJob, RegistryKept DEF JobData
<1>12. ConnShape'
  <2>1. ConnOK(c)'
    BY <1>1, <1>7, <1>8, IdleJob DEF ConnShape, ConnOK, At
  <2>2. ASSUME NEW d \in Conn \ {c} PROVE ConnOK(d)'
    BY <1>1, <1>7, <1>8, ConnKept, WorkerFacts DEF ConnShape
  <2> QED
    BY Zenon, <2>1, <2>2 DEF ConnShape
<1>13. ASSUME NEW l \in Key, NEW row \in Row, controllers'[l] = row PROVE RowOK(l, row)'
  <2>1. RowOK(l, row) /\ row.client \in Conn /\ sinks[row.client].generation \in Conn
    BY Zenon, <1>1, <1>5, <1>13, RowTypes, RowRegistered DEF RowShape
  <2>2. row.client = client => controllerIds'[row.client] # None
    BY Zenon, <1>9, NoneFacts
  <2>3. row.attached = c => row.client = client
    BY Zenon, <1>3, <2>1, NoneFacts DEF RowOK, AttachedOK
  <2>4. row.attached # None /\ row.attached # c =>
          row.attached \in Conn /\ Loop(row.attached) \in Worker \ {Loop(c)}
    BY Zenon, RowTypes, WorkerFacts
  <2>5. row.attached # None =>
          \/ job'[Loop(row.attached)] = job[Loop(row.attached)]
                /\ controllerIds'[row.client] = controllerIds[row.client]
          \/ controllerIds'[row.client] # None
    BY Zenon, <1>8, <1>9, <2>1, <2>2, <2>3, <2>4
  <2>6. row.attached # None => row.attached \in Conn
    BY Zenon, RowTypes
  <2> QED
    BY Zenon, <1>5, <1>7, <2>1, <2>5, <2>6, RowKept
<1>14. ASSUME NEW w \in Worker, NEW other \in Conn, At(w, "reapRest")', job'[w].other = other
       PROVE  AloneWith(other)'
  <2>1. job'[w] = job[w]
    BY Zenon, <1>8, <1>14, IdleJob DEF At
  <2>2. AloneWith(other)
    BY Zenon, <1>1, <1>14, <2>1 DEF ReapShape, At
  <2> QED
    BY Zenon, <1>5, <1>7, <2>2 DEF AloneWith
<1>15. ASSUME NEW d \in Conn PROVE NewestOK(d)'
  <2>1. CASE d = last
    BY Zenon, <1>7, <2>1 DEF NewestOK
  <2>2. CASE d # last
    <3>1. conn'[d] = conn[d] /\ NewestOK(d)
      BY Zenon, <1>1, <1>7, <2>2 DEF Newest
    <3>2. \A e \in Conn : At(Loop(e), "publish") /\ job[Loop(e)].other = d =>
                           job'[Loop(e)] = job[Loop(e)]
      BY Zenon, <1>4, <1>8, <2>2, WorkerFacts
    <3> QED
      BY Zenon, <1>5, <3>1, <3>2, NewestKept
  <2> QED
    BY Zenon, <2>1, <2>2
<1> QED
  BY Zenon, <1>8, <1>10, <1>11, <1>12, <1>13, <1>14, <1>15 DEF IInv, RowShape, ReapShape, Newest

LEMMA CloseStep ==
  ASSUME IInv, NEW c \in Conn, Close(c)
  PROVE  IInv'
<1>1. IdentityOK /\ RegistryOK /\ JobOK /\ JobData /\ ConnShape /\ RowShape /\ ReapShape /\ Newest
  BY Zenon DEF IInv
<1>2. /\ conn[c].state = "open" /\ At(Loop(c), "idle") /\ conn[c] \in Connection
      /\ job[Loop(c)] \in Job /\ HasData(job[Loop(c)]) /\ Loop(c) \in Worker
  BY Zenon, <1>1, WorkerFacts DEF IdentityOK, JobOK, JobData, Close, Serving
<1>3. PICK client \in Conn : client = conn[c].client
  BY Zenon, <1>2 DEF Connection
<1> DEFINE r == [conn[c] EXCEPT !.state = "closed"]
           j == IF conn[c].key = None THEN job[Loop(c)] ELSE [job[Loop(c)] EXCEPT !.at = "detach"]
<1>4. Deregister(client, c) /\ UNCHANGED <<controllers, controllerIds, made, registry>>
  BY Zenon, <1>3 DEF Close
<1>5. conn' = [conn EXCEPT ![c] = r]
  BY Zenon, <1>1 DEF Close, IdentityOK
<1>6. job' = [job EXCEPT ![Loop(c)] = j]
  <2>1. CASE conn[c].key = None
    BY Zenon, <1>1, <1>2, <2>1 DEF Close, JobOK
  <2>2. CASE conn[c].key # None
    BY Zenon, <1>1, <1>2, <2>2, GoJob DEF Close, JobOK
  <2> QED
    BY Zenon, <2>1, <2>2
<1>7. /\ r \in Connection /\ r.state = "closed" /\ r.key = conn[c].key
      /\ r.client = conn[c].client /\ r.chan = conn[c].chan
  <2>1. r \in Connection
    BY Zenon, <1>2, ConnectionRecords
  <2> QED
    BY Zenon, <1>2, <2>1 DEF Connection
<1>8. /\ j \in Job /\ HasData(j) /\ j.at \in {"idle", "detach"}
      /\ j.at = "detach" => conn[c].key # None
  <2>1. CASE conn[c].key = None
    BY Zenon, <1>2, <2>1 DEF At
  <2>2. CASE conn[c].key # None
    <3>1. /\ j \in Job /\ j.at = "detach" /\ j.then = job[Loop(c)].then /\ j.id = job[Loop(c)].id
          /\ j.client = job[Loop(c)].client /\ j.number = job[Loop(c)].number
      <4>1. "detach" \in Labels
        BY Zenon DEF Labels
      <4> QED
        BY <1>2, <2>2, <4>1, LabelJob
    <3> HIDE DEF j
    <3>2. HasData(j)
      BY Zenon, <1>2, <3>1 DEF HasData
    <3> QED
      BY Zenon, <2>2, <3>1, <3>2
  <2> QED
    BY Zenon, <2>1, <2>2
<1> HIDE DEF r, j
<1>9. /\ conn' \in [Conn -> Connection] /\ conn'[c] = r
      /\ \A d \in Conn \ {c} : conn'[d] = conn[d]
  BY Zenon, <1>1, <1>5, <1>7 DEF IdentityOK
<1>10. /\ JobOK' /\ job'[Loop(c)] = j
       /\ \A v \in Worker \ {Loop(c)} : job'[v] = job[v]
  BY Zenon, <1>1, <1>2, <1>6, <1>8 DEF JobOK
<1>11. sinks' \in [Conn -> Sink \cup {None}]
  BY Zenon, <1>1, <1>4 DEF IdentityOK, Deregister
<1>12. IdentityOK'
  BY Zenon, <1>1, <1>4, <1>9, <1>11 DEF IdentityOK
<1>13. RegistryOK' /\ JobData'
  BY Zenon, <1>1, <1>4, <1>8, <1>10, RegistryKept DEF JobData
<1>14. ConnShape'
  <2>1. ConnOK(c)'
    BY Zenon, <1>1, <1>7, <1>8, <1>9, <1>10 DEF ConnShape, ConnOK, At
  <2>2. ASSUME NEW d \in Conn \ {c} PROVE ConnOK(d)'
    BY Zenon, <1>1, <1>9, <1>10, ConnKept, WorkerFacts DEF ConnShape
  <2> QED
    BY Zenon, <2>1, <2>2 DEF ConnShape
<1>15. ASSUME NEW l \in Key, NEW row \in Row, controllers'[l] = row PROVE RowOK(l, row)'
  <2>1. RowOK(l, row) /\ row.client \in Conn /\ sinks[row.client].generation \in Conn
    BY Zenon, <1>1, <1>4, <1>15, RowTypes, RowRegistered DEF RowShape
  <2>2. sinks[row.client].generation = c => row.attached = c /\ controllerIds[row.client] # None
    BY Zenon, <1>2, <2>1 DEF RowOK, AttachedOK, At
  <2>3. sinks'[row.client] = sinks[row.client]
    BY Zenon, <1>1, <1>4, <2>1, <2>2 DEF Deregister, IdentityOK
  <2>4. \A d \in Conn : /\ conn'[d].key = conn[d].key /\ conn'[d].client = conn[d].client
                        /\ conn'[d].chan = conn[d].chan
    BY Zenon, <1>7, <1>9
  <2>5. row.attached # None => row.attached \in Conn
    BY Zenon, RowTypes
  <2>6. row.attached # None =>
          \/ job'[Loop(row.attached)] = job[Loop(row.attached)]
                /\ controllerIds'[row.client] = controllerIds[row.client]
          \/ controllerIds'[row.client] # None
    <3>1. CASE row.attached = c
      BY Zenon, <1>2, <1>4, <2>1, <3>1, NoneFacts DEF RowOK, AttachedOK, At
    <3>2. CASE row.attached # c
      BY Zenon, <1>4, <1>10, <2>5, <3>2, WorkerFacts
    <3> QED
      BY Zenon, <3>1, <3>2
  <2>7. row.attached = None => sinks[row.client].generation # c
    BY Zenon, <1>2, <2>1 DEF RowOK
  <2> QED
    BY Zenon, <1>9, <2>1, <2>3, <2>4, <2>5, <2>6, <2>7, RowKept
<1>16. ASSUME NEW w \in Worker, NEW other \in Conn, At(w, "reapRest")', job'[w].other = other
       PROVE  AloneWith(other)'
  <2>1. job'[w] = job[w]
    BY Zenon, <1>8, <1>10, <1>16 DEF At
  <2>2. AloneWith(other)
    BY Zenon, <1>1, <1>16, <2>1 DEF ReapShape, At
  <2> QED
    BY Zenon, <1>4, <1>7, <1>9, <2>2 DEF AloneWith
<1>17. ASSUME NEW d \in Conn PROVE NewestOK(d)'
  <2>1. CASE d = c
    BY Zenon, <1>7, <1>9, <2>1 DEF NewestOK
  <2>2. CASE d # c
    <3>1. \A e \in Conn : At(Loop(e), "publish") => job'[Loop(e)] = job[Loop(e)]
      BY Zenon, <1>2, <1>10, WorkerFacts DEF At
    <3> QED
      BY Zenon, <1>1, <1>4, <1>9, <2>2, <3>1, NewestKept DEF Newest
  <2> QED
    BY Zenon, <2>1, <2>2
<1> QED
  BY Zenon, <1>10, <1>12, <1>13, <1>14, <1>15, <1>16, <1>17 DEF IInv, RowShape, ReapShape, Newest

----------------------------------------------------------------------------
(* Leaving.                                                                *)

(* What is left of a row, or of its attachment, when a connection leaves.  *)
RowRemains(k, new, old) ==
  /\ controllers[k] = old /\ new.client = old.client /\ new.attached \in {old.attached, None}
  /\ new.attached = None => conn[sinks[old.client].generation].state = "closed"
  /\ sinks'[old.client] = sinks[old.client]
  /\ controllerIds'[old.client] = controllerIds[old.client]

RowsRemain ==
  /\ \A k \in Key, new \in Row : controllers'[k] = new => \E old \in Row : RowRemains(k, new, old)
  /\ \A k \in Key, old \in Row :
       controllers[k] = old /\ old.attached # None /\ conn[old.attached].state = "open" =>
         controllers'[k] = old

LEMMA RowsUntouched ==
  ASSUME IdentityOK, RowShape, controllers' = controllers,
         \A k \in Key, row \in Row : controllers[k] = row =>
           sinks'[row.client] = sinks[row.client] /\ controllerIds'[row.client] = controllerIds[row.client]
  PROVE  RowsRemain
BY DEF RowsRemain, RowRemains, RowShape, RowOK

LEMMA LeaveStep ==
  ASSUME IInv, NEW w \in Worker, NEW j \in Job, HasData(j), job' = [job EXCEPT ![w] = j],
         j.at \notin {"claim", "row", "publish", "detach"}, job[w].at # "publish",
         UNCHANGED <<conn, made, registry>>,
         controllers' \in [Key -> Row \cup {None}],
         controllerIds' \in [Conn -> Key \cup {None}],
         sinks' \in [Conn -> Sink \cup {None}],
         RowsRemain,
         \A other \in Conn : j.at = "reapRest" /\ j.other = other => AloneWith(other)'
  PROVE  IInv'
<1>1. IdentityOK /\ RegistryOK /\ JobOK /\ JobData /\ ConnShape /\ RowShape /\ ReapShape /\ Newest
  BY Zenon DEF IInv
<1>2. /\ JobOK' /\ job'[w] = j
      /\ \A v \in Worker \ {w} : job'[v] = job[v]
  BY Zenon, <1>1 DEF JobOK
<1>3. IdentityOK'
  BY Zenon, <1>1 DEF IdentityOK
<1>4. RegistryOK' /\ JobData'
  BY Zenon, <1>1, <1>2, RegistryKept DEF JobData
<1>5. ASSUME NEW c \in Conn
      PROVE  /\ job'[Loop(c)].at \in {"claim", "row", "publish", "detach"} => job'[Loop(c)] = job[Loop(c)]
             /\ At(Loop(c), "publish") => job'[Loop(c)] = job[Loop(c)]
  BY Zenon, <1>2, WorkerFacts DEF At
<1>6. ASSUME NEW c \in Conn PROVE ConnOK(c)'
  <2>1. CASE job'[Loop(c)] = job[Loop(c)]
    BY Zenon, <1>1, <2>1, ConnKept DEF ConnShape
  <2>2. CASE job'[Loop(c)].at \notin {"claim", "row", "publish", "detach"}
    BY Zenon, <1>1, <2>2 DEF ConnShape, ConnOK, At
  <2> QED
    BY Zenon, <1>5, <2>1, <2>2
<1>7. ASSUME NEW k \in Key, NEW new \in Row, controllers'[k] = new PROVE RowOK(k, new)'
  <2>1. PICK old \in Row : RowRemains(k, new, old)
    BY Zenon, <1>7 DEF RowsRemain
  <2>2. RowOK(k, old)
    BY Zenon, <1>1, <2>1 DEF RowShape, RowRemains
  <2>3. new.attached # None => AttachedOK(k, new.client, new.attached)'
    <3> SUFFICES ASSUME new.attached # None PROVE AttachedOK(k, new.client, new.attached)'
      BY Zenon
    <3>1. /\ new.attached = old.attached /\ new.attached \in Conn
          /\ AttachedOK(k, old.client, old.attached)
      BY Zenon, <2>1, <2>2, RowTypes DEF RowRemains, RowOK
    <3>2. At(Loop(old.attached), "publish") => At(Loop(old.attached), "publish")'
      BY Zenon, <1>5, <3>1 DEF At
    <3> QED
      BY <2>1, <3>1, <3>2 DEF AttachedOK, RowRemains
  <2> QED
    BY Zenon, <2>1, <2>2, <2>3 DEF RowOK, RowRemains
<1>8. ASSUME NEW v \in Worker, NEW other \in Conn, At(v, "reapRest")', job'[v].other = other
      PROVE  AloneWith(other)'
  <2>1. CASE v = w
    BY Zenon, <1>2, <1>8, <2>1 DEF At
  <2>2. CASE v # w
    <3>1. AloneWith(other)
      BY Zenon, <1>1, <1>2, <1>8, <2>2 DEF ReapShape, At
    <3>2. ASSUME NEW k \in Key, controllers'[k] # None PROVE controllers'[k].client # other
      <4>1. PICK new \in Row : controllers'[k] = new
        BY Zenon, <3>2
      <4>2. PICK old \in Row : controllers[k] = old /\ new.client = old.client
        BY <4>1 DEF RowsRemain, RowRemains
      <4> QED
        BY Zenon, <3>1, <4>1, <4>2, NoneFacts DEF AloneWith
    <3> QED
      BY Zenon, <3>1, <3>2 DEF AloneWith
  <2> QED
    BY Zenon, <2>1, <2>2
<1>9. ASSUME NEW d \in Conn PROVE NewestOK(d)'
  <2>1. conn[d].key \in Key \cup {None}
    BY Zenon, <1>1 DEF IdentityOK, Connection
  <2>2. CASE conn[d].state = "open" /\ conn[d].key \in Key
    <3>1. controllers[conn[d].key] # None /\ controllers[conn[d].key].attached = d =>
            controllers'[conn[d].key] = controllers[conn[d].key]
      <4>1. controllers[conn[d].key] \in Row \cup {None}
        BY Zenon, <1>1, <2>2 DEF IdentityOK
      <4> QED
        BY <2>2, <4>1, NoneFacts DEF RowsRemain
    <3> QED
      BY Zenon, <1>1, <1>5, <3>1, NewestKept DEF Newest
  <2>3. CASE ~(conn[d].state = "open" /\ conn[d].key \in Key)
    BY Zenon, <2>1, <2>3 DEF NewestOK
  <2> QED
    BY Zenon, <2>2, <2>3
<1> QED
  BY Zenon, <1>2, <1>3, <1>4, <1>6, <1>7, <1>8, <1>9
     DEF IInv, ConnShape, RowShape, ReapShape, Newest

LEMMA DetachStep ==
  ASSUME IInv, NEW c \in Conn, Detach(c)
  PROVE  IInv'
<1>1. IdentityOK /\ RegistryOK /\ JobOK /\ JobData /\ ConnShape /\ RowShape
  BY Zenon DEF IInv
<1>2. /\ At(Loop(c), "detach") /\ conn[c].state = "closed" /\ conn[c].key # None
      /\ Loop(c) \in Worker /\ job[Loop(c)] \in Job /\ HasData(job[Loop(c)])
      /\ conn[c] \in Connection
  BY Zenon, <1>1, WorkerFacts DEF IdentityOK, JobOK, Detach, ConnShape, ConnOK, JobData
<1>3. PICK k \in Key : k = conn[c].key
  BY Zenon, <1>2 DEF Connection
<1>4. /\ UNCHANGED <<conn, controllerIds, sinks, made, registry>>
      /\ controllerIds' \in [Conn -> Key \cup {None}] /\ sinks' \in [Conn -> Sink \cup {None}]
  BY Zenon, <1>1 DEF Detach, IdentityOK
<1>5. CASE controllers[k] # None /\ controllers[k].attached = c
  <2>1. PICK row \in Row : controllers[k] = row
    BY Zenon, <1>1, <1>5 DEF IdentityOK
  <2>2. row.client \in Conn /\ RowOK(k, row) /\ row.attached = c
    BY Zenon, <1>1, <1>5, <2>1, RowTypes DEF RowShape
  <2> DEFINE new == [row EXCEPT !.attached = None]
             j == [job[Loop(c)] EXCEPT !.at = "reap", !.other = row.client]
  <2>3. new \in Row /\ new.client = row.client /\ new.attached = None
    BY Zenon, <2>2 DEF Row
  <2>4. controllers' = [controllers EXCEPT ![k] = new]
    BY Zenon, <1>1, <1>3, <1>5, <2>1 DEF Detach, IdentityOK
  <2>5. job' = [job EXCEPT ![Loop(c)] = j]
    BY Zenon, <1>1, <1>2, <1>3, <1>5, <2>1 DEF Detach, JobOK
  <2>6. sinks[row.client].generation = c
    BY Zenon, <2>2, NoneFacts DEF RowOK, AttachedOK
  <2>7. /\ j \in Job /\ j.at = "reap" /\ j.other = row.client /\ j.then = job[Loop(c)].then
        /\ j.id = job[Loop(c)].id /\ j.client = job[Loop(c)].client
        /\ j.number = job[Loop(c)].number
    BY Zenon, <1>2, <2>2 DEF Job, Labels
  <2> HIDE DEF j, new
  <2>8. HasData(j)
    BY Zenon, <1>2, <2>2, <2>7 DEF HasData
  <2>9. /\ controllers' \in [Key -> Row \cup {None}] /\ controllers'[k] = new
        /\ \A l \in Key \ {k} : controllers'[l] = controllers[l]
    BY Zenon, <1>1, <2>3, <2>4 DEF IdentityOK
  <2>10. ASSUME NEW l \in Key, NEW left \in Row, controllers'[l] = left
         PROVE  \E old \in Row : RowRemains(l, left, old)
    <3>1. CASE l = k
      BY Zenon, <1>2, <1>4, <2>1, <2>3, <2>6, <2>9, <2>10, <3>1 DEF RowRemains
    <3>2. CASE l # k
      BY <1>1, <1>4, <2>9, <2>10, <3>2 DEF RowRemains, RowShape, RowOK
    <3> QED
      BY Zenon, <3>1, <3>2
  <2>11. ASSUME NEW l \in Key, NEW old \in Row, controllers[l] = old, old.attached # None,
                conn[old.attached].state = "open"
         PROVE  controllers'[l] = old
    BY Zenon, <1>2, <2>1, <2>2, <2>9, <2>11
  <2>12. RowsRemain
    BY Zenon, <2>10, <2>11 DEF RowsRemain
  <2> QED
    BY Zenon, <1>2, <1>4, <2>5, <2>7, <2>8, <2>9, <2>12, LeaveStep DEF At
<1>6. CASE ~(controllers[k] # None /\ controllers[k].attached = c)
  <2>1. job' = [job EXCEPT ![Loop(c)] = Idle] /\ controllers' = controllers
    BY Zenon, <1>3, <1>6 DEF Detach, Done
  <2>2. controllers' \in [Key -> Row \cup {None}] /\ RowsRemain
    BY Zenon, <1>1, <1>4, <2>1, RowsUntouched DEF IdentityOK
  <2> QED
    BY Zenon, <1>2, <1>4, <2>1, <2>2, IdleJob, LeaveStep DEF At
<1> QED
  BY Zenon, <1>5, <1>6

LEMMA ReapRowStep ==
  ASSUME IInv, NEW w \in Worker, ReapRow(w)
  PROVE  IInv'
<1>1. IdentityOK /\ JobOK /\ JobData /\ RowShape
  BY Zenon DEF IInv
<1>2. /\ job[w].at = "reapRow" /\ job[w].other \in Conn /\ job[w] \in Job /\ HasData(job[w])
  BY Zenon, <1>1 DEF JobOK, ReapRow, JobData, HasData, At
<1>3. PICK client \in Conn, k \in Key \cup {None} :
        client = job[w].other /\ k = controllerIds[client]
  BY Zenon, <1>1, <1>2 DEF IdentityOK
<1>4. /\ UNCHANGED <<conn, controllerIds, sinks, made, registry>>
      /\ controllerIds' \in [Conn -> Key \cup {None}] /\ sinks' \in [Conn -> Sink \cup {None}]
  BY Zenon, <1>1 DEF ReapRow, IdentityOK
<1> DEFINE gone == /\ k # None /\ controllers[k] # None /\ controllers[k].client = client
                   /\ controllers[k].attached = None
<1>5. CASE gone
  <2>1. controllers' = [controllers EXCEPT ![k] = None] /\ Go(w, "reapRest") /\ k \in Key
    BY Zenon, <1>3, <1>5 DEF ReapRow
  <2>2. PICK row \in Row : controllers[k] = row
    BY Zenon, <1>1, <1>5, <2>1 DEF IdentityOK
  <2>3. row.client = client /\ row.attached = None /\ conn[client].key = k
    BY Zenon, <1>1, <1>5, <2>1, <2>2 DEF RowShape, RowOK
  <2>4. [job[w] EXCEPT !.at = "reapRest"] \in Job
    BY Zenon, <1>2, LabelJob DEF Labels
  <2>5. PICK j \in Job : j = [job[w] EXCEPT !.at = "reapRest"]
    BY Zenon, <2>4
  <2>6. job' = [job EXCEPT ![w] = j]
    BY Zenon, <1>1, <2>1, <2>5, GoJob DEF JobOK
  <2>7. /\ j.at = "reapRest" /\ j.other = client /\ j.then = job[w].then
        /\ j.id = job[w].id /\ j.client = job[w].client /\ j.number = job[w].number
    <3>1. "reapRest" \in Labels
      BY Zenon DEF Labels
    <3> QED
      BY <1>2, <1>3, <2>5, <3>1, LabelJob
  <2>8. HasData(j)
    BY Zenon, <1>2, <2>7 DEF HasData
  <2>9. /\ controllers' \in [Key -> Row \cup {None}] /\ controllers'[k] = None
        /\ \A l \in Key \ {k} : controllers'[l] = controllers[l]
    BY Zenon, <1>1, <2>1 DEF IdentityOK
  <2>10. RowsRemain
    <3>1. ASSUME NEW l \in Key, NEW left \in Row, controllers'[l] = left
          PROVE  \E old \in Row : RowRemains(l, left, old)
      BY <1>1, <1>4, <2>9, <3>1, NoneFacts DEF RowRemains, RowShape, RowOK
    <3>2. ASSUME NEW l \in Key, NEW old \in Row, controllers[l] = old, old.attached # None
          PROVE  controllers'[l] = old
      BY Zenon, <2>2, <2>3, <2>9, <3>2
    <3> QED
      BY Zenon, <3>1, <3>2 DEF RowsRemain
  <2>11. AloneWith(client)'
    <3>1. ASSUME NEW l \in Key, controllers'[l] # None PROVE controllers'[l].client # client
      <4>1. PICK left \in Row : controllers'[l] = left
        BY Zenon, <2>9, <3>1
      <4>2. RowOK(l, left) /\ l # k
        BY Zenon, <1>1, <2>9, <3>1, <4>1 DEF RowShape
      <4> QED
        BY Zenon, <2>3, <4>1, <4>2 DEF RowOK
    <3> QED
      BY Zenon, <1>4, <2>1, <2>3, <3>1, NoneFacts DEF AloneWith
  <2> QED
    BY Zenon, <1>2, <1>4, <2>6, <2>7, <2>8, <2>9, <2>10, <2>11, LeaveStep
<1>6. CASE ~gone
  <2>1. job' = [job EXCEPT ![w] = Resume(job[w])] /\ controllers' = controllers
    BY Zenon, <1>1, <1>3, <1>6 DEF ReapRow, JobOK
  <2>2. controllers' \in [Key -> Row \cup {None}] /\ RowsRemain
    BY Zenon, <1>1, <1>4, <2>1, RowsUntouched DEF IdentityOK
  <2>3. /\ Resume(job[w]) \in Job /\ HasData(Resume(job[w]))
        /\ Resume(job[w]).at \notin {"claim", "row", "publish", "detach", "reapRest"}
    BY Zenon, <1>2, ResumeJob DEF Follow
  <2> QED
    BY Zenon, <1>2, <1>4, <2>1, <2>2, <2>3, LeaveStep
<1> QED
  BY Zenon, <1>5, <1>6

LEMMA ReapRestStep ==
  ASSUME IInv, NEW w \in Worker, ReapRest(w)
  PROVE  IInv'
<1>1. IdentityOK /\ JobOK /\ JobData /\ RowShape /\ ReapShape
  BY Zenon DEF IInv
<1>2. /\ job[w].at = "reapRest" /\ job[w].other \in Conn /\ job[w] \in Job /\ HasData(job[w])
  BY Zenon, <1>1 DEF JobOK, ReapRest, JobData, HasData, At
<1>3. PICK client \in Conn : client = job[w].other
  BY Zenon, <1>2
<1>4. /\ controllerIds' = [controllerIds EXCEPT ![client] = None]
      /\ sinks' = [sinks EXCEPT ![client] = None]
      /\ job' = [job EXCEPT ![w] = Resume(job[w])]
      /\ UNCHANGED <<conn, controllers, made, registry>>
  BY Zenon, <1>1, <1>3 DEF ReapRest, JobOK
<1>5. /\ controllerIds' \in [Conn -> Key \cup {None}] /\ sinks' \in [Conn -> Sink \cup {None}]
      /\ controllers' \in [Key -> Row \cup {None}]
      /\ \A d \in Conn \ {client} : controllerIds'[d] = controllerIds[d] /\ sinks'[d] = sinks[d]
  BY Zenon, <1>1, <1>4 DEF IdentityOK
<1>6. ASSUME NEW l \in Key, NEW row \in Row, controllers[l] = row
      PROVE  row.client \in Conn \ {client}
  BY Zenon, <1>1, <1>2, <1>3, <1>6, RowTypes, NoneFacts DEF ReapShape, AloneWith, At
<1>7. RowsRemain
  BY Zenon, <1>1, <1>4, <1>5, <1>6, RowsUntouched
<1>8. /\ Resume(job[w]) \in Job /\ HasData(Resume(job[w]))
      /\ Resume(job[w]).at \notin {"claim", "row", "publish", "detach", "reapRest"}
  BY Zenon, <1>2, ResumeJob DEF Follow
<1> QED
  BY Zenon, <1>2, <1>4, <1>5, <1>7, <1>8, LeaveStep

LEMMA InitInv == Init => IInv
<1> SUFFICES ASSUME Init PROVE IInv
  BY Zenon
<1>1. \A c \in Conn : [state |-> "new", client |-> c, key |-> None, chan |-> 0,
                       evicted |-> FALSE] \in Connection
  BY Zenon DEF Connection
<1>2. IdentityOK
  BY Zenon, <1>1 DEF Init, IdentityOK
<1>3. RegistryOK /\ JobOK
  BY IdleJob, ControlAssumption DEF Init, RegistryOK, JobOK, ControlAssumption
<1>4. \A w \in Worker : job[w] = Idle
  BY Zenon DEF Init
<1>5. \A c \in Conn : conn[c].state = "new" /\ conn[c].key = None /\ conn[c].client = c
  BY Zenon DEF Init
<1>6. JobData
  BY Zenon, <1>4, IdleJob DEF JobData
<1>7. ConnShape
  BY Zenon, <1>4, <1>5, IdleJob, WorkerFacts DEF ConnShape, ConnOK, At
<1>8. RowShape
  BY Zenon, NoneFacts DEF Init, RowShape
<1>9. ReapShape
  BY Zenon, <1>4, IdleJob DEF ReapShape, At
<1>10. Newest
  BY Zenon, <1>5 DEF Newest, NewestOK
<1> QED
  BY Zenon, <1>2, <1>3, <1>6, <1>7, <1>8, <1>9, <1>10 DEF IInv

LEMMA NextInv == IInv /\ [Next]_vars => IInv'
<1> SUFFICES ASSUME IInv, [Next]_vars PROVE IInv'
  BY Zenon
<1>1. IdentityOK /\ RegistryOK /\ JobOK /\ JobData
  BY Zenon DEF IInv
<1>2. TypeOK /\ job \in [Worker -> Job]
  BY Zenon, <1>1 DEF IdentityOK, RegistryOK, JobOK, TypeOK
<1>3. ASSUME NEW c \in Conn, ConnectionStep(c) PROVE IInv'
  <2>1. CASE \E x \in Id : Offer(c, x) \/ AnswerLocal(c, x) \/ Delete(c, x)
    BY Zenon, <1>1, <1>2, <2>1, TakenStep, QuietKeeps
  <2> QED
    BY Zenon, <1>3, <2>1, ConnectStep, AttachRowStep, PublishStep, CloseStep, DetachStep, ClaimStep,
       ClaimAdmittedStep, ClaimRefusedStep DEF ConnectionStep
<1>4. ASSUME NEW w \in Worker, WorkerStep(w) PROVE IInv'
  <2>1. CASE IndexNewCall(w) \/ PipeRedirect(w) \/ PipeRegister(w)
    BY Zenon, <1>1, <1>2, <2>1, PipelineStep, QuietKeeps
  <2>2. CASE Free(w) \/ ReapCount(w)
    BY Zenon, <1>1, <1>2, <2>2, FreeStep, QuietKeeps
  <2>3. CASE \/ ReplaceCheck(w) \/ ReplaceRemove(w) \/ Build(w)
             \/ LocalRemove(w) \/ LocalRegate(w) \/ Insert(w)
             \/ TeardownCall(w) \/ Unpipe(w)
    BY Zenon, <1>1, <1>2, <2>3, CommandStep, QuietKeeps
  <2> QED
    BY Zenon, <1>4, <2>1, <2>2, <2>3, ReapRowStep, ReapRestStep DEF WorkerStep
<1>5. CASE (\E x \in Id : SweepFinds(x)) \/ ReapCall
  BY Zenon, <1>1, <1>2, <1>5, SweepStep, QuietKeeps, WorkerFacts
<1>6. CASE UNCHANGED vars
  <2>1. /\ UNCHANGED <<conn, controllers, controllerIds, sinks, made, job>>
        /\ UNCHANGED registry
    BY Zenon, <1>6 DEF vars, identity
  <2>2. IdentityOK' /\ RegistryOK' /\ JobOK' /\ JobData'
    BY Zenon, <1>1, <2>1, RegistryKept DEF IdentityOK, JobOK, JobData
  <2>3. ConnShape' /\ RowShape'
    BY <2>1 DEF IInv, ConnShape, ConnOK, RowShape, RowOK, AttachedOK, At
  <2>4. ReapShape' /\ Newest'
    BY <2>1 DEF IInv, ReapShape, AloneWith, Newest, NewestOK, At
  <2> QED
    BY Zenon, <2>2, <2>3, <2>4 DEF IInv
<1> QED
  BY Zenon, <1>3, <1>4, <1>5, <1>6 DEF Next

----------------------------------------------------------------------------
(* Every variable keeps its type: no task is without the data its next     *)
(* step needs (server.rs, dispatch.rs, offer.rs, answer_local.rs,          *)
(* teardown.rs, sweep.rs).                                                 *)
THEOREM TypeCorrect == Spec => []TypeOK
<1>1. IInv => TypeOK
  BY Zenon DEF IInv, IdentityOK, RegistryOK, JobOK, TypeOK
<1> QED
  BY <1>1, InitInv, NextInv, PTL DEF Spec

(* However many connections claim however many identities, an identity     *)
(* that exists has an event channel, which the connection attached to it   *)
(* drains (attach_controller, detach_controller, deregister_client,        *)
(* reap_detached_controller).                                              *)
THEOREM IdentityAlwaysHears == Spec => []IdentityHears
<1>1. ASSUME IInv PROVE IdentityHears
  <2>1. IdentityOK /\ RowShape
    BY Zenon, <1>1 DEF IInv
  <2>2. ASSUME NEW k \in Key, controllers[k] # None
        PROVE  RowOK(k, controllers[k])
    <3>1. controllers[k] \in Row
      BY Zenon, <2>1, <2>2 DEF IdentityOK
    <3> QED
      BY Zenon, <2>1, <3>1 DEF RowShape
  <2>3. ASSUME NEW k \in Key, NEW row, RowOK(k, row)
        PROVE  /\ sinks[row.client] # None
               /\ row.attached # None => /\ conn[row.attached].client = row.client
                                         /\ sinks[row.client].generation = row.attached
                                         /\ sinks[row.client].chan = conn[row.attached].chan
    BY <2>3, Zenon DEF RowOK, AttachedOK
  <2> QED
    BY <2>2, <2>3, Zenon DEF IdentityHears
<1>2. IInv => IdentityHears
  BY Zenon, <1>1
<1> QED
  BY <1>2, InitInv, NextInv, PTL DEF Spec

(* Newest wins (attach_controller): a connection that serves commands      *)
(* under an identity is the attached one, or told to close, or about to be *)
(* told.                                                                   *)
THEOREM NewestAlwaysServes == Spec => []NewestServes
<1>1. IInv => NewestServes
  BY Zenon DEF IInv, Newest, NewestOK, NewestServes, Serving
<1> QED
  BY <1>1, InitInv, NextInv, PTL DEF Spec
=============================================================================
