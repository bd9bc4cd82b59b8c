--------------------------- MODULE LeasePromises ---------------------------
(***************************************************************************)
(* What a lease promises, without tables or transactions: an account may   *)
(* be told "this resource is yours until t" only when nobody else has been *)
(* told so for a time that has not come yet.  Expiry needs no action: a    *)
(* promise ends when its time comes.                                       *)
(***************************************************************************)
EXTENDS Integers

CONSTANTS Account, Resource

VARIABLES leaseClock, promise

promiseVars == <<leaseClock, promise>>

Promise == [Account \X Resource -> Nat]

PromiseInit ==
  /\ leaseClock = 0
  /\ promise = [holding \in Account \X Resource |-> 0]

PassTime ==
  /\ leaseClock' = leaseClock + 1
  /\ UNCHANGED promise

\* A first lease, or a renewal, which may also be shorter than what it renews.
Grant(a, r) ==
  /\ \A b \in Account \ {a} : promise[<<b, r>>] <= leaseClock
  /\ promise' \in Promise
  /\ \A holding \in (Account \X Resource) \ {<<a, r>>} : promise'[holding] = promise[holding]
  /\ UNCHANGED leaseClock

\* A holder gives one up, or whoever removes the holder gives up all of them.
GiveUp(holdings) ==
  /\ promise' = [holding \in Account \X Resource |->
                   IF holding \in holdings THEN 0 ELSE promise[holding]]
  /\ UNCHANGED leaseClock

PromiseNext ==
  \/ PassTime
  \/ \E a \in Account, r \in Resource : Grant(a, r)
  \/ \E holdings \in SUBSET (Account \X Resource) : GiveUp(holdings)

PromiseSpec == PromiseInit /\ [][PromiseNext]_promiseVars

\* No resource is promised to two accounts at once.
Exclusive ==
  \A a, b \in Account : \A r \in Resource :
    (promise[<<a, r>>] > leaseClock /\ promise[<<b, r>>] > leaseClock) => a = b

=============================================================================
