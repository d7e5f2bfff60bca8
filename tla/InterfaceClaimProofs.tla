------------------------ MODULE InterfaceClaimProofs ------------------------
(***************************************************************************)
(* For any number of threads, interfaces and calls: what claim() and       *)
(* release() say is so in the kernel, a driver loses its interface only    *)
(* when a caller asked for it, and only a release makes a request reach an *)
(* interface that is not claimed.                                          *)
(***************************************************************************)
EXTENDS InterfaceClaim, TLAPS

CallType == [op : Ops, i : Interfaces, error : BOOLEAN, claimed : BOOLEAN,
             at : {"outside", "checked", "waiting", "completed"}]

\* What a completion does to the call it completes, and to the others.
LEMMA CompletionEffect ==
    ASSUME TypeOK, NEW c \in Callers, NEW e \in BOOLEAN, NEW f \in BOOLEAN,
           CompleteRequest(c, e, f)
    PROVE  /\ call' \in [Callers -> CallType]
           /\ call'[c].at = "completed" /\ call'[c].error = e
           /\ call'[c].op = call[c].op /\ call'[c].i = call[c].i
           /\ \A d \in Callers \ {c} : call'[d] = call[d]
           /\ native' = Idle
<1> DEFINE new == [call[c] EXCEPT !.at = "completed", !.error = e, !.claimed = f]
<1>1. call \in [Callers -> CallType] /\ call[c] \in CallType
    BY DEF TypeOK, CallType
<1>2. call' = [call EXCEPT ![c] = new]
    BY <1>1 DEF CompleteRequest
<1>3. /\ new \in CallType /\ new.at = "completed" /\ new.error = e
      /\ new.op = call[c].op /\ new.i = call[c].i
    BY <1>1 DEF CallType
<1> HIDE DEF new
<1> QED BY <1>1, <1>2, <1>3 DEF CompleteRequest

LEMMA TypeInit == Init => TypeOK
<1> SUFFICES ASSUME Init PROVE TypeOK
    OBVIOUS
<1>1. owner \in [Interfaces -> {"none", "us", "driver"}]
    BY DEF Init
<1>2. PICK i \in Interfaces :
          call = [c \in Callers |-> [op |-> "isClaimed", i |-> i, at |-> "outside",
                                     error |-> FALSE, claimed |-> FALSE]]
    BY DEF Init
<1>3. "isClaimed" \in Ops
    BY DEF Ops
<1>4. call \in [Callers -> CallType]
    BY <1>2, <1>3 DEF CallType
<1>5. calls \in [Callers -> 0..MaxCalls] /\ changes \in 0..MaxChanges
    BY BoundsAssumption DEF Init
<1> QED BY <1>1, <1>4, <1>5 DEF Init, TypeOK, CallType

LEMMA TypeStep == TypeOK /\ [Next]_vars => TypeOK'
<1> SUFFICES ASSUME TypeOK, [Next]_vars PROVE TypeOK'
    OBVIOUS
<1> USE BoundsAssumption
<1>1. /\ call \in [Callers -> CallType]
      /\ native \in {Idle} \cup [pc : {"serve", "disconnect"}, c : Callers, triedDisconnect : BOOLEAN]
    BY DEF TypeOK, CallType
<1>2. \A S : \A f \in [Interfaces -> S] : \A i \in Interfaces, o \in S :
          [f EXCEPT ![i] = o] \in [Interfaces -> S]
    OBVIOUS
<1>3. ASSUME NEW c \in Callers, Ask(c) PROVE TypeOK'
    <2>1. PICK op \in Ops, i \in Interfaces :
              call' = [call EXCEPT ![c] = [op |-> op, i |-> i, at |-> "checked",
                                           error |-> FALSE, claimed |-> FALSE]]
        BY <1>3 DEF Ask
    <2>2. call' \in [Callers -> CallType]
        BY <1>1, <2>1 DEF CallType
    <2>3. calls' \in [Callers -> 0..MaxCalls]
        BY <1>3 DEF Ask, TypeOK
    <2>4. refusals' \in [Callers -> 0..2] /\ overtaken' \subseteq Callers
        BY <1>3 DEF Ask, TypeOK
    <2> QED BY <1>3, <2>2, <2>3, <2>4 DEF Ask, TypeOK, CallType, kernel
<1>4. ASSUME NEW c \in Callers, Submit(c) PROVE TypeOK'
    <2>1. call' \in [Callers -> CallType]
        BY <1>1, <1>4 DEF Submit, CallType
    <2> QED BY <1>4, <2>1 DEF Submit, TypeOK, CallType, kernel, history
<1>5. ASSUME NEW c \in Callers, Return(c) PROVE TypeOK'
    <2>1. call' \in [Callers -> CallType] /\ call[c].i \in Interfaces
        BY <1>1, <1>5 DEF Return, CallType
    <2>2. javaClaimed' \in [Interfaces -> BOOLEAN]
        BY <1>5, <2>1 DEF Return, TypeOK
    <2> QED BY <1>5, <2>1, <2>2 DEF Return, TypeOK, CallType, kernel, history
<1>6. ASSUME NEW c \in Callers, Proxy(c) PROVE TypeOK'
    <2>1. call[c].i \in Interfaces
        BY <1>1 DEF CallType
    <2>2. ASSUME NEW e \in BOOLEAN, NEW f \in BOOLEAN, CompleteRequest(c, e, f)
          PROVE  call' \in [Callers -> CallType] /\ native' = Idle
        BY <2>2, CompletionEffect
    <2>3. ASSUME NEW o \in {"none", "us", "driver"}, Bind(call[c].i, o)
          PROVE  owner' \in [Interfaces -> {"none", "us", "driver"}]
        BY <1>2, <2>1, <2>3 DEF Bind, TypeOK
    <2>4. CASE ClaimInterface(c)
        <3>1. call' \in [Callers -> CallType] /\ native' = Idle
            BY <2>2, <2>4 DEF ClaimInterface, Ret
        <3>2. owner' \in [Interfaces -> {"none", "us", "driver"}]
            BY <2>3, <2>4 DEF ClaimInterface
        <3> QED BY <2>4, <3>1, <3>2 DEF ClaimInterface, TypeOK, CallType
    <2>5. CASE ClaimRefused(c)
        <3>1. /\ UNCHANGED <<owner, changes, javaClaimed, readyList, calls, overtaken, stray>>
              /\ refusals' \in [Callers -> 0..2]
            BY <2>5 DEF ClaimRefused, kernel, TypeOK
        <3>2. CASE MayDisconnect(c)
            <4>1. native # Idle
                BY <2>5 DEF ClaimRefused, Serving, Idle
            <4>2. native' \in [pc : {"serve", "disconnect"}, c : Callers, triedDisconnect : BOOLEAN]
                BY <1>1, <2>5, <3>2, <4>1 DEF ClaimRefused
            <4> QED BY <2>5, <3>1, <3>2, <4>2 DEF ClaimRefused, TypeOK
        <3>3. CASE ~MayDisconnect(c)
            <4>1. call' \in [Callers -> CallType] /\ native' = Idle
                BY <2>2, <2>5, <3>3 DEF ClaimRefused, Ret
            <4> QED BY <3>1, <4>1 DEF TypeOK, CallType
        <3> QED BY <3>2, <3>3
    <2>6. CASE DisconnectDriver(c)
        <3>1. native # Idle
            BY <2>6 DEF DisconnectDriver, Idle
        <3>2. native' \in [pc : {"serve", "disconnect"}, c : Callers, triedDisconnect : BOOLEAN]
            BY <1>1, <2>6, <3>1 DEF DisconnectDriver
        <3>3. owner' \in [Interfaces -> {"none", "us", "driver"}]
            BY <2>3, <2>6 DEF DisconnectDriver, TypeOK
        <3> QED BY <2>6, <3>2, <3>3 DEF DisconnectDriver, TypeOK
    <2>7. CASE ReleaseInterface(c)
        <3>1. call' \in [Callers -> CallType] /\ native' = Idle
            BY <2>2, <2>7 DEF ReleaseInterface
        <3>2. owner' \in [Interfaces -> {"none", "us", "driver"}]
            BY <2>3, <2>7 DEF ReleaseInterface, TypeOK
        <3>3. stray' \subseteq Interfaces /\ overtaken' \subseteq Callers
            BY <2>7 DEF ReleaseInterface, TypeOK
        <3> QED BY <2>7, <3>1, <3>2, <3>3 DEF ReleaseInterface, TypeOK, CallType
    <2>8. CASE IsClaimed(c)
        <3>1. call' \in [Callers -> CallType] /\ native' = Idle
            BY <2>2, <2>8 DEF IsClaimed, HasDriver
        <3> QED BY <2>8, <3>1 DEF IsClaimed, TypeOK, CallType, kernel, history
    <2>9. CASE UseInterface(c)
        <3>1. call' \in [Callers -> CallType] /\ native' = Idle
            BY <2>2, <2>9 DEF UseInterface
        <3>2. owner' \in [Interfaces -> {"none", "us", "driver"}]
            BY <2>3, <2>9 DEF UseInterface, TypeOK
        <3>3. stray' \subseteq Interfaces
            BY <2>1, <2>9 DEF UseInterface, TypeOK
        <3> QED BY <2>9, <3>1, <3>2, <3>3 DEF UseInterface, TypeOK, CallType
    <2>10. CASE SetConfiguration(c)
        <3>1. call' \in [Callers -> CallType] /\ native' = Idle
            BY <2>2, <2>10 DEF SetConfiguration
        <3> QED BY <2>10, <3>1 DEF SetConfiguration, TypeOK, CallType, kernel, history
    <2>11. CASE ControlOnly(c)
        <3>1. call' \in [Callers -> CallType] /\ native' = Idle
            BY <2>2, <2>11 DEF ControlOnly
        <3> QED BY <2>11, <3>1 DEF ControlOnly, TypeOK, CallType, kernel, history
    <2>12. CASE OutOfMemory(c)
        <3>1. call' \in [Callers -> CallType] /\ native' = Idle
            BY <2>2, <2>12 DEF OutOfMemory
        <3> QED BY <2>12, <3>1 DEF OutOfMemory, TypeOK, CallType, kernel, history
    <2> QED BY <1>6, <2>4, <2>5, <2>6, <2>7, <2>8, <2>9, <2>10, <2>11, <2>12 DEF Proxy
<1>7. CASE GetReadyRequest
    <2>1. Head(readyList) \in Callers /\ Tail(readyList) \in Seq(Callers)
        BY <1>7 DEF GetReadyRequest, TypeOK
    <2> QED BY <1>7, <2>1 DEF GetReadyRequest, TypeOK, kernel, history
<1>8. CASE OthersChange
    <2>1. PICK i \in Interfaces, o \in {"none", "driver"} : Bind(i, o)
        BY <1>8 DEF OthersChange
    <2>2. owner' \in [Interfaces -> {"none", "us", "driver"}]
        BY <1>2, <2>1 DEF Bind, TypeOK
    <2>3. changes' \in 0..MaxChanges
        BY <1>8 DEF OthersChange, TypeOK
    <2> QED BY <1>8, <2>2, <2>3 DEF OthersChange, TypeOK
<1>9. CASE UNCHANGED vars
    BY <1>9 DEF vars, history, TypeOK
<1> QED BY <1>3, <1>4, <1>5, <1>6, <1>7, <1>8, <1>9 DEF Next

\* Every variable of the calls, the queue and the kernel keeps its type.
THEOREM ClaimTypes == Spec => []TypeOK
BY TypeInit, TypeStep, PTL DEF Spec

-----------------------------------------------------------------------------
(* The inductive invariant.                                                *)

\* A thread that waits has its request in the queue or with the proxy, once.
QueueInv ==
    /\ \A k \in 1..Len(readyList) : call[readyList[k]].at = "waiting"
    /\ \A j, k \in 1..Len(readyList) : readyList[j] = readyList[k] => j = k
    /\ native # Idle => /\ call[native.c].at = "waiting"
                        /\ \A k \in 1..Len(readyList) : readyList[k] # native.c

\* What UsbInterfaceImp noted does not change in the midst of a claim or release.
KeepingInv ==
    \A c \in Callers : call[c].at # "outside" /\ call[c].op \in Keeping =>
        Keeper[call[c].i] = c /\ (javaClaimed[call[c].i] <=> call[c].op = "release")

\* What it will have noted when the call of the keeper, if it is served, returns.
Ours(i) ==
    IF InMidst(i, Keeping) /\ call[Keeper[i]].at = "completed" /\ ~call[Keeper[i]].error
    THEN call[Keeper[i]].op # "release"
    ELSE javaClaimed[i]

\* The kernel agrees, at every moment.
OwnerInv ==
    \A i \in Interfaces : /\ Ours(i) => owner[i] = "us"
                          /\ owner[i] = "us" => Ours(i) \/ i \in stray

\* A request that was checked and that no release overtook finds its interface claimed.
UsingInv ==
    \A c \in Callers : /\ call[c].at \in {"checked", "waiting"}
                       /\ call[c].op \in Checked
                       /\ c \notin overtaken
                       => owner[call[c].i] = "us"

\* Only the proxy refuses, and once before it goes round.
RefusalInv ==
    /\ \A c \in Callers : call[c].at \in {"checked", "waiting"} =>
          refusals[c] = IF native # Idle /\ native.c = c /\ native.triedDisconnect THEN 1 ELSE 0
    /\ native.pc = "disconnect" => native.triedDisconnect /\ call[native.c].op = "forceClaim"

ClaimInv == TypeOK /\ QueueInv /\ KeepingInv /\ OwnerInv /\ UsingInv /\ RefusalInv

LEMMA InvInit == Init => ClaimInv
<1> SUFFICES ASSUME Init PROVE ClaimInv
    OBVIOUS
<1>1. TypeOK
    BY TypeInit
<1>2. /\ \A c \in Callers : call[c].at = "outside" /\ call[c].op = "isClaimed"
      /\ \A i \in Interfaces : ~javaClaimed[i] /\ owner[i] # "us"
      /\ native = Idle /\ Len(readyList) = 0
    BY DEF Init
<1>3. \A i \in Interfaces : ~InMidst(i, Keeping)
    BY <1>2, KeeperAssumption DEF InMidst
<1>4. native.pc # "disconnect"
    BY <1>2 DEF Idle
<1> QED BY <1>1, <1>2, <1>3, <1>4
        DEF ClaimInv, QueueInv, KeepingInv, Ours, OwnerInv, UsingInv, RefusalInv

-----------------------------------------------------------------------------
(* The application threads.                                                *)

LEMMA CallTyped ==
    ASSUME TypeOK
    PROVE  /\ call \in [Callers -> CallType]
           /\ readyList \in Seq(Callers)
           /\ native # Idle => native.c \in Callers /\ native.triedDisconnect \in BOOLEAN
           /\ Idle.pc = "poll"
BY DEF TypeOK, CallType, Idle

LEMMA AskStep ==
    ASSUME ClaimInv, NEW c \in Callers, Ask(c)
    PROVE  QueueInv' /\ KeepingInv' /\ OwnerInv' /\ UsingInv' /\ RefusalInv'
<1>1. PICK op \in Ops, i \in Interfaces :
          /\ MayAsk(c, op, i)
          /\ call' = [call EXCEPT ![c] = [op |-> op, i |-> i, at |-> "checked",
                                          error |-> FALSE, claimed |-> FALSE]]
          /\ overtaken' = IF ReleaseReturning(i) THEN overtaken \cup {c} ELSE overtaken \ {c}
    BY DEF Ask
<1>2. /\ call[c].at = "outside"
      /\ refusals' = [refusals EXCEPT ![c] = 0]
      /\ UNCHANGED <<owner, javaClaimed, readyList, native, stray>>
    BY DEF Ask, kernel
<1>3. /\ call \in [Callers -> CallType] /\ readyList \in Seq(Callers)
      /\ native # Idle => native.c \in Callers
      /\ refusals \in [Callers -> 0..2]
    BY CallTyped DEF ClaimInv, TypeOK
<1>4. /\ call'[c].at = "checked" /\ call'[c].op = op /\ call'[c].i = i
      /\ \A d \in Callers \ {c} : call'[d] = call[d]
      /\ refusals'[c] = 0 /\ \A d \in Callers \ {c} : refusals'[d] = refusals[d]
    BY <1>1, <1>2, <1>3
<1>5. /\ \A k \in 1..Len(readyList) : readyList[k] \in Callers /\ readyList[k] # c
      /\ native # Idle => native.c # c
    BY <1>2, <1>3 DEF ClaimInv, QueueInv
<1>6. QueueInv'
    BY <1>2, <1>3, <1>4, <1>5 DEF ClaimInv, QueueInv
<1>7. KeepingInv'
    BY <1>1, <1>2, <1>3, <1>4 DEF ClaimInv, KeepingInv, MayAsk, Keeping, CallType
<1>8. \A j \in Interfaces : Ours(j)' <=> Ours(j)
    BY <1>2, <1>4, KeeperAssumption DEF Ours, InMidst
<1>9. OwnerInv'
    BY <1>2, <1>8 DEF ClaimInv, OwnerInv
<1>10. op \in Checked /\ ~ReleaseReturning(i) => owner[i] = "us"
    <2> SUFFICES ASSUME op \in Checked, ~ReleaseReturning(i), ~Ours(i) PROVE FALSE
        BY DEF ClaimInv, OwnerInv
    <2>1. javaClaimed[i] /\ Keeper[i] \in Callers
        BY <1>1, KeeperAssumption DEF MayAsk
    <2>2. /\ InMidst(i, Keeping) /\ call[Keeper[i]].at = "completed"
          /\ call[Keeper[i]].op = "release"
        BY <2>1 DEF Ours
    <2> QED BY <2>1, <2>2 DEF ReleaseReturning, InMidst
<1>11. UsingInv'
    BY <1>1, <1>2, <1>4, <1>10 DEF ClaimInv, UsingInv
<1>12. RefusalInv'
    <2>1. native.pc = "disconnect" => native # Idle
        BY CallTyped DEF ClaimInv
    <2>2. native.pc = "disconnect" => native.triedDisconnect /\ call'[native.c].op = "forceClaim"
        BY <1>3, <1>4, <1>5, <2>1 DEF ClaimInv, RefusalInv
    <2>3. ASSUME NEW d \in Callers \ {c}, call[d].at \in {"checked", "waiting"}
          PROVE  refusals[d] = IF native # Idle /\ native.c = d /\ native.triedDisconnect
                               THEN 1 ELSE 0
        BY <2>3 DEF ClaimInv, RefusalInv
    <2>4. native # Idle /\ native.c = c /\ native.triedDisconnect <=> FALSE
        BY <1>5
    <2> QED BY <1>2, <1>4, <2>2, <2>3, <2>4 DEF RefusalInv
<1> QED BY <1>6, <1>7, <1>9, <1>11, <1>12

LEMMA SubmitStep ==
    ASSUME ClaimInv, NEW c \in Callers, Submit(c)
    PROVE  QueueInv' /\ KeepingInv' /\ OwnerInv' /\ UsingInv' /\ RefusalInv'
<1>1. /\ call[c].at = "checked"
      /\ call' = [call EXCEPT ![c].at = "waiting"]
      /\ readyList' = Append(readyList, c)
      /\ UNCHANGED <<owner, javaClaimed, native, refusals, overtaken, stray>>
    BY DEF Submit, kernel, history
<1>2. /\ call \in [Callers -> CallType] /\ readyList \in Seq(Callers)
      /\ native # Idle => native.c \in Callers
    BY CallTyped DEF ClaimInv
<1>3. /\ call'[c].at = "waiting" /\ call'[c].op = call[c].op /\ call'[c].i = call[c].i
      /\ call'[c].error = call[c].error
      /\ \A d \in Callers \ {c} : call'[d] = call[d]
    BY <1>1, <1>2 DEF CallType
<1>4. /\ \A k \in 1..Len(readyList) : readyList[k] \in Callers /\ readyList[k] # c
      /\ native # Idle => native.c # c
    BY <1>1, <1>2 DEF ClaimInv, QueueInv
<1>5. /\ Len(readyList) \in Nat /\ Len(readyList') = Len(readyList) + 1
      /\ \A k \in 1..Len(readyList) : readyList'[k] = readyList[k]
      /\ readyList'[Len(readyList) + 1] = c
    BY <1>1, <1>2
<1>6. QueueInv'
    <2>1. \A k \in 1..Len(readyList') : k \in 1..Len(readyList) \/ k = Len(readyList) + 1
        BY <1>5
    <2> QED BY <1>1, <1>2, <1>3, <1>4, <1>5, <2>1 DEF ClaimInv, QueueInv
<1>7. KeepingInv'
    BY <1>1, <1>3 DEF ClaimInv, KeepingInv
<1>8. \A j \in Interfaces : Ours(j)' <=> Ours(j)
    BY <1>1, <1>3, KeeperAssumption DEF Ours, InMidst
<1>9. OwnerInv'
    BY <1>1, <1>8 DEF ClaimInv, OwnerInv
<1>10. UsingInv'
    BY <1>1, <1>3 DEF ClaimInv, UsingInv
<1>11. RefusalInv'
    BY <1>1, <1>3, <1>4 DEF ClaimInv, RefusalInv
<1> QED BY <1>6, <1>7, <1>9, <1>10, <1>11

\* When the call of the keeper returns, what is noted is what Ours foretold.
LEMMA ReturnStep ==
    ASSUME ClaimInv, NEW c \in Callers, Return(c)
    PROVE  QueueInv' /\ KeepingInv' /\ OwnerInv' /\ UsingInv' /\ RefusalInv'
<1>1. /\ call[c].at = "completed"
      /\ call' = [call EXCEPT ![c].at = "outside"]
      /\ javaClaimed' = IF call[c].error \/ call[c].op \notin Keeping THEN javaClaimed
                        ELSE [javaClaimed EXCEPT ![call[c].i] = call[c].op # "release"]
      /\ UNCHANGED <<owner, readyList, native, refusals, overtaken, stray>>
    BY DEF Return, kernel, history
<1>2. /\ call \in [Callers -> CallType] /\ readyList \in Seq(Callers)
      /\ native # Idle => native.c \in Callers
      /\ javaClaimed \in [Interfaces -> BOOLEAN]
    BY CallTyped DEF ClaimInv, TypeOK
<1>3. /\ call'[c].at = "outside" /\ call'[c].op = call[c].op /\ call'[c].i = call[c].i
      /\ \A d \in Callers \ {c} : call'[d] = call[d]
      /\ call[c].i \in Interfaces
    BY <1>1, <1>2 DEF CallType
<1>4. /\ \A k \in 1..Len(readyList) : readyList[k] \in Callers /\ readyList[k] # c
      /\ native # Idle => native.c # c
    BY <1>1, <1>2 DEF ClaimInv, QueueInv
<1>5. QueueInv'
    BY <1>1, <1>2, <1>3, <1>4 DEF ClaimInv, QueueInv
<1>6. KeepingInv'
    <2> SUFFICES ASSUME NEW d \in Callers, call'[d].at # "outside", call'[d].op \in Keeping
                 PROVE  /\ Keeper[call'[d].i] = d
                        /\ javaClaimed'[call'[d].i] <=> call'[d].op = "release"
        BY DEF KeepingInv
    <2>1. d # c /\ call'[d] = call[d]
        BY <1>3
    <2>2. Keeper[call[d].i] = d /\ (javaClaimed[call[d].i] <=> call[d].op = "release")
        BY <2>1 DEF ClaimInv, KeepingInv
    <2>3. javaClaimed'[call[d].i] = javaClaimed[call[d].i]
        <3>1. CASE call[c].error \/ call[c].op \notin Keeping
            BY <1>1, <3>1
        <3>2. CASE call[c].op \in Keeping /\ ~call[c].error
            <4>1. Keeper[call[c].i] = c
                BY <1>1, <3>2 DEF ClaimInv, KeepingInv
            <4> QED BY <1>1, <1>2, <1>3, <2>1, <2>2, <3>2, <4>1
        <3> QED BY <3>1, <3>2
    <2> QED BY <2>1, <2>2, <2>3
<1>7. ASSUME NEW j \in Interfaces PROVE Ours(j)' <=> Ours(j)
    <2>1. Keeper[j] \in Callers
        BY KeeperAssumption
    <2>2. CASE call[c].op \in Keeping /\ call[c].i = j
        <3>1. Keeper[j] = c
            BY <1>1, <2>2 DEF ClaimInv, KeepingInv
        <3>2. ~InMidst(j, Keeping)' /\ InMidst(j, Keeping)
            BY <1>1, <1>3, <2>2, <3>1 DEF InMidst
        <3>3. CASE call[c].error
            BY <1>1, <3>1, <3>2, <3>3 DEF Ours
        <3>4. CASE ~call[c].error
            <4>1. javaClaimed'[j] = (call[c].op # "release")
                BY <1>1, <1>2, <2>2, <3>4
            <4> QED BY <1>1, <3>1, <3>2, <3>4, <4>1 DEF Ours
        <3> QED BY <3>3, <3>4
    <2>3. CASE ~(call[c].op \in Keeping /\ call[c].i = j)
        <3>1. javaClaimed'[j] = javaClaimed[j]
            BY <1>1, <1>2, <1>3, <2>3
        <3>2. InMidst(j, Keeping)' <=> InMidst(j, Keeping)
            BY <1>3, <2>1, <2>3 DEF InMidst
        <3>3. InMidst(j, Keeping) => Keeper[j] # c
            BY <2>3 DEF InMidst
        <3> QED BY <1>3, <2>1, <3>1, <3>2, <3>3 DEF Ours
    <2> QED BY <2>2, <2>3
<1>8. OwnerInv'
    BY <1>1, <1>7 DEF ClaimInv, OwnerInv
<1>9. UsingInv'
    BY <1>1, <1>3 DEF ClaimInv, UsingInv
<1>10. RefusalInv'
    BY <1>1, <1>3, <1>4 DEF ClaimInv, RefusalInv
<1> QED BY <1>5, <1>6, <1>8, <1>9, <1>10

-----------------------------------------------------------------------------
(* The proxy thread.                                                       *)

LEMMA GetReadyStep ==
    ASSUME ClaimInv, GetReadyRequest
    PROVE  QueueInv' /\ KeepingInv' /\ OwnerInv' /\ UsingInv' /\ RefusalInv'
<1>1. /\ native = Idle /\ readyList # <<>>
      /\ native' = [pc |-> "serve", c |-> Head(readyList), triedDisconnect |-> FALSE]
      /\ readyList' = Tail(readyList)
      /\ UNCHANGED <<owner, javaClaimed, call, refusals, overtaken, stray>>
    BY DEF GetReadyRequest, kernel, history
<1>2. readyList \in Seq(Callers)
    BY CallTyped DEF ClaimInv
<1>3. /\ Len(readyList) \in Nat /\ Len(readyList) >= 1
      /\ Len(readyList') = Len(readyList) - 1
      /\ Head(readyList) = readyList[1]
      /\ \A k \in 1..Len(readyList') : readyList'[k] = readyList[k + 1]
    BY <1>1, <1>2
<1>4. \A k \in 1..Len(readyList') : k + 1 \in 1..Len(readyList) /\ k + 1 # 1
    BY <1>3
<1>5. 1 \in 1..Len(readyList)
    BY <1>3
<1>6. QueueInv'
    <2>1. \A k \in 1..Len(readyList') : call'[readyList'[k]].at = "waiting"
        BY <1>1, <1>3, <1>4 DEF ClaimInv, QueueInv
    <2>2. \A k \in 1..Len(readyList') : readyList'[k] # native'.c
        BY <1>1, <1>3, <1>4, <1>5 DEF ClaimInv, QueueInv
    <2>3. ASSUME NEW j \in 1..Len(readyList'), NEW k \in 1..Len(readyList'),
                 readyList'[j] = readyList'[k]
          PROVE  j = k
        <3>1. j + 1 = k + 1
            BY <1>3, <1>4, <2>3 DEF ClaimInv, QueueInv
        <3> QED BY <1>3, <3>1
    <2>4. call'[native'.c].at = "waiting"
        BY <1>1, <1>3, <1>5 DEF ClaimInv, QueueInv
    <2> QED BY <2>1, <2>2, <2>3, <2>4 DEF QueueInv
<1>7. KeepingInv'
    BY <1>1 DEF ClaimInv, KeepingInv
<1>8. \A j \in Interfaces : Ours(j)' <=> Ours(j)
    BY <1>1 DEF Ours, InMidst
<1>9. OwnerInv' /\ UsingInv'
    BY <1>1, <1>8 DEF ClaimInv, OwnerInv, UsingInv
<1>10. RefusalInv'
    <2>1. native' # Idle /\ native'.pc = "serve" /\ native'.triedDisconnect = FALSE
        BY <1>1 DEF Idle
    <2> QED BY <1>1, <2>1 DEF ClaimInv, RefusalInv
<1> QED BY <1>6, <1>7, <1>9, <1>10

\* A completion ends what the proxy does with one request.  Of what the claims
\* will be it changes only that of a claim or release that it completes without error.
LEMMA CompletionStep ==
    ASSUME ClaimInv, NEW c \in Callers, Serving(c, Ops),
           NEW e \in BOOLEAN, NEW f \in BOOLEAN, CompleteRequest(c, e, f),
           UNCHANGED <<readyList, javaClaimed>>,
           \A d \in Callers \ {c} : refusals'[d] = refusals[d]
    PROVE  /\ QueueInv' /\ KeepingInv' /\ RefusalInv'
           /\ call[c].at = "waiting" /\ call[c].i \in Interfaces
           /\ call[c].op \in Keeping => (Ours(call[c].i) <=> call[c].op = "release")
           /\ \A i \in Interfaces :
                 Ours(i)' <=> IF i = call[c].i /\ call[c].op \in Keeping /\ ~e
                              THEN call[c].op # "release" ELSE Ours(i)
<1>1. /\ call \in [Callers -> CallType] /\ readyList \in Seq(Callers)
      /\ native # Idle /\ native.c = c /\ Idle.pc = "poll"
    BY CallTyped DEF ClaimInv, Serving
<1>2. /\ call'[c].at = "completed" /\ call'[c].error = e
      /\ call'[c].op = call[c].op /\ call'[c].i = call[c].i
      /\ \A d \in Callers \ {c} : call'[d] = call[d]
      /\ native' = Idle
    BY CompletionEffect DEF ClaimInv
<1>3. call[c].at = "waiting" /\ call[c].i \in Interfaces
    BY <1>1 DEF ClaimInv, QueueInv, CallType
<1>4. \A k \in 1..Len(readyList) : readyList[k] \in Callers /\ readyList[k] # c
    BY <1>1 DEF ClaimInv, QueueInv
<1>5. QueueInv'
    BY <1>2, <1>4 DEF ClaimInv, QueueInv
<1>6. KeepingInv'
    BY <1>2, <1>3 DEF ClaimInv, KeepingInv
<1>7. RefusalInv'
    <2>1. ASSUME NEW d \in Callers \ {c}, call[d].at \in {"checked", "waiting"}
          PROVE  refusals[d] = 0
        BY <1>1, <2>1 DEF ClaimInv, RefusalInv
    <2>2. native'.pc # "disconnect"
        BY <1>1, <1>2
    <2> QED BY <1>2, <2>1, <2>2 DEF RefusalInv
<1>8. ASSUME call[c].op \in Keeping
      PROVE  /\ Keeper[call[c].i] = c /\ InMidst(call[c].i, Keeping)
             /\ Ours(call[c].i) <=> call[c].op = "release"
    <2>1. Keeper[call[c].i] = c /\ (javaClaimed[call[c].i] <=> call[c].op = "release")
        BY <1>3, <1>8 DEF ClaimInv, KeepingInv
    <2> QED BY <1>3, <1>8, <2>1 DEF Ours, InMidst
<1>9. ASSUME NEW i \in Interfaces
      PROVE  Ours(i)' <=> IF i = call[c].i /\ call[c].op \in Keeping /\ ~e
                          THEN call[c].op # "release" ELSE Ours(i)
    <2>1. Keeper[i] \in Callers
        BY KeeperAssumption
    <2>2. InMidst(i, Keeping)' <=> InMidst(i, Keeping)
        BY <1>2, <1>3, <2>1 DEF InMidst
    <2>3. CASE i = call[c].i /\ call[c].op \in Keeping
        BY <1>2, <1>3, <1>8, <2>2, <2>3 DEF Ours
    <2>4. CASE ~(i = call[c].i /\ call[c].op \in Keeping)
        <3>1. InMidst(i, Keeping) => Keeper[i] # c
            BY <2>4 DEF InMidst
        <3> QED BY <1>2, <2>1, <2>2, <2>4, <3>1 DEF Ours
    <2> QED BY <2>3, <2>4
<1> QED BY <1>3, <1>5, <1>6, <1>7, <1>8, <1>9

\* A completion that leaves the kernel as it is.
LEMMA QuietCompletion ==
    ASSUME ClaimInv, NEW c \in Callers, Serving(c, Ops),
           NEW e \in BOOLEAN, NEW f \in BOOLEAN, CompleteRequest(c, e, f),
           e \/ call[c].op \notin Keeping,
           UNCHANGED <<readyList, javaClaimed, owner, overtaken, stray>>,
           \A d \in Callers \ {c} : refusals'[d] = refusals[d]
    PROVE  QueueInv' /\ KeepingInv' /\ OwnerInv' /\ UsingInv' /\ RefusalInv'
<1>1. QueueInv' /\ KeepingInv' /\ RefusalInv' /\ \A i \in Interfaces : Ours(i)' <=> Ours(i)
    BY CompletionStep
<1>2. OwnerInv'
    BY <1>1 DEF ClaimInv, OwnerInv
<1>3. UsingInv'
    BY CompletionEffect DEF ClaimInv, UsingInv
<1> QED BY <1>1, <1>2, <1>3

\* A completion leaves a request that waits its interface, if the kernel does.
LEMMA CompletionUses ==
    ASSUME ClaimInv, NEW c \in Callers, NEW e \in BOOLEAN, NEW f \in BOOLEAN,
           CompleteRequest(c, e, f), overtaken' = overtaken,
           \A i \in Interfaces : owner[i] = "us" => owner'[i] = "us"
    PROVE  UsingInv'
<1> SUFFICES ASSUME NEW d \in Callers, call'[d].at \in {"checked", "waiting"},
                    call'[d].op \in Checked, d \notin overtaken'
             PROVE  owner'[call'[d].i] = "us"
    BY DEF UsingInv
<1>1. d # c /\ call'[d] = call[d]
    BY CompletionEffect DEF ClaimInv
<1>2. call[d].i \in Interfaces
    BY CallTyped DEF ClaimInv, CallType
<1> QED BY <1>1, <1>2 DEF ClaimInv, UsingInv

LEMMA ProxyStep ==
    ASSUME ClaimInv, NEW c \in Callers, Proxy(c)
    PROVE  QueueInv' /\ KeepingInv' /\ OwnerInv' /\ UsingInv' /\ RefusalInv'
<1>1. /\ call \in [Callers -> CallType] /\ Idle.pc = "poll"
      /\ native # Idle => native.c \in Callers /\ native.triedDisconnect \in BOOLEAN
      /\ owner \in [Interfaces -> {"none", "us", "driver"}]
      /\ refusals \in [Callers -> 0..2]
      /\ native \in {Idle} \cup [pc : {"serve", "disconnect"}, c : Callers, triedDisconnect : BOOLEAN]
      /\ overtaken \subseteq Callers
    BY CallTyped DEF ClaimInv, TypeOK
<1>2. call[c].i \in Interfaces /\ call[c].op \in Ops
    BY <1>1 DEF CallType
<1>3. \A e, f \in BOOLEAN : CompleteRequest(c, e, f) =>
          call'[c].at = "completed" /\ \A d \in Callers \ {c} : call'[d] = call[d]
    BY CompletionEffect DEF ClaimInv
<1>4. CASE ClaimInterface(c)
    <2>1. /\ Serving(c, Ops) /\ call[c].op \in {"claim", "forceClaim"}
          /\ CompleteRequest(c, FALSE, FALSE)
          /\ UNCHANGED <<readyList, javaClaimed, refusals, overtaken>>
          /\ owner' = [owner EXCEPT ![call[c].i] = "us"] /\ stray' = stray \ {call[c].i}
        BY <1>2, <1>4 DEF ClaimInterface, Serving, Ret, Bind
    <2>2. /\ QueueInv' /\ KeepingInv' /\ RefusalInv'
          /\ \A i \in Interfaces : Ours(i)' <=> i = call[c].i \/ Ours(i)
        BY <2>1, CompletionStep DEF Keeping
    <2>3. OwnerInv'
        BY <1>1, <1>2, <2>1, <2>2 DEF ClaimInv, OwnerInv
    <2>4. UsingInv'
        BY <1>1, <1>2, <2>1, CompletionUses
    <2> QED BY <2>2, <2>3, <2>4
<1>5. CASE ClaimRefused(c)
    <2>1. /\ Serving(c, Ops) /\ native # Idle /\ native.c = c
          /\ UNCHANGED <<readyList, javaClaimed, owner, overtaken, stray>>
          /\ \A d \in Callers \ {c} : refusals'[d] = refusals[d]
          /\ refusals'[c] = IF refusals[c] = 2 THEN 2 ELSE refusals[c] + 1
        BY <1>1, <1>2, <1>5 DEF ClaimRefused, Serving, kernel
    <2>2. CASE MayDisconnect(c)
        <3>1. /\ call[c].op = "forceClaim" /\ ~native.triedDisconnect
              /\ native' = [native EXCEPT !.pc = "disconnect", !.triedDisconnect = TRUE]
              /\ call' = call
            BY <1>5, <2>2 DEF ClaimRefused, MayDisconnect
        <3>2. native' # Idle /\ native'.c = c /\ native'.triedDisconnect = TRUE
            BY <1>1, <2>1, <3>1
        <3>3. call[c].at = "waiting"
            BY <2>1 DEF ClaimInv, QueueInv
        <3>4. refusals[c] = 0
            BY <2>1, <3>1, <3>3 DEF ClaimInv, RefusalInv
        <3>5. RefusalInv'
            <4>1. \A d \in Callers \ {c} : call[d].at \in {"checked", "waiting"} => refusals[d] = 0
                BY <2>1 DEF ClaimInv, RefusalInv
            <4>2. refusals'[c] = 1
                BY <2>1, <3>4
            <4> QED BY <2>1, <3>1, <3>2, <4>1, <4>2 DEF RefusalInv
        <3>6. QueueInv'
            BY <2>1, <3>1, <3>2 DEF ClaimInv, QueueInv
        <3>7. \A i \in Interfaces : Ours(i)' <=> Ours(i)
            BY <2>1, <3>1 DEF Ours, InMidst
        <3>8. KeepingInv' /\ OwnerInv' /\ UsingInv'
            BY <2>1, <3>1, <3>7 DEF ClaimInv, KeepingInv, OwnerInv, UsingInv
        <3> QED BY <3>5, <3>6, <3>8
    <2>3. CASE ~MayDisconnect(c)
        <3>1. CompleteRequest(c, TRUE, FALSE)
            BY <1>5, <2>3 DEF ClaimRefused, Ret
        <3> QED BY <2>1, <3>1, QuietCompletion
    <2> QED BY <2>2, <2>3
<1>6. CASE DisconnectDriver(c)
    <2>1. /\ native.pc = "disconnect" /\ native # Idle /\ native.c = c
          /\ native' = [native EXCEPT !.pc = "serve"]
          /\ UNCHANGED <<javaClaimed, call, readyList, refusals, overtaken, stray>>
        BY <1>1, <1>6 DEF DisconnectDriver
    <2>2. \A i \in Interfaces : owner'[i] = "us" <=> owner[i] = "us"
        BY <1>1, <1>2, <1>6 DEF DisconnectDriver, Bind
    <2>3. /\ native' # Idle /\ native'.c = c /\ native'.pc = "serve"
          /\ native'.triedDisconnect = native.triedDisconnect
        BY <1>1, <2>1
    <2>4. QueueInv'
        BY <2>1, <2>3 DEF ClaimInv, QueueInv
    <2>5. \A i \in Interfaces : Ours(i)' <=> Ours(i)
        BY <2>1 DEF Ours, InMidst
    <2>6. KeepingInv' /\ OwnerInv'
        BY <2>1, <2>2, <2>5 DEF ClaimInv, KeepingInv, OwnerInv
    <2>7. UsingInv'
        BY <1>1, <2>1, <2>2 DEF ClaimInv, UsingInv, CallType
    <2>8. RefusalInv'
        BY <2>1, <2>3 DEF ClaimInv, RefusalInv
    <2> QED BY <2>4, <2>6, <2>7, <2>8
<1>7. CASE ReleaseInterface(c)
    <2>1. /\ Serving(c, Ops) /\ call[c].op = "release"
          /\ UNCHANGED <<readyList, javaClaimed, refusals>>
        BY <1>2, <1>7 DEF ReleaseInterface, Serving
    <2>2. CASE owner[call[c].i] = "us"
        <3>1. /\ owner' = [owner EXCEPT ![call[c].i] = "none"]
              /\ CompleteRequest(c, FALSE, FALSE)
              /\ stray' = stray \ {call[c].i}
              /\ overtaken' = overtaken \cup {d \in Callers : call[d].i = call[c].i}
            BY <1>7, <2>2 DEF ReleaseInterface, Bind
        <3>2. /\ QueueInv' /\ KeepingInv' /\ RefusalInv'
              /\ \A i \in Interfaces : Ours(i)' <=> i # call[c].i /\ Ours(i)
            BY <2>1, <3>1, CompletionStep DEF Keeping
        <3>3. OwnerInv'
            BY <1>1, <1>2, <3>1, <3>2 DEF ClaimInv, OwnerInv
        <3>4. UsingInv'
            <4> SUFFICES ASSUME NEW d \in Callers, call'[d].at \in {"checked", "waiting"},
                                call'[d].op \in Checked, d \notin overtaken'
                         PROVE  owner'[call'[d].i] = "us"
                BY DEF UsingInv
            <4>1. d # c /\ call'[d] = call[d]
                BY <1>3, <3>1
            <4>2. call[d].i # call[c].i /\ d \notin overtaken /\ call[d].i \in Interfaces
                BY <1>1, <3>1 DEF CallType
            <4>3. owner[call[d].i] = "us"
                BY <4>1, <4>2 DEF ClaimInv, UsingInv
            <4> QED BY <1>1, <3>1, <4>1, <4>2, <4>3
        <3> QED BY <3>2, <3>3, <3>4
    <2>3. CASE owner[call[c].i] # "us"
        BY <1>7, <2>1, <2>3, QuietCompletion DEF ReleaseInterface
    <2> QED BY <2>2, <2>3
<1>8. CASE IsClaimed(c)
    BY <1>2, <1>8, QuietCompletion DEF IsClaimed, HasDriver, Serving, Keeping, kernel, history
<1>9. CASE UseInterface(c)
    <2>1. /\ Serving(c, Ops) /\ call[c].op \in Using
          /\ UNCHANGED <<readyList, javaClaimed, refusals, overtaken>>
        BY <1>2, <1>9 DEF UseInterface, Serving
    <2>2. call[c].op \notin Keeping
        BY <2>1 DEF Using, Checked, Keeping
    <2>3. CASE owner[call[c].i] = "none"
        <3>1. /\ owner' = [owner EXCEPT ![call[c].i] = "us"]
              /\ CompleteRequest(c, FALSE, FALSE)
              /\ stray' = stray \cup {call[c].i}
            BY <1>9, <2>3 DEF UseInterface, Bind
        <3>2. /\ QueueInv' /\ KeepingInv' /\ RefusalInv'
              /\ \A i \in Interfaces : Ours(i)' <=> Ours(i)
            BY <2>1, <2>2, <3>1, CompletionStep
        <3>3. OwnerInv'
            BY <1>1, <1>2, <2>3, <3>1, <3>2 DEF ClaimInv, OwnerInv
        <3>4. UsingInv'
            BY <1>1, <1>2, <2>1, <3>1, CompletionUses
        <3> QED BY <3>2, <3>3, <3>4
    <2>4. CASE owner[call[c].i] # "none"
        <3>1. PICK e \in BOOLEAN : CompleteRequest(c, e, FALSE) /\ UNCHANGED <<owner, stray>>
            BY <1>9, <2>4 DEF UseInterface
        <3> QED BY <2>1, <2>2, <3>1, QuietCompletion
    <2> QED BY <2>3, <2>4
<1>10. CASE SetConfiguration(c)
    <2>1. /\ Serving(c, Ops) /\ call[c].op \notin Keeping
          /\ UNCHANGED <<readyList, javaClaimed, owner, overtaken, stray, refusals>>
        BY <1>2, <1>10 DEF SetConfiguration, Serving, Keeping, kernel, history
    <2>2. PICK e \in BOOLEAN : CompleteRequest(c, e, FALSE)
        BY <1>10 DEF SetConfiguration
    <2> QED BY <2>1, <2>2, QuietCompletion
<1>11. CASE ControlOnly(c)
    <2>1. /\ Serving(c, Ops) /\ call[c].op \notin Keeping
          /\ UNCHANGED <<readyList, javaClaimed, owner, overtaken, stray, refusals>>
        BY <1>2, <1>11 DEF ControlOnly, Serving, WithoutInterface, Keeping, kernel, history
    <2>2. PICK e \in BOOLEAN : CompleteRequest(c, e, FALSE)
        BY <1>11 DEF ControlOnly
    <2> QED BY <2>1, <2>2, QuietCompletion
<1>12. CASE OutOfMemory(c)
    BY <1>12, QuietCompletion DEF OutOfMemory, kernel, history
<1> QED BY <1>4, <1>5, <1>6, <1>7, <1>8, <1>9, <1>10, <1>11, <1>12 DEF Proxy

LEMMA InvStep == ClaimInv /\ [Next]_vars => ClaimInv'
<1> SUFFICES ASSUME ClaimInv, [Next]_vars PROVE ClaimInv'
    OBVIOUS
<1>1. TypeOK'
    BY TypeStep DEF ClaimInv
<1>2. CASE \E c \in Callers : Ask(c) \/ Submit(c) \/ Return(c) \/ Proxy(c)
    BY <1>1, <1>2, AskStep, SubmitStep, ReturnStep, ProxyStep DEF ClaimInv
<1>3. CASE GetReadyRequest
    BY <1>1, <1>3, GetReadyStep DEF ClaimInv
<1>4. CASE OthersChange \/ UNCHANGED vars
    <2>1. /\ UNCHANGED <<javaClaimed, call, readyList, native, overtaken, stray, refusals>>
          /\ \A i \in Interfaces : owner'[i] = "us" <=> owner[i] = "us"
        BY <1>4 DEF OthersChange, Bind, vars, history, ClaimInv, TypeOK
    <2>2. \A i \in Interfaces : Ours(i)' <=> Ours(i)
        BY <2>1 DEF Ours, InMidst
    <2>3. OwnerInv'
        BY <2>1, <2>2 DEF ClaimInv, OwnerInv
    <2>4. UsingInv'
        BY <2>1, CallTyped DEF ClaimInv, UsingInv, CallType
    <2>5. QueueInv' /\ KeepingInv' /\ RefusalInv'
        BY <2>1 DEF ClaimInv, QueueInv, KeepingInv, RefusalInv
    <2> QED BY <1>1, <2>3, <2>4, <2>5 DEF ClaimInv
<1> QED BY <1>2, <1>3, <1>4 DEF Next

LEMMA Invariance == Spec => []ClaimInv
BY InvInit, InvStep, PTL DEF Spec

-----------------------------------------------------------------------------
\* A claim() that returned holds until release() is called: the kernel has the
\* interface bound to this program.
THEOREM ClaimHolds == Spec => []ClaimTellsTruth
<1>1. ASSUME ClaimInv, NEW i \in Interfaces, javaClaimed[i], ~InMidst(i, {"release"})
      PROVE  owner[i] = "us"
    <2>1. Keeper[i] \in Callers
        BY KeeperAssumption
    <2>2. Ours(i)
        BY <1>1, <2>1 DEF Ours, InMidst
    <2> QED BY <1>1, <2>2 DEF ClaimInv, OwnerInv
<1>2. ClaimInv => ClaimTellsTruth
    BY <1>1 DEF ClaimTellsTruth
<1> QED BY <1>2, Invariance, PTL

\* What claim() did not get, and what release() gave back, is not bound to this
\* program, except for what the kernel claimed by itself.
THEOREM NothingKept == Spec => []NothingKeptUnclaimed
<1>1. ASSUME ClaimInv, NEW i \in Interfaces, owner[i] = "us", ~javaClaimed[i],
             ~InMidst(i, Keeping)
      PROVE  i \in stray
    <2>1. ~Ours(i)
        BY <1>1 DEF Ours
    <2> QED BY <1>1, <2>1 DEF ClaimInv, OwnerInv
<1>2. ClaimInv => NothingKeptUnclaimed
    BY <1>1 DEF NothingKeptUnclaimed
<1> QED BY <1>2, Invariance, PTL

\* Only the disconnection in a forced claim takes an interface from a driver, and
\* then after exactly one refusal.
THEOREM OnlyForcedWhenAsked == Spec => ForceOnlyWhenAsked
<1> DEFINE Forced(i) == \E c \in Callers : /\ call[c].op = "forceClaim" /\ call[c].i = i
                                           /\ call[c].at = "waiting" /\ refusals[c] = 1
           NotTaken == \A i \in Interfaces :
               owner[i] = "driver" /\ owner'[i] # "driver" /\ changes' = changes => Forced(i)
<1>1. ASSUME ClaimInv, [Next]_vars PROVE NotTaken
    <2> SUFFICES ASSUME NEW i \in Interfaces,
                        owner[i] = "driver", owner'[i] # "driver", changes' = changes
                 PROVE  Forced(i)
        OBVIOUS
    <2>1. /\ owner \in [Interfaces -> {"none", "us", "driver"}] /\ changes \in Nat
          /\ call \in [Callers -> CallType] /\ Idle.pc = "poll"
          /\ native # Idle => native.c \in Callers
        BY <1>1, CallTyped, BoundsAssumption DEF ClaimInv, TypeOK
    <2>2. owner' # owner
        OBVIOUS
    <2>3. ~OthersChange
        BY <2>1 DEF OthersChange
    <2>4. PICK c \in Callers : Proxy(c)
        BY <1>1, <2>2, <2>3 DEF Next, Ask, Submit, Return, GetReadyRequest, vars, kernel
    <2>5. call[c].i \in Interfaces
        BY <2>1 DEF CallType
    <2>6. ~ClaimInterface(c) /\ ~ReleaseInterface(c) /\ ~UseInterface(c)
        BY <2>1, <2>5 DEF ClaimInterface, ReleaseInterface, UseInterface, Bind
    <2>7. DisconnectDriver(c)
        BY <2>2, <2>4, <2>6
           DEF Proxy, ClaimRefused, IsClaimed, ControlOnly, SetConfiguration, OutOfMemory, kernel
    <2>8. native.pc = "disconnect" /\ native # Idle /\ native.c = c /\ call[c].i = i
        BY <2>1, <2>5, <2>7 DEF DisconnectDriver, Bind
    <2>9. /\ native.triedDisconnect /\ call[c].op = "forceClaim" /\ call[c].at = "waiting"
        BY <1>1, <2>8 DEF ClaimInv, RefusalInv, QueueInv
    <2>10. refusals[c] = 1
        BY <1>1, <2>8, <2>9 DEF ClaimInv, RefusalInv
    <2> QED BY <2>8, <2>9, <2>10
<1>2. ClaimInv /\ [Next]_vars => [NotTaken]_vars
    BY <1>1
<1> QED BY <1>2, Invariance, PTL DEF Spec, ForceOnlyWhenAsked

\* checkUnclaimedInterface() is overtaken only by a release: otherwise the kernel
\* has the interface claimed when it sees a request that is not a vendor request.
THEOREM UnclaimedNotUsed == Spec => UnclaimedIsNotUsed
<1> DEFINE Excused(i) == \E c \in Callers : /\ Serving(c, Using) /\ call[c].i = i
                                            /\ call[c].op \in Checked => c \in overtaken
           OnlyExcused == \A i \in stray' \ stray : Excused(i)
<1>1. ASSUME ClaimInv, [Next]_vars PROVE OnlyExcused
    <2> SUFFICES ASSUME NEW i \in stray' \ stray PROVE Excused(i)
        OBVIOUS
    <2>1. PICK c \in Callers : Proxy(c)
        <3>1. stray' # stray
            OBVIOUS
        <3>2. ~OthersChange /\ ~GetReadyRequest /\ vars' # vars
            BY <3>1 DEF OthersChange, GetReadyRequest, vars, history
        <3>3. \A d \in Callers : ~Ask(d) /\ ~Submit(d) /\ ~Return(d)
            BY <3>1 DEF Ask, Submit, Return, history
        <3> QED BY <1>1, <3>2, <3>3 DEF Next
    <2>2. UseInterface(c)
        BY <2>1 DEF Proxy, ClaimInterface, ClaimRefused, DisconnectDriver, ReleaseInterface,
           IsClaimed, ControlOnly, SetConfiguration, OutOfMemory, kernel, history
    <2>3. Serving(c, Using) /\ owner[call[c].i] = "none" /\ call[c].i = i
        BY <2>2 DEF UseInterface
    <2>4. native # Idle /\ native.c = c
        BY <2>3 DEF Idle, Serving
    <2>5. call[c].at = "waiting"
        BY <1>1, <2>4 DEF ClaimInv, QueueInv
    <2>6. call[c].op \in Checked => c \in overtaken
        BY <1>1, <2>3, <2>5 DEF ClaimInv, UsingInv
    <2> QED BY <2>3, <2>6
<1>2. ClaimInv /\ [Next]_vars => [OnlyExcused]_vars
    BY <1>1
<1> QED BY <1>2, Invariance, PTL DEF Spec, UnclaimedIsNotUsed
=============================================================================
