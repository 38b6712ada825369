--------------------------- MODULE InstallProofs ---------------------------
(***************************************************************************)
(* What install keeps for every list, with any number of roots and deps:   *)
(* InstallTypeOK, WaitsEnd, ClosuresWhole and ReportTrue.                  *)
(*                                                                         *)
(* WaitsEnd is not inductive by itself: a root waits only for an entry     *)
(* that a root made, which EntriesMade adds.  The argument for the step    *)
(* that makes a root wait turns on sets of roots that are closed: ~WaitsOn *)
(* gives one without the root, and the union or the intersection of two is *)
(* closed again.                                                           *)
(*                                                                         *)
(* ClosuresWhole needs Told: in each frame of a stack, a dep is left or    *)
(* the frame has all it needs, a frame is for the next dep of the one      *)
(* below, and an entry that is done without error has all its dep needs.   *)
(* ReportTrue needs ReportTold as well: who cancelled the run, and why a   *)
(* root that ended has no closure.                                         *)
(***************************************************************************)
EXTENDS Install, SequenceTheorems, TLAPS

(***************************************************************************)
(* Types.                                                                  *)
(***************************************************************************)

(* A frame of a package in the list has its needs from the list: Push is   *)
(* given packages only.                                                    *)
LEMMA FrameType ==
    ASSUME InstallTypeOK, NEW p \in Packages
    PROVE  Frame(p) \in Frames
BY ListsAssumption DEF InstallTypeOK, Frame, Frames

(* Where install ran a step of a root, that root has a package on its stack. *)
LEMMA TopType ==
    ASSUME InstallTypeOK, NEW r \in Packages, at[r] \notin {"queued", "cancel", "ended"}
    PROVE  /\ stack[r] \in Seq(Frames) /\ stack[r] # <<>> /\ Len(stack[r]) \in Nat /\ Len(stack[r]) > 0
           /\ Top(r) \in Frames
           /\ Top(r).pkg \in Packages /\ Top(r).left \in Seq(Packages)
           /\ Top(r).closure \in SUBSET Packages
<1>1. stack[r] \in Seq(Frames) /\ stack[r] # <<>>
    BY DEF InstallTypeOK
<1>2. Len(stack[r]) \in Nat /\ Len(stack[r]) > 0 /\ 1 \in 1..Len(stack[r])
    BY <1>1, EmptySeq, LenProperties
<1>3. Top(r) \in Frames
    BY <1>1, <1>2, ElementOfSeq DEF Top
<1> QED BY <1>1, <1>2, <1>3 DEF Frames

LEMMA InitType == InstallInit => InstallTypeOK
<1> SUFFICES ASSUME InstallInit PROVE InstallTypeOK
    OBVIOUS
<1> USE ListsAssumption DEF InstallInit, InstallTypeOK
<1>1. at \in [Packages -> Steps]
    BY DEF Steps
<1>2. err \in [Packages -> Errors]
    BY DEF Errors
<1>3. entries \in [Packages -> [root : Packages \cup {None}, done : BOOLEAN, err : Errors, closure : SUBSET Packages]]
    BY DEF Errors, NoEntry
<1>4. stack \in [Packages -> Seq(Frames)]
    BY EmptySeq
<1>5. waiting \in [Packages -> Packages \cup {None}] /\ closures \in [Packages -> SUBSET Packages]
    OBVIOUS
<1>6. outcome \in [why : {"none", "ok", "interrupted"} \cup Errors, names : SUBSET Packages]
    OBVIOUS
<1>7. \A r \in Packages : stack[r] = <<>> <=> at[r] \in {"queued", "cancel", "ended"}
    OBVIOUS
<1>8. \A r \in Packages : at[r] = "wait" <=> waiting[r] # None
    OBVIOUS
<1>9. /\ list \in Lists /\ builder \in Packages \cup {None} /\ failed \in Packages \cup {None}
      /\ cancelled \in BOOLEAN /\ interrupted \in BOOLEAN
    OBVIOUS
<1> QED BY ONLY <1>1, <1>2, <1>3, <1>4, <1>5, <1>6, <1>7, <1>8, <1>9 DEF InstallTypeOK

(* A package that is not on top waits for the dep above it, which is the    *)
(* first of those left.                                                     *)
DepsLeft ==
    \A r \in Packages :
        /\ at[r] = "wait" => Top(r).left # <<>>
        /\ \A i \in 2..Len(stack[r]) : stack[r][i].left # <<>>

TypeInv == InstallTypeOK /\ DepsLeft

(* What the stack of a root that steps becomes decides TypeInv of all stacks. *)
LEMMA StackType ==
    ASSUME TypeInv, NEW r \in Packages, NEW s \in Seq(Frames),
           stack' = [stack EXCEPT ![r] = s],
           NEW step \in Steps, at' = [at EXCEPT ![r] = step],
           s = <<>> <=> step \in {"queued", "cancel", "ended"},
           step = "wait" => s[1].left # <<>>,
           \A i \in 2..Len(s) : s[i].left # <<>>
    PROVE  /\ stack' \in [Packages -> Seq(Frames)] /\ at' \in [Packages -> Steps]
           /\ \A q \in Packages : stack'[q] = <<>> <=> at'[q] \in {"queued", "cancel", "ended"}
           /\ DepsLeft'
<1> USE DEF TypeInv, InstallTypeOK
<1>1. stack' \in [Packages -> Seq(Frames)] /\ at' \in [Packages -> Steps]
    OBVIOUS
<1>2. \A q \in Packages : stack'[q] = <<>> <=> at'[q] \in {"queued", "cancel", "ended"}
    OBVIOUS
<1>3. DepsLeft'
    BY DEF DepsLeft, Top
<1> QED BY <1>1, <1>2, <1>3

(* A push puts a frame with its deps above the package that needs it. *)
LEMMA PushType ==
    ASSUME TypeInv, NEW r \in Packages, NEW p \in Packages,
           stack[r] = <<>> \/ (stack[r] # <<>> /\ Top(r).left # <<>>)
    PROVE  LET s == <<Frame(p)>> \o stack[r]
           IN  s \in Seq(Frames) /\ s # <<>> /\ \A i \in 2..Len(s) : s[i].left # <<>>
<1> DEFINE s == <<Frame(p)>> \o stack[r]
<1>1. Frame(p) \in Frames /\ <<Frame(p)>> \in Seq(Frames) /\ Len(<<Frame(p)>>) = 1
    BY FrameType DEF TypeInv
<1>2. stack[r] \in Seq(Frames) /\ Len(stack[r]) \in Nat
    BY LenProperties DEF TypeInv, InstallTypeOK
<1>3. /\ s \in Seq(Frames) /\ Len(s) = 1 + Len(stack[r])
      /\ \A i \in 1..1 + Len(stack[r]) : i > 1 => s[i] = stack[r][i - 1]
    BY <1>1, <1>2, ConcatProperties
<1>4. s # <<>>
    BY <1>2, <1>3, EmptySeq
<1>5. ASSUME NEW i \in 2..Len(s) PROVE s[i].left # <<>>
    <2>1. s[i] = stack[r][i - 1] /\ i - 1 \in 1..Len(stack[r])
        BY <1>2, <1>3
    <2>2. CASE i = 2
        BY <1>2, <2>1, <2>2, EmptySeq DEF Top
    <2>3. CASE i # 2
        <3>1. i - 1 \in 2..Len(stack[r])
            BY <1>2, <2>1, <2>3
        <3> QED BY <2>1, <3>1 DEF TypeInv, DepsLeft
    <2> QED BY <2>2, <2>3
<1> HIDE DEF s
<1> QED BY <1>3, <1>4, <1>5 DEF s

(* The package on top goes: its error does not disturb those below. *)
LEMMA PopType ==
    ASSUME TypeInv, NEW r \in Packages, stack[r] # <<>>
    PROVE  /\ Tail(stack[r]) \in Seq(Frames) /\ Len(stack[r]) \in Nat /\ Len(stack[r]) > 0
           /\ Tail(stack[r]) = <<>> <=> Len(stack[r]) = 1
           /\ \A i \in 2..Len(Tail(stack[r])) : Tail(stack[r])[i].left # <<>>
<1>1. stack[r] \in Seq(Frames)
    BY DEF TypeInv, InstallTypeOK
<1>2. /\ Tail(stack[r]) \in Seq(Frames) /\ Len(Tail(stack[r])) = Len(stack[r]) - 1
      /\ \A i \in 1..Len(Tail(stack[r])) : Tail(stack[r])[i] = stack[r][i + 1]
    BY <1>1, HeadTailProperties
<1>3. Len(stack[r]) \in Nat /\ Len(stack[r]) > 0
    BY <1>1, EmptySeq, LenProperties
<1>4. Tail(stack[r]) = <<>> <=> Len(stack[r]) = 1
    <2> DEFINE t == Tail(stack[r])
    <2>1. t \in Seq(Frames) /\ Len(t) = Len(stack[r]) - 1
        BY <1>2
    <2> HIDE DEF t
    <2>2. t = <<>> => Len(t) = 0
        OBVIOUS
    <2>3. t # <<>> => Len(t) # 0
        BY <2>1, EmptySeq
    <2>4. t = <<>> <=> Len(stack[r]) = 1
        BY <1>3, <2>1, <2>2, <2>3
    <2> QED BY <2>4 DEF t
<1>5. ASSUME NEW i \in 2..Len(Tail(stack[r])) PROVE Tail(stack[r])[i].left # <<>>
    <2>1. i + 1 \in 2..Len(stack[r]) /\ Tail(stack[r])[i] = stack[r][i + 1]
        BY <1>2, <1>3
    <2> QED BY <2>1 DEF TypeInv, DepsLeft
<1> QED BY <1>2, <1>3, <1>4, <1>5

(* A dep that was taken leaves the list of the package on top. *)
LEMMA TakeType ==
    ASSUME TypeInv, NEW r \in Packages, stack[r] # <<>>, Top(r) \in Frames, Top(r).left # <<>>,
           NEW got \in SUBSET Packages
    PROVE  LET s == [stack[r] EXCEPT ![1] = Taken(@, got)]
           IN  s \in Seq(Frames) /\ s # <<>> /\ \A i \in 2..Len(s) : s[i].left # <<>>
<1> DEFINE f == Taken(Top(r), got)
           s == [stack[r] EXCEPT ![1] = f]
<1>1. stack[r] \in Seq(Frames) /\ Len(stack[r]) \in Nat /\ Len(stack[r]) > 0
    BY EmptySeq, LenProperties DEF TypeInv, InstallTypeOK
<1>2. Tail(Top(r).left) \in Seq(Packages)
    BY HeadTailProperties DEF Frames
<1>3. f \in Frames
    BY <1>2 DEF Frames, Taken
<1> HIDE DEF f
<1>4. /\ s \in Seq(Frames) /\ Len(s) = Len(stack[r])
      /\ \A i \in 1..Len(stack[r]) : i # 1 => s[i] = stack[r][i]
    BY <1>1, <1>3, ExceptSeq
<1>5. s # <<>>
    BY <1>1, <1>4, EmptySeq
<1>6. \A i \in 2..Len(s) : s[i].left # <<>>
    BY <1>1, <1>4 DEF TypeInv, DepsLeft
<1> QED BY <1>4, <1>5, <1>6 DEF f, Top

(* What the next dep gave is taken or fails the package that needs it. *)
LEMMA TakeDepType ==
    ASSUME TypeInv, NEW r \in Packages, NEW d \in Packages, TakeDep(r, d),
           at[r] \in {"deps", "wait"}, Top(r).left # <<>>
    PROVE  /\ stack' \in [Packages -> Seq(Frames)] /\ at' \in [Packages -> Steps]
           /\ \A q \in Packages : stack'[q] = <<>> <=> at'[q] \in {"queued", "cancel", "ended"}
           /\ DepsLeft'
           /\ err' \in [Packages -> Errors]
           /\ \A q \in Packages : at'[q] = "wait" <=> at[q] = "wait" /\ q # r
<1>1. at \in [Packages -> Steps] /\ err \in [Packages -> Errors] /\ entries[d].err \in Errors
      /\ entries[d].closure \in SUBSET Packages
    BY DEF TypeInv, InstallTypeOK
<1>2. stack[r] \in Seq(Frames) /\ stack[r] # <<>> /\ Top(r) \in Frames
    BY TopType DEF TypeInv
<1>3. CASE entries[d].err # "none"
    <2>1. stack' = [stack EXCEPT ![r] = stack[r]] /\ at' = [at EXCEPT ![r] = "return"]
          /\ err' = [err EXCEPT ![r] = entries[d].err]
        BY <1>3 DEF TakeDep, Fail, Go, TypeInv, InstallTypeOK
    <2>2. \A i \in 2..Len(stack[r]) : stack[r][i].left # <<>>
        BY DEF TypeInv, DepsLeft
    <2>3. "return" \in Steps
        BY DEF Steps
    <2>4. /\ stack' \in [Packages -> Seq(Frames)] /\ at' \in [Packages -> Steps]
          /\ \A q \in Packages : stack'[q] = <<>> <=> at'[q] \in {"queued", "cancel", "ended"}
          /\ DepsLeft'
        BY <1>2, <2>1, <2>2, <2>3, StackType
    <2> QED BY <1>1, <2>1, <2>4
<1>4. CASE entries[d].err = "none"
    <2> DEFINE got == entries[d].closure
               s == [stack[r] EXCEPT ![1] = Taken(@, got)]
    <2>1. s \in Seq(Frames) /\ s # <<>> /\ \A i \in 2..Len(s) : s[i].left # <<>>
        BY <1>1, <1>2, TakeType
    <2>4. stack' = [stack EXCEPT ![r] = s] /\ at' = [at EXCEPT ![r] = "deps"] /\ err' = err
        BY <1>4 DEF TakeDep, Go, TypeInv, InstallTypeOK
    <2>5. "deps" \in Steps
        BY DEF Steps
    <2> HIDE DEF s
    <2>6. /\ stack' \in [Packages -> Seq(Frames)] /\ at' \in [Packages -> Steps]
          /\ \A q \in Packages : stack'[q] = <<>> <=> at'[q] \in {"queued", "cancel", "ended"}
          /\ DepsLeft'
        BY <2>1, <2>4, <2>5, StackType
    <2> QED BY <1>1, <2>4, <2>6
<1> QED BY <1>3, <1>4

(* The rest of the type invariant, which the stacks leave alone. *)
RestOK ==
    /\ list \in Lists
    /\ err \in [Packages -> Errors]
    /\ entries \in [Packages -> [root : Packages \cup {None}, done : BOOLEAN, err : Errors,
                                 closure : SUBSET Packages]]
    /\ waiting \in [Packages -> Packages \cup {None}]
    /\ builder \in Packages \cup {None}
    /\ failed \in Packages \cup {None}
    /\ cancelled \in BOOLEAN /\ interrupted \in BOOLEAN
    /\ closures \in [Packages -> SUBSET Packages]
    /\ outcome \in [why : {"none", "ok", "interrupted"} \cup Errors, names : SUBSET Packages]
    /\ \A r \in Packages : at[r] = "wait" <=> waiting[r] # None

(* The part of TypeInv about the stacks. *)
StacksOK ==
    /\ stack \in [Packages -> Seq(Frames)] /\ at \in [Packages -> Steps]
    /\ \A q \in Packages : stack[q] = <<>> <=> at[q] \in {"queued", "cancel", "ended"}
    /\ DepsLeft

LEMMA TypeParts == TypeInv => RestOK /\ StacksOK
BY DEF TypeInv, InstallTypeOK, RestOK, StacksOK

LEMMA TypeWhole == RestOK' /\ StacksOK' => TypeInv'
BY DEF TypeInv, InstallTypeOK, RestOK, StacksOK

(* A step of a root that keeps its stack. *)
LEMMA GoType ==
    ASSUME TypeInv, NEW r \in Packages, NEW step \in Steps, at[r] \notin {"queued", "cancel", "ended"},
           step \notin {"queued", "cancel", "ended"}, step = "wait" => Top(r).left # <<>>,
           stack' = stack, at' = [at EXCEPT ![r] = step]
    PROVE  StacksOK'
<1>1. stack' = [stack EXCEPT ![r] = stack[r]] /\ stack[r] \in Seq(Frames) /\ stack[r] # <<>>
    BY DEF TypeInv, InstallTypeOK
<1>2. \A i \in 2..Len(stack[r]) : stack[r][i].left # <<>>
    BY DEF TypeInv, DepsLeft
<1> QED BY <1>1, <1>2, StackType DEF StacksOK, Top

LEMMA StartType == ASSUME TypeInv, NEW r \in Packages, Start(r) PROVE TypeInv'
<1> USE DEF Start
<1>1. RestOK /\ stack[r] = <<>> /\ stack \in [Packages -> Seq(Frames)] /\ at \in [Packages -> Steps]
    BY TypeParts DEF TypeInv, InstallTypeOK
<1>2. StacksOK'
    <2>1. CASE cancelled
        <3>1. stack' = [stack EXCEPT ![r] = <<>>] /\ at' = [at EXCEPT ![r] = "ended"]
            BY <1>1, <2>1 DEF Go
        <3>2. "ended" \in Steps /\ <<>> \in Seq(Frames) /\ Len(<<>>) = 0
            BY EmptySeq DEF Steps
        <3>3. \A i \in 2..Len(<<>>) : <<>>[i].left # <<>>
            BY <3>2
        <3> HIDE DEF Start
        <3> QED BY <3>1, <3>2, <3>3, StackType DEF StacksOK
    <2>2. CASE ~cancelled
        <3> DEFINE s == <<Frame(r)>> \o stack[r]
        <3>1. stack' = [stack EXCEPT ![r] = s] /\ at' = [at EXCEPT ![r] = "fetch"]
            BY <2>2 DEF Go, Push
        <3>2. s \in Seq(Frames) /\ s # <<>> /\ \A i \in 2..Len(s) : s[i].left # <<>>
            BY <1>1, PushType
        <3>3. "fetch" \in Steps
            BY DEF Steps
        <3> HIDE DEF s, Start
        <3> QED BY <3>1, <3>2, <3>3, StackType DEF StacksOK
    <2> QED BY <2>1, <2>2
<1>3. RestOK'
    BY <1>1 DEF RestOK, Go
<1> QED BY <1>2, <1>3, TypeWhole

LEMMA FetchType == ASSUME TypeInv, NEW r \in Packages, Fetch(r) PROVE TypeInv'
<1> USE DEF Fetch
<1>1. RestOK /\ at \in [Packages -> Steps]
    BY TypeParts DEF TypeInv, InstallTypeOK
<1>2. PICK step \in {"deps", "return"} : at' = [at EXCEPT ![r] = step]
    BY DEF Go, Fail
<1>3. step \in Steps /\ step \notin {"queued", "cancel", "ended", "wait"}
    BY DEF Steps
<1>4. StacksOK'
    BY <1>2, <1>3, GoType
<1>5. err' \in [Packages -> Errors]
    BY <1>1 DEF RestOK, Errors, Fail
<1>6. RestOK'
    BY <1>1, <1>2, <1>3, <1>5 DEF RestOK
<1> QED BY <1>4, <1>6, TypeWhole

LEMMA NextDepType == ASSUME TypeInv, NEW r \in Packages, NextDep(r) PROVE TypeInv'
<1> DEFINE d == Head(Top(r).left)
<1>1. RestOK /\ at \in [Packages -> Steps]
    BY TypeParts DEF TypeInv, InstallTypeOK
<1>2. at[r] = "deps" /\ Top(r).left # <<>>
    BY DEF NextDep
<1>3. d \in Packages
    BY <1>2, TopType, HeadTailProperties DEF TypeInv
<1>4. UNCHANGED <<list, builder, failed, cancelled, interrupted, closures, outcome>>
    BY DEF NextDep
<1>5. {"return", "fetch", "wait", "deps"} \subseteq Steps /\ {"cycle", "shared cycle"} \subseteq Errors
    BY DEF Steps, Errors
<1>6. ASSUME NEW why \in {"cycle", "shared cycle"}, Fail(r, why), UNCHANGED <<stack, entries, waiting>>
      PROVE  TypeInv'
    <2>1. StacksOK'
        BY <1>2, <1>5, <1>6, GoType DEF Fail, Go
    <2>2. RestOK'
        BY <1>1, <1>2, <1>4, <1>5, <1>6 DEF RestOK, Fail, Go
    <2> QED BY <2>1, <2>2, TypeWhole
<1>7. ASSUME entries' = [entries EXCEPT ![d].root = r], Push(r, d), Go(r, "fetch"), UNCHANGED <<err, waiting>>
      PROVE  TypeInv'
    <2> DEFINE s == <<Frame(d)>> \o stack[r]
    <2>1. stack' = [stack EXCEPT ![r] = s] /\ at' = [at EXCEPT ![r] = "fetch"]
        BY <1>7 DEF Go, Push, TypeInv, InstallTypeOK
    <2>2. s \in Seq(Frames) /\ s # <<>> /\ \A i \in 2..Len(s) : s[i].left # <<>>
        BY <1>2, <1>3, PushType
    <2> HIDE DEF s, d
    <2>3. StacksOK'
        BY <1>5, <2>1, <2>2, StackType DEF StacksOK
    <2>4. RestOK'
        BY <1>1, <1>2, <1>3, <1>4, <1>7 DEF RestOK, Go
    <2> QED BY <2>3, <2>4, TypeWhole
<1>8. ASSUME TakeDep(r, d), UNCHANGED <<entries, waiting>> PROVE TypeInv'
    <2> HIDE DEF d
    <2>1. StacksOK' /\ err' \in [Packages -> Errors]
          /\ \A q \in Packages : at'[q] = "wait" <=> at[q] = "wait" /\ q # r
        BY <1>2, <1>3, <1>8, TakeDepType DEF StacksOK
    <2>2. RestOK'
        BY <1>1, <1>2, <1>4, <1>8, <2>1 DEF RestOK
    <2> QED BY <2>1, <2>2, TypeWhole
<1>9. ASSUME waiting' = [waiting EXCEPT ![r] = d], Go(r, "wait"), UNCHANGED <<stack, err, entries>>
      PROVE  TypeInv'
    <2> HIDE DEF d
    <2>1. StacksOK'
        BY <1>2, <1>5, <1>9, GoType DEF Go
    <2>2. d # None
        BY <1>3, ListsAssumption
    <2>3. RestOK'
        BY <1>1, <1>3, <1>4, <1>9, <2>2 DEF RestOK, Go
    <2> QED BY <2>1, <2>3, TypeWhole
<1> HIDE DEF d
<1> QED BY <1>6, <1>7, <1>8, <1>9 DEF NextDep, d

LEMMA WakeType == ASSUME TypeInv, NEW r \in Packages, Wake(r) PROVE TypeInv'
<1>1. RestOK /\ StacksOK
    BY TypeParts
<1>2. at[r] = "wait" /\ waiting[r] \in Packages /\ Top(r).left # <<>>
    BY <1>1 DEF Wake, RestOK, StacksOK, DepsLeft
<1>3. StacksOK' /\ err' \in [Packages -> Errors]
      /\ \A q \in Packages : at'[q] = "wait" <=> at[q] = "wait" /\ q # r
    BY <1>2, TakeDepType DEF Wake, StacksOK
<1>4. RestOK'
    BY <1>1, <1>3, ListsAssumption DEF Wake, RestOK
<1> QED BY <1>3, <1>4, TypeWhole

LEMMA DepsDoneType == ASSUME TypeInv, NEW r \in Packages, DepsDone(r) PROVE TypeInv'
<1>1. RestOK /\ at \in [Packages -> Steps]
    BY TypeParts DEF TypeInv, InstallTypeOK
<1>2. PICK step \in {"lock", "realize"} : at' = [at EXCEPT ![r] = step]
    BY DEF DepsDone, Go
<1>3. step \in Steps /\ step \notin {"queued", "cancel", "ended", "wait"}
    BY DEF Steps
<1>4. StacksOK'
    BY <1>2, <1>3, GoType DEF DepsDone
<1>5. RestOK'
    BY <1>1, <1>2, <1>3 DEF RestOK, DepsDone
<1> QED BY <1>4, <1>5, TypeWhole

LEMMA LockType == ASSUME TypeInv, NEW r \in Packages, Lock(r) PROVE TypeInv'
<1>1. RestOK /\ at \in [Packages -> Steps]
    BY TypeParts DEF TypeInv, InstallTypeOK
<1>2. at' = [at EXCEPT ![r] = "realize"] /\ "realize" \in Steps
    BY DEF Lock, Go, Steps
<1>3. StacksOK'
    BY <1>2, GoType DEF Lock
<1>4. RestOK'
    BY <1>1, <1>2 DEF RestOK, Lock
<1> QED BY <1>3, <1>4, TypeWhole

LEMMA RealizeType == ASSUME TypeInv, NEW r \in Packages, Realize(r) PROVE TypeInv'
<1> DEFINE top == Top(r)
           got == top.closure \cup {top.pkg}
           f == Taken(stack[r][2], got)
           s == <<f>> \o SubSeq(stack[r], 3, Len(stack[r]))
<1>1. RestOK /\ at \in [Packages -> Steps] /\ stack \in [Packages -> Seq(Frames)]
    BY TypeParts DEF TypeInv, InstallTypeOK
<1>2. at[r] = "realize" /\ builder' \in Packages \cup {None}
    BY <1>1 DEF Realize, RestOK
<1>3. UNCHANGED <<list, waiting, failed, cancelled, interrupted, outcome>>
    BY DEF Realize
<1>4. /\ stack[r] \in Seq(Frames) /\ stack[r] # <<>> /\ Len(stack[r]) \in Nat /\ Len(stack[r]) > 0
      /\ top.pkg \in Packages /\ got \in SUBSET Packages
    BY <1>2, TopType DEF TypeInv
<1>5. {"return", "deps", "ended"} \subseteq Steps /\ {"drift", "failed", "cancelled"} \subseteq Errors
    BY DEF Steps, Errors
<1>6. ASSUME NEW why \in {"drift", "failed", "cancelled"}, Fail(r, why), UNCHANGED <<stack, entries, closures>>
      PROVE  TypeInv'
    <2>1. StacksOK'
        BY <1>2, <1>5, <1>6, GoType DEF Fail, Go
    <2>2. RestOK'
        BY <1>1, <1>2, <1>3, <1>5, <1>6 DEF RestOK, Fail, Go
    <2> QED BY <2>1, <2>2, TypeWhole
<1>7. ASSUME closures' = [closures EXCEPT ![r] = got], stack' = [stack EXCEPT ![r] = <<>>],
             Go(r, "ended"), UNCHANGED <<entries, err>>
      PROVE  TypeInv'
    <2> HIDE DEF got
    <2>1. <<>> \in Seq(Frames) /\ \A i \in 2..Len(<<>>) : <<>>[i].left # <<>>
        BY EmptySeq
    <2>2. StacksOK'
        BY <1>5, <1>7, <2>1, StackType DEF Go, StacksOK
    <2>3. RestOK'
        BY <1>1, <1>2, <1>3, <1>4, <1>7 DEF RestOK, Go
    <2> QED BY <2>2, <2>3, TypeWhole
<1>8. ASSUME Len(stack[r]) # 1,
             entries' = [entries EXCEPT ![top.pkg] = Done(@, "none", got)],
             stack' = [stack EXCEPT ![r] = s], Go(r, "deps"), UNCHANGED <<closures, err>>
      PROVE  TypeInv'
    <2>1. 2 \in 2..Len(stack[r]) /\ stack[r][2] \in Frames /\ stack[r][2].left # <<>>
        BY <1>4, <1>8, ElementOfSeq DEF TypeInv, DepsLeft
    <2>2. Tail(stack[r][2].left) \in Seq(Packages)
        BY <2>1, HeadTailProperties DEF Frames
    <2>3. f \in Frames
        BY <1>4, <2>1, <2>2 DEF Frames, Taken
    <2> HIDE DEF f, got
    <2> DEFINE rest == SubSeq(stack[r], 3, Len(stack[r]))
    <2>4. \A i \in 3..Len(stack[r]) : stack[r][i] \in Frames /\ stack[r][i].left # <<>>
        BY <1>4, ElementOfSeq DEF TypeInv, DepsLeft
    <2>5. /\ rest \in Seq(Frames)
          /\ Len(rest) = IF 3 <= Len(stack[r]) THEN Len(stack[r]) - 2 ELSE 0
          /\ \A i \in 1..Len(stack[r]) - 2 : rest[i] = stack[r][i + 2]
        BY <1>4, <2>4, SubSeqProperties
    <2> HIDE DEF rest
    <2>6. <<f>> \in Seq(Frames) /\ Len(<<f>>) = 1
        BY <2>3
    <2>7. /\ s \in Seq(Frames) /\ Len(s) = 1 + Len(rest)
          /\ \A i \in 2..Len(s) : s[i] = rest[i - 1]
        BY <1>4, <2>5, <2>6, ConcatProperties DEF rest
    <2>8. s # <<>>
        BY <1>4, <2>5, <2>7, EmptySeq
    <2> HIDE DEF s
    <2>9. \A i \in 2..Len(s) : s[i].left # <<>>
        BY <1>4, <2>4, <2>5, <2>7
    <2>10. StacksOK'
        BY <1>5, <1>8, <2>7, <2>8, <2>9, StackType DEF StacksOK, Go
    <2> DEFINE e == Done(entries[top.pkg], "none", got)
    <2>11. e \in [root : Packages \cup {None}, done : BOOLEAN, err : Errors, closure : SUBSET Packages]
        BY <1>1, <1>4 DEF RestOK, Done, Errors
    <2>12. entries' = [entries EXCEPT ![top.pkg] = e]
        BY <1>8
    <2> HIDE DEF e
    <2>13. entries' \in [Packages -> [root : Packages \cup {None}, done : BOOLEAN, err : Errors,
                                     closure : SUBSET Packages]]
        BY <1>1, <1>4, <2>11, <2>12 DEF RestOK
    <2>14. RestOK'
        BY <1>1, <1>2, <1>3, <1>8, <2>13 DEF RestOK, Go
    <2> QED BY <2>10, <2>14, TypeWhole
<1>9. list.bad[top.pkg] # "none" => list.bad[top.pkg] \in {"drift", "failed", "cancelled"}
    BY <1>1, <1>4, ListsAssumption DEF RestOK
<1>10. \/ /\ \/ list.bad[top.pkg] # "none" /\ Fail(r, list.bad[top.pkg])
             \/ Fail(r, "cancelled")
          /\ UNCHANGED <<stack, entries, closures>>
       \/ /\ closures' = [closures EXCEPT ![r] = got] /\ stack' = [stack EXCEPT ![r] = <<>>]
          /\ Go(r, "ended") /\ UNCHANGED <<entries, err>>
       \/ /\ Len(stack[r]) # 1
          /\ entries' = [entries EXCEPT ![top.pkg] = Done(@, "none", got)]
          /\ stack' = [stack EXCEPT ![r] = s] /\ Go(r, "deps") /\ UNCHANGED <<closures, err>>
    BY ZenonT(60) DEF Realize
<1> HIDE DEF top, got, s
<1> QED BY <1>6, <1>7, <1>8, <1>9, <1>10

LEMMA ReturnType == ASSUME TypeInv, NEW r \in Packages, Return(r) PROVE TypeInv'
<1> DEFINE t == Tail(stack[r])
           n == Len(stack[r])
<1>1. RestOK /\ at \in [Packages -> Steps] /\ stack \in [Packages -> Seq(Frames)]
    BY TypeParts DEF TypeInv, InstallTypeOK
<1>2. at[r] = "return" /\ stack' = [stack EXCEPT ![r] = t]
    BY DEF Return
<1>3. UNCHANGED <<list, err, waiting, builder, cancelled, interrupted, closures, outcome>>
    BY DEF Return
<1>4. stack[r] # <<>> /\ Top(r).pkg \in Packages
    BY <1>2, TopType DEF TypeInv
<1>0. n \in Nat /\ n > 0
    BY <1>4, PopType
<1>5. /\ t \in Seq(Frames)
      /\ (t = <<>>) <=> (n = 1)
      /\ \A i \in 2..Len(t) : t[i].left # <<>>
    BY <1>4, PopType
<1> HIDE DEF t, n
<1>6. {"return", "cancel", "ended"} \subseteq Steps
    BY DEF Steps
<1>7. CASE n > 1
    <2>1. at' = [at EXCEPT ![r] = "return"] /\ failed' = failed
          /\ entries' = [entries EXCEPT ![Top(r).pkg] = Done(@, err[r], {})]
        BY <1>1, <1>2, <1>7 DEF Return, n
    <2>2. StacksOK'
        <3>1. n # 1
            BY <1>0, <1>7
        <3>2. t # <<>>
            BY <1>5, <3>1
        <3> QED BY <1>2, <1>5, <1>6, <2>1, <3>2, StackType DEF StacksOK
    <2> DEFINE e == Done(entries[Top(r).pkg], err[r], {})
    <2>3. e \in [root : Packages \cup {None}, done : BOOLEAN, err : Errors, closure : SUBSET Packages]
        BY <1>1, <1>4 DEF RestOK, Done
    <2>4. entries' = [entries EXCEPT ![Top(r).pkg] = e]
        BY <2>1
    <2> HIDE DEF e
    <2>5. entries' \in [Packages -> [root : Packages \cup {None}, done : BOOLEAN, err : Errors,
                                    closure : SUBSET Packages]]
        BY <1>1, <1>4, <2>3, <2>4 DEF RestOK
    <2>6. RestOK'
        BY <1>1, <1>2, <1>3, <2>1, <2>5 DEF RestOK
    <2> QED BY <2>2, <2>6, TypeWhole
<1>8. CASE n = 1
    <2>1. PICK step \in {"cancel", "ended"} : at' = [at EXCEPT ![r] = step]
        BY <1>8 DEF Return, Go, n
    <2>2. entries' = entries /\ failed' \in Packages \cup {None}
        BY <1>1, <1>8 DEF Return, RestOK, n
    <2>3. StacksOK'
        BY <1>2, <1>5, <1>6, <1>8, <2>1, StackType DEF StacksOK
    <2>4. RestOK'
        BY <1>1, <1>2, <1>3, <2>1, <2>2 DEF RestOK
    <2> QED BY <2>3, <2>4, TypeWhole
<1> QED BY <1>0, <1>7, <1>8

LEMMA CancelType == ASSUME TypeInv, NEW r \in Packages, Cancel(r) PROVE TypeInv'
<1>1. RestOK /\ at \in [Packages -> Steps] /\ stack \in [Packages -> Seq(Frames)] /\ stack[r] = <<>>
    BY TypeParts DEF TypeInv, InstallTypeOK, Cancel
<1>2. at' = [at EXCEPT ![r] = "ended"] /\ stack' = [stack EXCEPT ![r] = <<>>] /\ "ended" \in Steps
    BY <1>1 DEF Cancel, Go, Steps
<1>3. <<>> \in Seq(Frames) /\ \A i \in 2..Len(<<>>) : <<>>[i].left # <<>>
    BY EmptySeq
<1>4. StacksOK'
    BY <1>2, <1>3, StackType DEF StacksOK
<1>5. RestOK'
    BY <1>1, <1>2 DEF RestOK, Cancel
<1> QED BY <1>4, <1>5, TypeWhole

LEMMA FinishType == ASSUME TypeInv, Finish PROVE TypeInv'
<1>1. RestOK /\ StacksOK
    BY TypeParts
<1>2. StacksOK'
    BY <1>1 DEF StacksOK, Finish, DepsLeft, Top
<1>3. list.roots \subseteq Packages /\ Drifted \subseteq Packages
    BY <1>1, ListsAssumption DEF RestOK, Drifted
<1>4. failed # None => failed \in Packages /\ err[failed] \in Errors
    BY <1>1 DEF RestOK
<1>5. "drift" \in Errors
    BY DEF Errors
<1>6. outcome' \in [why : {"none", "ok", "interrupted"} \cup Errors, names : SUBSET Packages]
    BY <1>3, <1>4, <1>5 DEF Finish
<1>7. RestOK'
    BY <1>1, <1>6 DEF RestOK, Finish
<1> QED BY <1>2, <1>7, TypeWhole

(* Every step keeps the types. *)
LEMMA TypeStep == TypeInv /\ [InstallNext]_installVars => TypeInv'
<1> SUFFICES ASSUME TypeInv, [InstallNext]_installVars PROVE TypeInv'
    OBVIOUS
<1>1. ASSUME NEW r \in Packages, RootStep(r) PROVE TypeInv'
    BY <1>1, StartType, FetchType, NextDepType, WakeType, DepsDoneType, LockType, RealizeType,
       ReturnType, CancelType DEF RootStep
<1>2. CASE Interrupt
    BY <1>2 DEF Interrupt, TypeInv, InstallTypeOK, DepsLeft, Top
<1>3. CASE UNCHANGED installVars
    BY <1>3 DEF installVars, TypeInv, InstallTypeOK, DepsLeft, Top
<1> QED BY <1>1, <1>2, <1>3, FinishType DEF InstallNext

LEMMA TypeInit == InstallInit => TypeInv
<1> SUFFICES ASSUME InstallInit PROVE DepsLeft
    BY InitType DEF TypeInv
<1>1. \A r \in Packages : stack[r] = <<>> /\ at[r] # "wait" /\ Len(<<>>) = 0
    BY DEF InstallInit
<1> QED BY <1>1 DEF DepsLeft

(* install keeps its state well-formed for every list: a goroutine that is  *)
(* in a package has it on its stack, a root is in waiting exactly while it   *)
(* waits, and install names packages only.                                   *)
THEOREM InstallTypes == InstallSpec => []InstallTypeOK
<1>1. TypeInv => InstallTypeOK
    BY DEF TypeInv
<1> QED BY <1>1, TypeInit, TypeStep, PTL DEF InstallSpec

(***************************************************************************)
(* No two roots wait for each other.                                       *)
(***************************************************************************)

(* A root waits only for an entry that some root made. *)
EntriesMade == \A r \in Packages : waiting[r] # None => entries[waiting[r]].root # None

WaitInv == InstallTypeOK /\ EntriesMade /\ WaitsEnd

(* WaitsEnd with the set of roots it speaks of: r is not among those that   *)
(* the entry it waits for leads to.                                         *)
LEMMA WaitsEndSets ==
    WaitsEnd <=>
        \A r \in Packages : waiting[r] # None =>
            \E roots \in SUBSET Packages : /\ entries[waiting[r]].root \in roots
                                          /\ Closed(roots) /\ r \notin roots
BY DEF WaitsEnd, WaitsOn

LEMMA WaitsEndSetsNext ==
    (WaitsEnd)' <=>
        \A r \in Packages : waiting'[r] # None =>
            \E roots \in SUBSET Packages : /\ entries'[waiting'[r]].root \in roots
                                          /\ (Closed(roots))' /\ r \notin roots
BY DEF WaitsEnd, WaitsOn, Closed

(* Steps that only end waits, and change no root of an entry that has one,  *)
(* keep WaitInv: every closed set stays closed.                             *)
LEMMA FewerWaits ==
    ASSUME WaitInv, InstallTypeOK',
           \A r \in Packages : waiting'[r] # None => waiting'[r] = waiting[r],
           \A p \in Packages : entries[p].root # None => entries'[p].root = entries[p].root
    PROVE  WaitInv'
<1>1. waiting \in [Packages -> Packages \cup {None}] /\ EntriesMade
    BY DEF WaitInv, InstallTypeOK
<1>2. \A r \in Packages : waiting'[r] # None =>
        /\ waiting'[r] = waiting[r] /\ waiting[r] \in Packages
        /\ entries'[waiting'[r]].root = entries[waiting[r]].root /\ entries[waiting[r]].root # None
    BY <1>1 DEF EntriesMade
<1>3. EntriesMade'
    BY <1>2 DEF EntriesMade
<1>4. \A roots \in SUBSET Packages : Closed(roots) => (Closed(roots))'
    BY <1>2 DEF Closed
<1>5. (WaitsEnd)'
    BY <1>2, <1>4, WaitsEndSets, WaitsEndSetsNext DEF WaitInv
<1> QED BY <1>3, <1>5 DEF WaitInv

(* A root begins to wait for the entry of a root that does not wait for it. *)
LEMMA OneMoreWait ==
    ASSUME WaitInv, InstallTypeOK', NEW r \in Packages, NEW d \in Packages,
           waiting[r] = None, entries' = entries, entries[d].root # None,
           waiting' = [waiting EXCEPT ![r] = d],
           ~WaitsOn(entries[d].root, r)
    PROVE  WaitInv'
<1> DEFINE q == entries[d].root
<1>1. waiting \in [Packages -> Packages \cup {None}] /\ EntriesMade /\ d # None /\ q \in Packages
    BY ListsAssumption DEF WaitInv, InstallTypeOK
<1>2. PICK S \in SUBSET Packages : q \in S /\ Closed(S) /\ r \notin S
    BY DEF WaitsOn
<1>3. EntriesMade'
    BY <1>1 DEF EntriesMade
<1>4. \A roots \in SUBSET Packages : Closed(roots) /\ (r \in roots => q \in roots) => (Closed(roots))'
    BY <1>1 DEF Closed
<1>5. ASSUME NEW x \in Packages, waiting'[x] # None
      PROVE  \E roots \in SUBSET Packages : /\ entries'[waiting'[x]].root \in roots
                                            /\ (Closed(roots))' /\ x \notin roots
    <2>1. CASE x = r
        <3>1. (Closed(S))' /\ entries'[waiting'[x]].root = q
            BY <1>1, <1>2, <1>4, <2>1
        <3> QED BY <1>2, <2>1, <3>1
    <2>2. CASE x # r
        <3>1. waiting'[x] = waiting[x] /\ waiting[x] # None
            BY <1>1, <1>5, <2>2
        <3>2. PICK T \in SUBSET Packages : entries[waiting[x]].root \in T /\ Closed(T) /\ x \notin T
            BY <3>1, WaitsEndSets DEF WaitInv
        <3>3. CASE r \notin T
            BY <1>4, <3>1, <3>2, <3>3
        <3>4. CASE r \in T /\ x \notin S
            <4>1. T \cup S \in SUBSET Packages /\ Closed(T \cup S) /\ q \in T \cup S
                BY <1>2, <3>2 DEF Closed
            <4>2. (Closed(T \cup S))'
                BY <1>4, <4>1
            <4> QED BY <3>1, <3>2, <3>4, <4>1, <4>2
        <3>5. CASE r \in T /\ x \in S
            <4>1. T \cap S \in SUBSET Packages /\ Closed(T \cap S) /\ r \notin T \cap S /\ x \notin T \cap S
                BY <1>2, <3>2 DEF Closed
            <4>2. (Closed(T \cap S))'
                BY <1>4, <4>1
            <4>3. entries[waiting[x]].root \in T \cap S
                BY <1>2, <3>1, <3>2, <3>5 DEF Closed
            <4> QED BY <3>1, <4>1, <4>2, <4>3
        <3> QED BY <3>3, <3>4, <3>5
    <2> QED BY <2>1, <2>2
<1>6. (WaitsEnd)'
    BY <1>5, WaitsEndSetsNext
<1> QED BY <1>3, <1>6 DEF WaitInv

LEMMA NextDepWait ==
    ASSUME WaitInv, InstallTypeOK', NEW r \in Packages, NextDep(r)
    PROVE  WaitInv'
<1> DEFINE d == Head(Top(r).left)
<1>1. at[r] = "deps" /\ Top(r).left # <<>> /\ waiting[r] = None
    BY DEF NextDep, WaitInv, InstallTypeOK
<1>2. d \in Packages
    BY <1>1, TopType, HeadTailProperties DEF WaitInv
<1> HIDE DEF d
<1>3. /\ waiting \in [Packages -> Packages \cup {None}]
      /\ entries \in [Packages -> [root : Packages \cup {None}, done : BOOLEAN, err : Errors,
                                   closure : SUBSET Packages]]
    BY DEF WaitInv, InstallTypeOK
<1>4. \/ UNCHANGED <<entries, waiting>>
      \/ entries[d].root = None /\ entries' = [entries EXCEPT ![d].root = r] /\ UNCHANGED waiting
      \/ /\ entries[d].root # None /\ ~WaitsOn(entries[d].root, r)
         /\ waiting' = [waiting EXCEPT ![r] = d] /\ UNCHANGED entries
    BY DEF NextDep, d
<1>5. CASE UNCHANGED <<entries, waiting>>
    BY <1>5, FewerWaits
<1>6. CASE entries[d].root = None /\ entries' = [entries EXCEPT ![d].root = r] /\ UNCHANGED waiting
    <2>1. \A p \in Packages : entries[p].root # None => entries'[p].root = entries[p].root
        BY <1>2, <1>3, <1>6
    <2> QED BY <1>6, <2>1, FewerWaits
<1>7. CASE /\ entries[d].root # None /\ ~WaitsOn(entries[d].root, r)
           /\ waiting' = [waiting EXCEPT ![r] = d] /\ UNCHANGED entries
    BY <1>1, <1>2, <1>7, OneMoreWait
<1> QED BY <1>4, <1>5, <1>6, <1>7

(* Every step keeps WaitInv: only NextDep adds to waiting. *)
LEMMA WaitStep == WaitInv /\ InstallTypeOK' /\ [InstallNext]_installVars => WaitInv'
<1> SUFFICES ASSUME WaitInv, InstallTypeOK', [InstallNext]_installVars PROVE WaitInv'
    OBVIOUS
<1>1. /\ waiting \in [Packages -> Packages \cup {None}]
      /\ entries \in [Packages -> [root : Packages \cup {None}, done : BOOLEAN, err : Errors,
                                   closure : SUBSET Packages]]
    BY DEF WaitInv, InstallTypeOK
<1>2. CASE UNCHANGED <<entries, waiting>>
    BY <1>2, FewerWaits
<1>3. ASSUME NEW r \in Packages, Wake(r) PROVE WaitInv'
    <2>1. entries' = entries /\ waiting' = [waiting EXCEPT ![r] = None]
        BY <1>3 DEF Wake
    <2>2. \A q \in Packages : waiting'[q] # None => waiting'[q] = waiting[q]
        BY <1>1, <2>1
    <2> QED BY <2>1, <2>2, FewerWaits
<1>4. ASSUME NEW r \in Packages, Realize(r) \/ Return(r) PROVE WaitInv'
    <2>1. ASSUME NEW p, NEW why, NEW got, entries' = [entries EXCEPT ![p] = Done(@, why, got)]
          PROVE  \A x \in Packages : entries'[x].root = entries[x].root
        BY <1>1, <2>1 DEF Done
    <2>2. CASE Realize(r)
        <3>1. \/ entries' = entries
              \/ entries' = [entries EXCEPT ![Top(r).pkg] = Done(@, "none", Top(r).closure \cup {Top(r).pkg})]
            BY <2>2, Zenon DEF Realize
        <3>2. \A x \in Packages : entries'[x].root = entries[x].root
            BY <2>1, <3>1
        <3>3. waiting' = waiting
            BY <2>2, Zenon DEF Realize
        <3> QED BY <3>2, <3>3, FewerWaits
    <2>3. CASE Return(r)
        <3>1. waiting' = waiting /\ (\/ entries' = entries
                                    \/ entries' = [entries EXCEPT ![Top(r).pkg] = Done(@, err[r], {})])
            BY <2>3 DEF Return
        <3>2. \A x \in Packages : entries'[x].root = entries[x].root
            BY <2>1, <3>1
        <3> QED BY <3>1, <3>2, FewerWaits
    <2> QED BY <1>4, <2>2, <2>3
<1>5. ASSUME NEW r \in Packages, Start(r) \/ Fetch(r) \/ DepsDone(r) \/ Lock(r) \/ Cancel(r)
      PROVE  UNCHANGED <<entries, waiting>>
    BY <1>5 DEF Start, Fetch, DepsDone, Lock, Cancel
<1>6. Finish \/ Interrupt \/ UNCHANGED installVars => UNCHANGED <<entries, waiting>>
    BY DEF Finish, Interrupt, installVars
<1> QED BY <1>2, <1>3, <1>4, <1>5, <1>6, NextDepWait DEF InstallNext, RootStep

(* Whatever the list needs and whatever fails, the roots in waiting never   *)
(* wait for each other in a circle: depCache.do refuses the wait that would  *)
(* close one, for any number of roots, deps and slots.                       *)
THEOREM WaitsNeverCircle == InstallSpec => []WaitsEnd
<1>1. InstallInit => EntriesMade /\ WaitsEnd
    BY DEF InstallInit, EntriesMade, WaitsEnd
<1>2. InstallInit /\ InstallTypeOK => WaitInv
    BY <1>1 DEF WaitInv
<1>3. WaitInv => WaitsEnd
    BY DEF WaitInv
<1> QED BY <1>2, <1>3, WaitStep, InstallTypes, PTL DEF InstallSpec

(***************************************************************************)
(* Closures.                                                               *)
(***************************************************************************)

Deps(p) == {list.needs[p][i] : i \in DOMAIN list.needs[p]}

(* Every package that p needs is sound, and none needs itself *)
Whole(p) == ~NeedsCycle(p) /\ \A q \in Needed(p) : list.bad[q] = "none"

(* A dep of a package is one that is left, or the frame has all it needs *)
FrameTold(f) ==
    /\ \A i \in DOMAIN f.left : f.left[i] \in Deps(f.pkg)
    /\ f.closure \subseteq Needed(f.pkg)
    /\ \A q \in Deps(f.pkg) :
        (\E i \in DOMAIN f.left : f.left[i] = q) \/ (Needed(q) \subseteq f.closure /\ Whole(q))

(* Each frame is for the next dep of the one below, and the last for the root *)
StackTold(s, r) ==
    /\ \A i \in 1..Len(s) : FrameTold(s[i])
    /\ \A i \in 2..Len(s) : Head(s[i].left) = s[i - 1].pkg
    /\ s # <<>> => s[Len(s)].pkg = r

StacksTold == \A r \in Packages : StackTold(stack[r], r)

StepsTold ==
    \A r \in Packages :
        /\ at[r] \in {"lock", "realize"} => Top(r).left = <<>>
        /\ at[r] = "wait" => waiting[r] = Head(Top(r).left)
        /\ at[r] = "return" => err[r] # "none"

EntriesTold ==
    \A d \in Packages : entries[d].done /\ entries[d].err = "none" =>
        entries[d].closure = Needed(d) /\ Whole(d)

ClosuresTold == \A r \in Packages : closures[r] # {} => closures[r] = Needed(r) /\ Whole(r)

Told == StacksTold /\ StepsTold /\ EntriesTold /\ ClosuresTold

(* A set of packages that has the deps of each *)
HasDeps(ps) == \A x \in ps : \A i \in DOMAIN list.needs[x] : list.needs[x][i] \in ps

LEMMA NeededIs ==
    ASSUME NEW p \in Packages
    PROVE  /\ Needed(p) \subseteq Packages
           /\ p \in Needed(p)
           /\ \A ps \in SUBSET Packages : p \in ps /\ HasDeps(ps) => Needed(p) \subseteq ps
BY DEF Needed, HasDeps

(* What a package needs has the deps of each, so it has what each needs. *)
LEMMA NeededHasDeps ==
    ASSUME list \in Lists, NEW p \in Packages
    PROVE  HasDeps(Needed(p))
<1> SUFFICES ASSUME NEW x \in Needed(p), NEW i \in DOMAIN list.needs[x]
             PROVE  list.needs[x][i] \in Needed(p)
    BY DEF HasDeps
<1>1. x \in Packages
    BY DEF Needed
<1>2. list.needs[x] \in Seq(Packages)
    BY <1>1, ListsAssumption
<1>3. list.needs[x][i] \in Packages
    BY <1>2, ElementOfSeq, LenProperties
<1>4. ASSUME NEW ps \in SUBSET Packages, p \in ps,
             \A y \in ps : \A j \in DOMAIN list.needs[y] : list.needs[y][j] \in ps
      PROVE  list.needs[x][i] \in ps
    <2>1. x \in ps
        BY <1>4 DEF Needed
    <2> QED BY <1>4, <2>1
<1> QED BY <1>3, <1>4 DEF Needed

LEMMA DepsType ==
    ASSUME list \in Lists, NEW p \in Packages
    PROVE  Deps(p) \subseteq Packages
<1>1. list.needs[p] \in Seq(Packages)
    BY ListsAssumption
<1> QED BY <1>1, ElementOfSeq, LenProperties DEF Deps

(* A package needs what each of its deps needs. *)
LEMMA NeededOfDep ==
    ASSUME list \in Lists, NEW p \in Packages, NEW q \in Deps(p)
    PROVE  Needed(q) \subseteq Needed(p)
<1>1. q \in Packages
    BY DepsType
<1>2. HasDeps(Needed(p)) /\ p \in Needed(p) /\ Needed(p) \in SUBSET Packages
    BY NeededHasDeps, NeededIs
<1>3. q \in Needed(p)
    BY <1>2 DEF HasDeps, Deps
<1> QED BY <1>1, <1>2, <1>3, NeededIs

(* And no more than itself and that. *)
LEMMA NeededFromDeps ==
    ASSUME list \in Lists, NEW p \in Packages, NEW x \in Needed(p), x # p
    PROVE  \E q \in Deps(p) : x \in Needed(q)
<1> DEFINE ps == {p} \cup UNION {Needed(q) : q \in Deps(p)}
<1>1. Deps(p) \subseteq Packages
    BY DepsType
<1>2. \A q \in Deps(p) : Needed(q) \subseteq Packages /\ q \in Needed(q) /\ HasDeps(Needed(q))
    BY <1>1, NeededIs, NeededHasDeps
<1>3. ps \in SUBSET Packages /\ p \in ps
    BY <1>2
<1>4. HasDeps(ps)
    <2> SUFFICES ASSUME NEW y \in ps, NEW i \in DOMAIN list.needs[y] PROVE list.needs[y][i] \in ps
        BY DEF HasDeps
    <2>1. CASE y = p
        BY <1>2, <2>1 DEF Deps
    <2>2. CASE y # p
        <3>1. PICK q \in Deps(p) : y \in Needed(q)
            BY <2>2
        <3>2. list.needs[y][i] \in Needed(q)
            BY <1>2, <3>1 DEF HasDeps
        <3> QED BY <3>2
    <2> QED BY <2>1, <2>2
<1>5. Needed(p) \subseteq ps
    BY <1>3, <1>4, NeededIs
<1> QED BY <1>5

(* A sound package whose deps are whole is whole. *)
LEMMA WholeFromDeps ==
    ASSUME list \in Lists, NEW p \in Packages, list.bad[p] = "none", \A q \in Deps(p) : Whole(q)
    PROVE  Whole(p)
<1>1. \A x \in Needed(p) : list.bad[x] = "none"
    BY NeededFromDeps DEF Whole
<1>2. ASSUME NEW x \in Needed(p), NEW i \in DOMAIN list.needs[x], x \in Needed(list.needs[x][i])
      PROVE  FALSE
    <2>1. CASE x = p
        <3> DEFINE q == list.needs[p][i]
        <3>1. q \in Deps(p) /\ p \in Needed(q)
            BY <1>2, <2>1 DEF Deps
        <3>2. NeedsCycle(q)
            BY <1>2, <2>1, <3>1 DEF NeedsCycle
        <3> QED BY <3>1, <3>2 DEF Whole
    <2>2. CASE x # p
        <3>1. PICK q \in Deps(p) : x \in Needed(q)
            BY <2>2, NeededFromDeps
        <3>2. NeedsCycle(q)
            BY <1>2, <3>1 DEF NeedsCycle
        <3> QED BY <3>1, <3>2 DEF Whole
    <2> QED BY <2>1, <2>2
<1> QED BY <1>1, <1>2 DEF Whole, NeedsCycle

(* With no dep left, a frame has all that its package needs. *)
LEMMA FrameWhole ==
    ASSUME list \in Lists, NEW f \in Frames, FrameTold(f), f.left = <<>>
    PROVE  /\ f.closure \cup {f.pkg} = Needed(f.pkg)
           /\ list.bad[f.pkg] = "none" => Whole(f.pkg)
<1>1. f.pkg \in Packages
    BY DEF Frames
<1>2. \A q \in Deps(f.pkg) : Needed(q) \subseteq f.closure /\ Whole(q)
    BY DEF FrameTold
<1>3. f.closure \cup {f.pkg} \subseteq Needed(f.pkg)
    BY <1>1, NeededIs DEF FrameTold
<1>4. Needed(f.pkg) \subseteq f.closure \cup {f.pkg}
    BY <1>1, <1>2, NeededFromDeps
<1> QED BY <1>1, <1>2, <1>3, <1>4, WholeFromDeps

(* A frame that takes what its next dep needs has one dep less to take. *)
LEMMA TakenTold ==
    ASSUME list \in Lists, NEW f \in Frames, FrameTold(f), f.left # <<>>,
           Whole(Head(f.left))
    PROVE  FrameTold(Taken(f, Needed(Head(f.left))))
<1> DEFINE d == Head(f.left)
           g == Taken(f, Needed(d))
<1>1. f.left \in Seq(Packages) /\ f.pkg \in Packages
    BY DEF Frames
<1>2. /\ d = f.left[1] /\ Len(f.left) \in Nat /\ Len(f.left) > 0 /\ DOMAIN f.left = 1..Len(f.left)
      /\ Tail(f.left) \in Seq(Packages) /\ Len(Tail(f.left)) = Len(f.left) - 1
      /\ \A i \in 1..Len(Tail(f.left)) : Tail(f.left)[i] = f.left[i + 1]
      /\ DOMAIN Tail(f.left) = 1..Len(Tail(f.left))
    BY <1>1, HeadTailProperties, LenProperties, EmptySeq
<1>3. d \in Deps(f.pkg)
    BY <1>2 DEF FrameTold
<1>4. g.pkg = f.pkg /\ g.left = Tail(f.left) /\ g.closure = f.closure \cup Needed(d)
    BY DEF Taken
<1> HIDE DEF g, d
<1>5. \A i \in DOMAIN g.left : g.left[i] \in Deps(g.pkg)
    <2> SUFFICES ASSUME NEW i \in DOMAIN g.left PROVE g.left[i] \in Deps(g.pkg)
        OBVIOUS
    <2>1. i + 1 \in DOMAIN f.left /\ g.left[i] = f.left[i + 1]
        BY <1>2, <1>4
    <2> QED BY <1>4, <2>1 DEF FrameTold
<1>6. g.closure \subseteq Needed(g.pkg)
    BY <1>1, <1>3, <1>4, NeededOfDep DEF FrameTold
<1>7. ASSUME NEW q \in Deps(g.pkg), ~\E i \in DOMAIN g.left : g.left[i] = q
      PROVE  Needed(q) \subseteq g.closure /\ Whole(q)
    <2>1. CASE q = d
        BY <1>4, <2>1 DEF d
    <2>2. CASE q # d
        <3>1. ~\E i \in DOMAIN f.left : f.left[i] = q
            <4> SUFFICES ASSUME NEW i \in DOMAIN f.left, f.left[i] = q PROVE FALSE
                OBVIOUS
            <4>1. i # 1 /\ i - 1 \in DOMAIN g.left
                BY <1>2, <1>4, <2>2
            <4>2. g.left[i - 1] = f.left[i]
                BY <1>2, <1>4, <4>1
            <4> QED BY <1>7, <4>1, <4>2
        <3>2. Needed(q) \subseteq f.closure /\ Whole(q)
            BY <1>4, <1>7, <3>1 DEF FrameTold
        <3> QED BY <1>4, <3>2
    <2> QED BY <2>1, <2>2
<1>8. FrameTold(g)
    BY <1>5, <1>6, <1>7 DEF FrameTold
<1> QED BY <1>8 DEF g, d

(* A new frame has all its deps left. *)
LEMMA NewFrameTold ==
    ASSUME NEW p \in Packages
    PROVE  FrameTold(Frame(p))
BY DEF FrameTold, Frame, Deps

(***************************************************************************)
(* The stacks.                                                             *)
(***************************************************************************)

(* A stack with a new frame on top, and below it frames of one that is told. *)
LEMMA OnTop ==
    ASSUME NEW r \in Packages, NEW s0 \in Seq(Frames), StackTold(s0, r),
           NEW s \in Seq(Frames), Len(s) > 0,
           \A i \in 2..Len(s) : i + Len(s0) - Len(s) \in 1..Len(s0) /\ s[i] = s0[i + Len(s0) - Len(s)],
           FrameTold(s[1]),
           IF Len(s) = 1 THEN s[1].pkg = r ELSE Head(s[2].left) = s[1].pkg
    PROVE  StackTold(s, r)
<1>1. Len(s) \in Nat /\ Len(s0) \in Nat
    BY LenProperties
<1>0. \A n, m \in Nat : n > 0 /\ n # 1 => n \in 2..n /\ n + m - n = m
    OBVIOUS
<1>2. ASSUME NEW i \in 1..Len(s) PROVE FrameTold(s[i])
    <2>1. CASE i = 1
        BY <2>1
    <2>2. CASE i # 1
        BY <1>1, <2>2 DEF StackTold
    <2> QED BY <2>1, <2>2
<1>3. ASSUME NEW i \in 2..Len(s) PROVE Head(s[i].left) = s[i - 1].pkg
    <2>1. CASE i = 2
        BY <1>1, <2>1
    <2>2. CASE i # 2
        <3> DEFINE j == i + Len(s0) - Len(s)
        <3>1. i - 1 \in 2..Len(s)
            BY <1>1, <2>2
        <3>2. s[i - 1] = s0[(i - 1) + Len(s0) - Len(s)] /\ (i - 1) + Len(s0) - Len(s) \in 1..Len(s0)
            BY <3>1
        <3>3. j \in 2..Len(s0) /\ s[i] = s0[j] /\ s[i - 1] = s0[j - 1]
            BY <1>1, <3>2
        <3> QED BY <3>3 DEF StackTold
    <2> QED BY <2>1, <2>2
<1>4. s[Len(s)].pkg = r
    <2>1. CASE Len(s) = 1
        BY <2>1
    <2>2. CASE Len(s) # 1
        <3>0. Len(s) \in 2..Len(s) /\ Len(s) + Len(s0) - Len(s) = Len(s0)
            BY <1>0, <1>1, <2>2
        <3>1. s[Len(s)] = s0[Len(s0)] /\ Len(s0) \in 1..Len(s0)
            BY <3>0
        <3>2. s0 # <<>>
            BY <1>1, <3>1
        <3> QED BY <3>1, <3>2 DEF StackTold
    <2> QED BY <2>1, <2>2
<1> QED BY <1>2, <1>3, <1>4 DEF StackTold

LEMMA EmptyTold == \A r : StackTold(<<>>, r)
BY DEF StackTold

(* The next dep goes on top of the package that needs it. *)
LEMMA PushTold ==
    ASSUME TypeInv, StacksTold, NEW r \in Packages, NEW p \in Packages,
           IF stack[r] = <<>> THEN p = r ELSE Top(r).left # <<>> /\ Head(Top(r).left) = p
    PROVE  StackTold(<<Frame(p)>> \o stack[r], r)
<1> DEFINE s0 == stack[r]
           s == <<Frame(p)>> \o s0
<1>1. Frame(p) \in Frames /\ <<Frame(p)>> \in Seq(Frames) /\ Len(<<Frame(p)>>) = 1
    BY FrameType DEF TypeInv
<1>2. s0 \in Seq(Frames) /\ Len(s0) \in Nat /\ StackTold(s0, r)
    BY LenProperties DEF TypeInv, InstallTypeOK, StacksTold
<1>3. /\ s \in Seq(Frames) /\ Len(s) = 1 + Len(s0) /\ s[1] = Frame(p)
      /\ \A i \in 1..1 + Len(s0) : i > 1 => s[i] = s0[i - 1]
    BY <1>1, <1>2, ConcatProperties
<1>4. Frame(p).pkg = p /\ FrameTold(Frame(p))
    BY NewFrameTold DEF Frame
<1>5. s0 = <<>> <=> Len(s0) = 0
    BY <1>2, EmptySeq
<1>6. s0 # <<>> => Head(s0[1].left) = p
    BY DEF Top
<1> HIDE DEF s0, s
<1>7. IF Len(s) = 1 THEN s[1].pkg = r ELSE Head(s[2].left) = s[1].pkg
    <2>1. CASE Len(s0) = 0
        BY <1>2, <1>3, <1>4, <1>5, <2>1 DEF s0
    <2>2. CASE Len(s0) # 0
        <3>1. s[2] = s0[1] /\ Len(s) # 1
            BY <1>2, <1>3, <2>2
        <3> QED BY <1>3, <1>4, <1>5, <1>6, <2>2, <3>1
    <2> QED BY <2>1, <2>2
<1>8. StackTold(s, r)
    <2>1. \A i \in 2..Len(s) : i + Len(s0) - Len(s) \in 1..Len(s0) /\ s[i] = s0[i + Len(s0) - Len(s)]
        BY <1>2, <1>3
    <2>2. Len(s) > 0 /\ FrameTold(s[1])
        BY <1>2, <1>3, <1>4
    <2> QED BY <1>2, <1>3, <1>7, <2>1, <2>2, OnTop
<1> QED BY <1>8 DEF s, s0

(* The package on top takes what its next dep needs. *)
LEMMA TakeTold ==
    ASSUME TypeInv, StacksTold, NEW r \in Packages, stack[r] # <<>>, Top(r).left # <<>>,
           Whole(Head(Top(r).left))
    PROVE  StackTold([stack[r] EXCEPT ![1] = Taken(@, Needed(Head(Top(r).left)))], r)
<1> DEFINE s0 == stack[r]
           f == Taken(s0[1], Needed(Head(s0[1].left)))
           s == [s0 EXCEPT ![1] = f]
<1>1. s0 \in Seq(Frames) /\ Len(s0) \in Nat /\ Len(s0) > 0 /\ StackTold(s0, r)
    BY LenProperties, EmptySeq DEF TypeInv, InstallTypeOK, StacksTold
<1>2. s0[1] \in Frames /\ FrameTold(s0[1]) /\ s0[1].left # <<>> /\ Whole(Head(s0[1].left))
    BY <1>1, ElementOfSeq DEF StackTold, Top
<1>3. Head(s0[1].left) \in Packages /\ s0[1].left \in Seq(Packages)
    BY <1>2, HeadTailProperties DEF Frames
<1>4. FrameTold(f)
    BY <1>2, TakenTold DEF TypeInv, InstallTypeOK
<1>5. f \in Frames /\ f.pkg = s0[1].pkg
    BY <1>2, <1>3, NeededIs, HeadTailProperties DEF Frames, Taken
<1> HIDE DEF f
<1>6. /\ s \in Seq(Frames) /\ Len(s) = Len(s0) /\ s[1] = f
      /\ \A i \in 1..Len(s0) : i # 1 => s[i] = s0[i]
    BY <1>1, <1>5, ExceptSeq
<1> HIDE DEF s, s0
<1>7. \A i \in 2..Len(s) : i + Len(s0) - Len(s) \in 1..Len(s0) /\ s[i] = s0[i + Len(s0) - Len(s)]
    BY <1>1, <1>6
<1>8. IF Len(s) = 1 THEN s[1].pkg = r ELSE Head(s[2].left) = s[1].pkg
    <2>1. s0 # <<>>
        BY DEF s0
    <2>2. CASE Len(s) = 1
        BY <1>1, <1>5, <1>6, <2>1, <2>2 DEF StackTold
    <2>3. CASE Len(s) # 1
        BY <1>1, <1>5, <1>6, <2>3 DEF StackTold
    <2> QED BY <2>2, <2>3
<1>9. StackTold(s, r)
    BY <1>1, <1>4, <1>6, <1>7, <1>8, OnTop
<1> QED BY <1>9 DEF s, s0, f, Top

(* The package on top goes. *)
LEMMA PopTold ==
    ASSUME TypeInv, StacksTold, NEW r \in Packages, stack[r] # <<>>
    PROVE  StackTold(Tail(stack[r]), r)
<1> DEFINE s0 == stack[r]
           s == Tail(s0)
<1>1. s0 \in Seq(Frames) /\ Len(s0) \in Nat /\ Len(s0) > 0 /\ StackTold(s0, r)
    BY LenProperties, EmptySeq DEF TypeInv, InstallTypeOK, StacksTold
<1>2. /\ s \in Seq(Frames) /\ Len(s) = Len(s0) - 1
      /\ \A i \in 1..Len(s) : s[i] = s0[i + 1]
    BY <1>1, HeadTailProperties
<1> HIDE DEF s, s0
<1>3. CASE Len(s) = 0
    <2>1. s = <<>>
        BY <1>2, <1>3, EmptySeq
    <2>2. StackTold(s, r)
        BY <2>1, EmptyTold
    <2> QED BY <2>2 DEF s, s0
<1>4. CASE Len(s) # 0
    <2>1. \A i \in 2..Len(s) : i + Len(s0) - Len(s) \in 1..Len(s0) /\ s[i] = s0[i + Len(s0) - Len(s)]
        BY <1>1, <1>2
    <2>2. Len(s) > 0 /\ s[1] = s0[2] /\ 2 \in 1..Len(s0) /\ s0 # <<>>
        BY <1>1, <1>2, <1>4
    <2>3. FrameTold(s[1])
        BY <2>2, <1>1 DEF StackTold
    <2>4. ASSUME Len(s) = 1 PROVE s[1].pkg = r
        <3>0. \A n \in Nat : n - 1 = 1 => n = 2
            OBVIOUS
        <3>1. Len(s0) = 2
            BY <1>1, <1>2, <2>4, <3>0
        <3> QED BY <1>1, <2>2, <2>4, <3>1 DEF StackTold
    <2>5. ASSUME Len(s) # 1 PROVE Head(s[2].left) = s[1].pkg
        <3>1. s[2] = s0[3] /\ 3 \in 2..Len(s0)
            BY <1>1, <1>2, <1>4, <2>5
        <3> QED BY <1>1, <2>2, <2>5, <3>1 DEF StackTold
    <2>6. IF Len(s) = 1 THEN s[1].pkg = r ELSE Head(s[2].left) = s[1].pkg
        BY <2>4, <2>5
    <2>7. StackTold(s, r)
        BY <1>1, <1>2, <2>1, <2>2, <2>3, <2>6, OnTop
    <2> QED BY <2>7 DEF s, s0
<1>5. Len(s) \in Nat
    BY <1>2, LenProperties
<1> QED BY <1>3, <1>4, <1>5

(* The package on top is installed, and the one below takes what it needs. *)
LEMMA InstalledTold ==
    ASSUME TypeInv, StacksTold, NEW r \in Packages, stack[r] # <<>>, Len(stack[r]) # 1, Whole(Top(r).pkg)
    PROVE  StackTold(<<Taken(stack[r][2], Needed(Top(r).pkg))>> \o SubSeq(stack[r], 3, Len(stack[r])), r)
<1> DEFINE s0 == stack[r]
           p == s0[1].pkg
           f == Taken(s0[2], Needed(p))
           rest == SubSeq(s0, 3, Len(s0))
           s == <<f>> \o rest
<1>1. s0 \in Seq(Frames) /\ Len(s0) \in Nat /\ Len(s0) > 0 /\ StackTold(s0, r)
    BY LenProperties, EmptySeq DEF TypeInv, InstallTypeOK, StacksTold
<1>2. /\ Len(s0) > 1 /\ 2 \in 2..Len(s0) /\ s0[2] \in Frames /\ s0[2].left # <<>>
      /\ \A i \in 1..Len(s0) : s0[i] \in Frames
    <2>0. \A n \in Nat : n > 0 /\ n # 1 => n > 1 /\ 1 \in 1..n /\ 2 \in 1..n /\ 2 \in 2..n
        OBVIOUS
    <2>1. Len(s0) > 1 /\ 1 \in 1..Len(s0) /\ 2 \in 1..Len(s0) /\ 2 \in 2..Len(s0)
        BY <1>1, <2>0
    <2>2. \A i \in 1..Len(s0) : s0[i] \in Frames
        BY <1>1, ElementOfSeq
    <2>3. s0[2].left # <<>>
        BY <2>1 DEF TypeInv, DepsLeft
    <2> QED BY <2>1, <2>2, <2>3
<1>3. Head(s0[2].left) = p /\ FrameTold(s0[2]) /\ p \in Packages
    BY <1>1, <1>2 DEF StackTold, Frames
<1>4. FrameTold(f)
    BY <1>2, <1>3, TakenTold DEF TypeInv, InstallTypeOK, Top
<1>5. f \in Frames /\ f.pkg = s0[2].pkg
    BY <1>2, <1>3, NeededIs, HeadTailProperties DEF Frames, Taken
<1> HIDE DEF f
<1>6. /\ rest \in Seq(Frames)
      /\ Len(rest) = IF 3 <= Len(s0) THEN Len(s0) - 2 ELSE 0
      /\ \A i \in 1..Len(s0) - 2 : rest[i] = s0[i + 2]
    BY <1>1, <1>2, SubSeqProperties
<1> HIDE DEF rest
<1>7. <<f>> \in Seq(Frames) /\ Len(<<f>>) = 1 /\ <<f>>[1] = f
    BY <1>5
<1>8. /\ s \in Seq(Frames) /\ Len(s) = 1 + Len(rest) /\ s[1] = f
      /\ \A i \in 2..Len(s) : s[i] = rest[i - 1]
    BY <1>6, <1>7, ConcatProperties, LenProperties
<1> HIDE DEF s, s0
<1>9. Len(s) = Len(s0) - 1 /\ \A i \in 2..Len(s) : s[i] = s0[i + 1]
    <2>0. \A n, k \in Nat : n > 1 /\ k = (IF 3 <= n THEN n - 2 ELSE 0) => k = n - 2 /\ 1 + k = n - 1
        OBVIOUS
    <2>1. Len(rest) = Len(s0) - 2 /\ Len(s) = Len(s0) - 1
        BY <1>1, <1>2, <1>6, <1>8, <2>0, LenProperties
    <2> SUFFICES ASSUME NEW i \in 2..Len(s) PROVE s[i] = s0[i + 1]
        BY <2>1
    <2>2. i - 1 \in 1..Len(s0) - 2 /\ (i - 1) + 2 = i + 1
        BY <1>1, <1>2, <2>1
    <2>3. rest[i - 1] = s0[(i - 1) + 2]
        BY <1>6, <2>2
    <2> QED BY <1>8, <2>2, <2>3
<1>10. \A i \in 2..Len(s) : i + Len(s0) - Len(s) \in 1..Len(s0) /\ s[i] = s0[i + Len(s0) - Len(s)]
    BY <1>1, <1>9
<1>11. IF Len(s) = 1 THEN s[1].pkg = r ELSE Head(s[2].left) = s[1].pkg
    <2>1. s0 # <<>>
        BY <1>1
    <2>2. CASE Len(s) = 1
        BY <1>1, <1>5, <1>8, <1>9, <2>1, <2>2 DEF StackTold
    <2>3. CASE Len(s) # 1
        <3>1. s[2] = s0[3] /\ 3 \in 2..Len(s0)
            BY <1>1, <1>2, <1>9, <2>3
        <3> QED BY <1>1, <1>5, <1>8, <2>3, <3>1 DEF StackTold
    <2> QED BY <2>2, <2>3
<1>12. Len(s) > 0
    BY <1>1, <1>2, <1>9
<1>13. StackTold(s, r)
    BY <1>1, <1>4, <1>8, <1>10, <1>11, <1>12, OnTop
<1> QED BY <1>13 DEF s, s0, rest, f, Top

(***************************************************************************)
(* The steps.                                                              *)
(***************************************************************************)

(* The list does not change, and so neither does what a package needs. *)
LEMMA SameList ==
    ASSUME list' = list
    PROVE  /\ \A p : (Needed(p))' = Needed(p) /\ ((Whole(p))' <=> Whole(p))
           /\ \A s, r : (StackTold(s, r))' <=> StackTold(s, r)
<1>1. \A p : (Needed(p))' = Needed(p)
    BY DEF Needed
<1>2. \A p : (Deps(p))' = Deps(p)
    BY DEF Deps
<1>3. \A p : (NeedsCycle(p))' <=> NeedsCycle(p)
    BY <1>1 DEF NeedsCycle
<1>4. \A p : (Whole(p))' <=> Whole(p)
    BY <1>1, <1>3 DEF Whole
<1>5. \A f : (FrameTold(f))' <=> FrameTold(f)
    BY <1>1, <1>2, <1>4 DEF FrameTold
<1>6. \A s, r : (StackTold(s, r))' <=> StackTold(s, r)
    BY <1>5 DEF StackTold
<1> QED BY <1>1, <1>4, <1>6

LEMMA ToldKept ==
    ASSUME Told, list' = list
    PROVE  /\ UNCHANGED stack => StacksTold'
           /\ UNCHANGED entries => EntriesTold'
           /\ UNCHANGED closures => ClosuresTold'
BY SameList DEF Told, StacksTold, EntriesTold, ClosuresTold

LEMMA OneStackTold ==
    ASSUME TypeInv, Told, list' = list, NEW r \in Packages, NEW s,
           stack' = [stack EXCEPT ![r] = s], StackTold(s, r)
    PROVE  StacksTold'
<1>1. \A q \in Packages : stack'[q] = IF q = r THEN s ELSE stack[q]
    BY DEF TypeInv, InstallTypeOK
<1>2. \A q \in Packages : StackTold(stack'[q], q)
    BY <1>1 DEF Told, StacksTold
<1> QED BY <1>2, SameList DEF StacksTold

LEMMA OneStepTold ==
    ASSUME TypeInv, Told, NEW r \in Packages, NEW step, at' = [at EXCEPT ![r] = step],
           \A q \in Packages : q # r => stack'[q] = stack[q] /\ waiting'[q] = waiting[q] /\ err'[q] = err[q],
           step \in {"lock", "realize"} => stack'[r][1].left = <<>>,
           step = "wait" => waiting'[r] = Head(stack'[r][1].left),
           step = "return" => err'[r] # "none"
    PROVE  StepsTold'
<1>1. \A q \in Packages : at'[q] = IF q = r THEN step ELSE at[q]
    BY DEF TypeInv, InstallTypeOK
<1> QED BY <1>1 DEF Told, StepsTold, Top

(* A step of a root that keeps what is told of the rest, when it goes on   *)
(* with its stack as it is.                                                *)
LEMMA OnlyStepTold ==
    ASSUME TypeInv, Told, NEW r \in Packages, NEW step, at' = [at EXCEPT ![r] = step],
           UNCHANGED <<list, stack, entries, closures>>,
           \A q \in Packages : q # r => waiting'[q] = waiting[q] /\ err'[q] = err[q],
           step \in {"lock", "realize"} => Top(r).left = <<>>,
           step = "wait" => waiting'[r] = Head(Top(r).left),
           step = "return" => err'[r] # "none"
    PROVE  Told'
<1>1. StepsTold'
    BY OneStepTold DEF Top
<1> QED BY <1>1, ToldKept DEF Told

LEMMA StartTold == ASSUME TypeInv, Told, NEW r \in Packages, Start(r) PROVE Told'
<1>1. UNCHANGED <<list, err, entries, waiting, closures>> /\ at[r] = "queued" /\ stack[r] = <<>>
    BY DEF Start, TypeInv, InstallTypeOK
<1>2. CASE cancelled
    <2>1. at' = [at EXCEPT ![r] = "ended"] /\ stack' = stack
        BY <1>2 DEF Start, Go
    <2> QED BY <1>1, <2>1, OnlyStepTold
<1>3. CASE ~cancelled
    <2> DEFINE s == <<Frame(r)>> \o stack[r]
    <2>1. at' = [at EXCEPT ![r] = "fetch"] /\ stack' = [stack EXCEPT ![r] = s]
        BY <1>3 DEF Start, Go, Push
    <2>2. StackTold(s, r)
        BY <1>1, PushTold DEF Told
    <2> HIDE DEF s
    <2>3. StacksTold'
        BY <1>1, <2>1, <2>2, OneStackTold
    <2>4. \A q \in Packages : q # r => stack'[q] = stack[q]
        BY <2>1 DEF TypeInv, InstallTypeOK
    <2>5. StepsTold'
        BY <1>1, <2>1, <2>4, OneStepTold
    <2> QED BY <1>1, <2>3, <2>5, ToldKept DEF Told
<1> QED BY <1>2, <1>3

LEMMA FetchTold == ASSUME TypeInv, Told, NEW r \in Packages, Fetch(r) PROVE Told'
<1>1. UNCHANGED <<list, stack, entries, waiting, closures>>
    BY DEF Fetch
<1>2. err \in [Packages -> Errors]
    BY DEF TypeInv, InstallTypeOK
<1>3. PICK why \in {"none", "drift", "cancelled"} :
        IF why = "none" THEN at' = [at EXCEPT ![r] = "deps"] /\ err' = err
        ELSE at' = [at EXCEPT ![r] = "return"] /\ err' = [err EXCEPT ![r] = why]
    BY DEF Fetch, Go, Fail
<1>4. CASE why = "none"
    BY <1>1, <1>3, <1>4, OnlyStepTold
<1>5. CASE why # "none"
    <2>1. at' = [at EXCEPT ![r] = "return"] /\ err'[r] # "none"
          /\ \A q \in Packages : q # r => err'[q] = err[q]
        BY <1>2, <1>3, <1>5
    <2> QED BY <1>1, <2>1, OnlyStepTold
<1> QED BY <1>4, <1>5

(* An error goes up the stack, which stays as it is. *)
LEMMA FailTold ==
    ASSUME TypeInv, Told, NEW r \in Packages, NEW why, why # "none", Fail(r, why),
           UNCHANGED <<list, stack, entries, closures>>,
           \A q \in Packages : q # r => waiting'[q] = waiting[q]
    PROVE  Told'
<1>1. err \in [Packages -> Errors]
    BY DEF TypeInv, InstallTypeOK
<1>2. at' = [at EXCEPT ![r] = "return"] /\ err'[r] # "none"
      /\ \A q \in Packages : q # r => err'[q] = err[q]
    BY <1>1 DEF Fail, Go
<1> QED BY <1>2, OnlyStepTold

LEMMA TakeDepTold ==
    ASSUME TypeInv, Told, NEW r \in Packages, stack[r] # <<>>, Top(r).left # <<>>,
           Head(Top(r).left) \in Packages, entries[Head(Top(r).left)].done,
           TakeDep(r, Head(Top(r).left)), UNCHANGED <<list, entries, closures>>,
           \A q \in Packages : q # r => waiting'[q] = waiting[q]
    PROVE  Told'
<1> DEFINE d == Head(Top(r).left)
<1>1. CASE entries[d].err # "none"
    <2>1. Fail(r, entries[d].err) /\ UNCHANGED stack
        BY <1>1 DEF TakeDep
    <2> QED BY <1>1, <2>1, FailTold
<1>2. CASE entries[d].err = "none"
    <2> DEFINE s == [stack[r] EXCEPT ![1] = Taken(@, Needed(d))]
    <2>1. entries[d].closure = Needed(d) /\ Whole(d)
        BY <1>2 DEF Told, EntriesTold
    <2>2. at' = [at EXCEPT ![r] = "deps"] /\ err' = err /\ stack' = [stack EXCEPT ![r] = s]
        BY <1>2, <2>1 DEF TakeDep, Go, TypeInv, InstallTypeOK
    <2>3. StackTold(s, r)
        BY <2>1, TakeTold DEF Told
    <2> HIDE DEF s
    <2>4. StacksTold'
        BY <2>2, <2>3, OneStackTold
    <2>5. \A q \in Packages : q # r => stack'[q] = stack[q]
        BY <2>2 DEF TypeInv, InstallTypeOK
    <2>6. StepsTold'
        BY <2>2, <2>5, OneStepTold
    <2> QED BY <2>4, <2>6, ToldKept DEF Told
<1> QED BY <1>1, <1>2

LEMMA NextDepTold == ASSUME TypeInv, Told, NEW r \in Packages, NextDep(r) PROVE Told'
<1> DEFINE d == Head(Top(r).left)
<1>1. at[r] = "deps" /\ Top(r).left # <<>> /\ UNCHANGED <<list, closures>>
    BY DEF NextDep
<1>2. d \in Packages /\ stack[r] # <<>>
    BY <1>1, TopType, HeadTailProperties DEF TypeInv
<1>3. ASSUME NEW why \in {"cycle", "shared cycle"}, Fail(r, why), UNCHANGED <<stack, entries, waiting>>
      PROVE  Told'
    BY <1>1, <1>3, FailTold
<1>4. ASSUME entries' = [entries EXCEPT ![d].root = r], Push(r, d), Go(r, "fetch"), UNCHANGED <<err, waiting>>
      PROVE  Told'
    <2> DEFINE s == <<Frame(d)>> \o stack[r]
    <2>1. at' = [at EXCEPT ![r] = "fetch"] /\ stack' = [stack EXCEPT ![r] = s]
        BY <1>4 DEF Go, Push
    <2>2. StackTold(s, r)
        BY <1>1, <1>2, PushTold DEF Told
    <2> HIDE DEF s, d
    <2>3. StacksTold'
        BY <1>1, <2>1, <2>2, OneStackTold
    <2>4. \A q \in Packages : q # r => stack'[q] = stack[q]
        BY <2>1 DEF TypeInv, InstallTypeOK
    <2>5. StepsTold'
        BY <1>4, <2>1, <2>4, OneStepTold
    <2>6. \A p \in Packages : entries'[p].done = entries[p].done /\ entries'[p].err = entries[p].err
            /\ entries'[p].closure = entries[p].closure
        BY <1>2, <1>4 DEF TypeInv, InstallTypeOK
    <2>7. EntriesTold'
        BY <1>1, <2>6, SameList DEF Told, EntriesTold
    <2> QED BY <1>1, <2>3, <2>5, <2>7, ToldKept DEF Told
<1>5. ASSUME entries[d].done, TakeDep(r, d), UNCHANGED <<entries, waiting>> PROVE Told'
    BY <1>1, <1>2, <1>5, TakeDepTold
<1>6. ASSUME waiting' = [waiting EXCEPT ![r] = d], Go(r, "wait"), UNCHANGED <<stack, err, entries>>
      PROVE  Told'
    <2>1. /\ at' = [at EXCEPT ![r] = "wait"] /\ waiting'[r] = d
          /\ \A q \in Packages : q # r => waiting'[q] = waiting[q]
        BY <1>6 DEF Go, TypeInv, InstallTypeOK
    <2> QED BY <1>1, <1>6, <2>1, OnlyStepTold
<1> HIDE DEF d
<1> QED BY <1>3, <1>4, <1>5, <1>6 DEF NextDep, d

LEMMA WakeTold == ASSUME TypeInv, Told, NEW r \in Packages, Wake(r) PROVE Told'
<1>1. at[r] = "wait" /\ UNCHANGED <<list, entries, closures>>
    BY DEF Wake
<1>2. stack[r] # <<>> /\ Top(r).left # <<>> /\ waiting[r] = Head(Top(r).left)
    BY <1>1 DEF TypeInv, InstallTypeOK, DepsLeft, Told, StepsTold
<1>3. Head(Top(r).left) \in Packages
    BY <1>1, <1>2, TopType, HeadTailProperties DEF TypeInv
<1>4. entries[Head(Top(r).left)].done /\ TakeDep(r, Head(Top(r).left))
      /\ \A q \in Packages : q # r => waiting'[q] = waiting[q]
    BY <1>2 DEF Wake, TypeInv, InstallTypeOK
<1> QED BY <1>1, <1>2, <1>3, <1>4, TakeDepTold

LEMMA DepsDoneTold == ASSUME TypeInv, Told, NEW r \in Packages, DepsDone(r) PROVE Told'
<1>1. UNCHANGED <<list, stack, err, entries, waiting, closures>> /\ Top(r).left = <<>>
    BY DEF DepsDone
<1>2. PICK step \in {"lock", "realize"} : at' = [at EXCEPT ![r] = step]
    BY DEF DepsDone, Go
<1> QED BY <1>1, <1>2, OnlyStepTold

LEMMA LockTold == ASSUME TypeInv, Told, NEW r \in Packages, Lock(r) PROVE Told'
<1>1. UNCHANGED <<list, stack, err, entries, waiting, closures>> /\ at[r] = "lock"
      /\ at' = [at EXCEPT ![r] = "realize"]
    BY DEF Lock, Go
<1>2. Top(r).left = <<>>
    BY <1>1 DEF Told, StepsTold
<1> QED BY <1>1, <1>2, OnlyStepTold

LEMMA RealizeTold == ASSUME TypeInv, Told, NEW r \in Packages, Realize(r) PROVE Told'
<1> DEFINE top == Top(r)
           got == top.closure \cup {top.pkg}
           s == <<Taken(stack[r][2], got)>> \o SubSeq(stack[r], 3, Len(stack[r]))
<1>1. at[r] = "realize" /\ UNCHANGED <<list, waiting>>
    BY DEF Realize
<1>2. stack[r] # <<>> /\ Len(stack[r]) \in Nat /\ Len(stack[r]) > 0 /\ top \in Frames /\ top.pkg \in Packages
    BY <1>1, TopType DEF TypeInv
<1>3. top.left = <<>> /\ list \in Lists
    BY <1>1 DEF Told, StepsTold, TypeInv, InstallTypeOK
<1>4. StackTold(stack[r], r) /\ FrameTold(top)
    BY <1>2 DEF Told, StacksTold, StackTold, Top
<1>5. got = Needed(top.pkg) /\ (list.bad[top.pkg] = "none" => Whole(top.pkg))
    BY <1>2, <1>3, <1>4, FrameWhole
<1>6. ASSUME NEW why, why # "none", Fail(r, why), UNCHANGED <<stack, entries, closures>>
      PROVE  Told'
    BY <1>1, <1>6, FailTold
<1>7. ASSUME list.bad[top.pkg] = "none", Len(stack[r]) = 1,
             closures' = [closures EXCEPT ![r] = got], stack' = [stack EXCEPT ![r] = <<>>],
             Go(r, "ended"), UNCHANGED <<entries, err>>
      PROVE  Told'
    <2>1. top.pkg = r
        BY <1>2, <1>4, <1>7 DEF StackTold, Top
    <2>2. StacksTold'
        BY <1>1, <1>7, EmptyTold, OneStackTold
    <2>3. \A q \in Packages : q # r => stack'[q] = stack[q]
        BY <1>7 DEF TypeInv, InstallTypeOK
    <2>4. StepsTold'
        BY <1>1, <1>7, <2>3, OneStepTold DEF Go
    <2>5. \A q \in Packages : closures'[q] = IF q = r THEN Needed(r) ELSE closures[q]
        BY <1>5, <1>7, <2>1 DEF TypeInv, InstallTypeOK
    <2>6. Whole(r)
        BY <1>5, <1>7, <2>1
    <2> HIDE DEF top, got
    <2>7. ClosuresTold'
        BY <1>1, <2>5, <2>6, SameList DEF Told, ClosuresTold
    <2> QED BY <1>1, <1>7, <2>2, <2>4, <2>7, ToldKept DEF Told
<1>8. ASSUME list.bad[top.pkg] = "none", Len(stack[r]) # 1,
             entries' = [entries EXCEPT ![top.pkg] = Done(@, "none", got)],
             stack' = [stack EXCEPT ![r] = s], Go(r, "deps"), UNCHANGED <<closures, err>>
      PROVE  Told'
    <2>1. Whole(top.pkg)
        BY <1>5, <1>8
    <2>2. StackTold(s, r)
        BY <1>2, <1>5, <1>8, <2>1, InstalledTold DEF Told
    <2> HIDE DEF s
    <2>3. StacksTold'
        BY <1>1, <1>8, <2>2, OneStackTold
    <2>4. \A q \in Packages : q # r => stack'[q] = stack[q]
        BY <1>8 DEF TypeInv, InstallTypeOK
    <2>5. StepsTold'
        BY <1>1, <1>8, <2>4, OneStepTold DEF Go
    <2> HIDE DEF got, top
    <2>6. entries'[top.pkg].closure = Needed(top.pkg)
          /\ \A p \in Packages : p # top.pkg => entries'[p] = entries[p]
        BY <1>2, <1>5, <1>8 DEF Done, TypeInv, InstallTypeOK
    <2>7. EntriesTold'
        BY <1>1, <2>1, <2>6, SameList DEF Told, EntriesTold
    <2> QED BY <1>1, <1>8, <2>3, <2>5, <2>7, ToldKept DEF Told
<1>9. \/ /\ \/ list.bad[top.pkg] # "none" /\ Fail(r, list.bad[top.pkg])
            \/ Fail(r, "cancelled")
         /\ UNCHANGED <<stack, entries, closures>>
      \/ /\ list.bad[top.pkg] = "none" /\ Len(stack[r]) = 1
         /\ closures' = [closures EXCEPT ![r] = got] /\ stack' = [stack EXCEPT ![r] = <<>>]
         /\ Go(r, "ended") /\ UNCHANGED <<entries, err>>
      \/ /\ list.bad[top.pkg] = "none" /\ Len(stack[r]) # 1
         /\ entries' = [entries EXCEPT ![top.pkg] = Done(@, "none", got)]
         /\ stack' = [stack EXCEPT ![r] = s] /\ Go(r, "deps") /\ UNCHANGED <<closures, err>>
    BY ZenonT(60) DEF Realize
<1> HIDE DEF top, got, s
<1> QED BY <1>6, <1>7, <1>8, <1>9

LEMMA ReturnTold == ASSUME TypeInv, Told, NEW r \in Packages, Return(r) PROVE Told'
<1> DEFINE t == Tail(stack[r])
<1>1. /\ at[r] = "return" /\ stack' = [stack EXCEPT ![r] = t]
      /\ UNCHANGED <<list, err, waiting, closures>> /\ err[r] # "none"
    BY DEF Return, Told, StepsTold
<1>2. stack[r] # <<>> /\ Top(r).pkg \in Packages
    BY <1>1, TopType DEF TypeInv
<1>3. StackTold(t, r)
    BY <1>2, PopTold DEF Told
<1> HIDE DEF t
<1>4. StacksTold'
    BY <1>1, <1>3, OneStackTold
<1>5. PICK step \in {"return", "cancel", "ended"} : at' = [at EXCEPT ![r] = step]
    <2>1. at = [at EXCEPT ![r] = "return"]
        BY <1>1 DEF TypeInv, InstallTypeOK
    <2> QED BY <2>1 DEF Return, Go
<1>6. \A q \in Packages : q # r => stack'[q] = stack[q]
    BY <1>1 DEF TypeInv, InstallTypeOK
<1>7. StepsTold'
    BY <1>1, <1>5, <1>6, OneStepTold
<1>8. \/ entries' = entries
      \/ entries' = [entries EXCEPT ![Top(r).pkg] = Done(@, err[r], {})]
    BY DEF Return
<1>9. \A p \in Packages : entries'[p].err # "none" \/ entries'[p] = entries[p]
    BY <1>1, <1>2, <1>8 DEF Done, TypeInv, InstallTypeOK
<1>10. EntriesTold'
    BY <1>1, <1>9, SameList DEF Told, EntriesTold
<1> QED BY <1>1, <1>4, <1>7, <1>10, ToldKept DEF Told

LEMMA ToldStep == TypeInv /\ Told /\ [InstallNext]_installVars => Told'
<1> SUFFICES ASSUME TypeInv, Told, [InstallNext]_installVars PROVE Told'
    OBVIOUS
<1>1. ASSUME NEW r \in Packages, Cancel(r) PROVE Told'
    BY <1>1, OnlyStepTold DEF Cancel, Go
<1>2. ASSUME NEW r \in Packages, RootStep(r) PROVE Told'
    BY <1>1, <1>2, StartTold, FetchTold, NextDepTold, WakeTold, DepsDoneTold, LockTold, RealizeTold,
       ReturnTold DEF RootStep
<1>3. CASE Finish \/ Interrupt \/ UNCHANGED installVars
    <2>1. UNCHANGED <<list, stack, at, err, waiting, entries, closures>>
        BY <1>3 DEF Finish, Interrupt, installVars
    <2>2. StepsTold'
        BY <2>1 DEF Told, StepsTold, Top
    <2> QED BY <2>1, <2>2, ToldKept DEF Told
<1> QED BY <1>2, <1>3 DEF InstallNext

LEMMA ToldInit == InstallInit => Told
<1> SUFFICES ASSUME InstallInit PROVE Told
    OBVIOUS
<1>1. StacksTold
    BY EmptyTold DEF InstallInit, StacksTold
<1>2. StepsTold
    BY DEF InstallInit, StepsTold
<1>3. EntriesTold /\ ClosuresTold
    BY DEF InstallInit, EntriesTold, ClosuresTold, NoEntry
<1> QED BY <1>1, <1>2, <1>3 DEF Told

(***************************************************************************)
(* The report.                                                             *)
(***************************************************************************)

(* What a root that ended, failed or was cancelled leaves behind *)
CancelledTold ==
    /\ cancelled => interrupted \/ failed # None
    /\ \A p \in Packages : err[p] = "cancelled" \/ entries[p].err = "cancelled" => cancelled
    /\ \A r \in Packages : at[r] = "cancel" => failed # None

FailedTold ==
    failed # None => /\ at[failed] \in {"cancel", "ended"} /\ err[failed] # "drift"
                     /\ err[failed] = "cancelled" => interrupted

EndedTold ==
    \A r \in list.roots : at[r] = "ended" =>
        closures[r] # {} \/ cancelled \/ failed # None \/ err[r] = "drift"

OutcomeTold ==
    /\ outcome.why = "ok" => \A r \in list.roots : closures[r] # {}
    /\ CauseNamed /\ DriftNamed

ReportTold == CancelledTold /\ FailedTold /\ EndedTold /\ OutcomeTold

(* A closure that a root has stays one, so a success stays true. *)
LEMMA OutcomeKept ==
    ASSUME list' = list, OutcomeTold, outcome' = outcome,
           \A r \in list.roots : closures[r] # {} => closures'[r] # {}
    PROVE  OutcomeTold'
<1>1. DriftNamed'
    <2>1. \A p : (Needed(p))' = Needed(p)
        BY SameList
    <2> QED BY <2>1 DEF OutcomeTold, DriftNamed
<1> QED BY <1>1 DEF OutcomeTold, CauseNamed

(* A step of a root that neither ends it nor fails it. *)
LEMMA GoReport ==
    ASSUME TypeInv, ReportTold, NEW r \in Packages, NEW step,
           step \notin {"cancel", "ended"}, at[r] \notin {"cancel", "ended"},
           at' = [at EXCEPT ![r] = step], UNCHANGED <<list, failed, cancelled, interrupted, closures, outcome>>,
           \A p \in Packages : err'[p] = "cancelled" \/ entries'[p].err = "cancelled" => cancelled,
           \A p \in Packages : p # r => err'[p] = err[p]
    PROVE  ReportTold'
<1>1. \A q \in Packages : at'[q] = IF q = r THEN step ELSE at[q]
    BY DEF TypeInv, InstallTypeOK
<1>2. CancelledTold'
    BY <1>1 DEF ReportTold, CancelledTold
<1>3. FailedTold'
    <2>1. failed # None => failed \in Packages /\ failed # r
        BY DEF TypeInv, InstallTypeOK, ReportTold, FailedTold
    <2> QED BY <1>1, <2>1 DEF ReportTold, FailedTold
<1>4. list.roots \subseteq Packages
    BY ListsAssumption DEF TypeInv, InstallTypeOK
<1>5. EndedTold'
    BY <1>1, <1>4 DEF ReportTold, EndedTold
<1>6. OutcomeTold'
    BY OutcomeKept DEF ReportTold
<1> QED BY <1>2, <1>3, <1>5, <1>6 DEF ReportTold

LEMMA FailReport ==
    ASSUME TypeInv, ReportTold, NEW r \in Packages, NEW why, why = "cancelled" => cancelled, Fail(r, why),
           at[r] \notin {"cancel", "ended"},
           UNCHANGED <<list, entries, failed, cancelled, interrupted, closures, outcome>>
    PROVE  ReportTold'
<1>1. \A p \in Packages : err'[p] = IF p = r THEN why ELSE err[p]
    BY DEF Fail, TypeInv, InstallTypeOK
<1>2. \A p \in Packages : err'[p] = "cancelled" \/ entries'[p].err = "cancelled" => cancelled
    BY <1>1 DEF ReportTold, CancelledTold
<1> QED BY <1>1, <1>2, GoReport DEF Fail, Go

LEMMA TakeDepReport ==
    ASSUME TypeInv, ReportTold, NEW r \in Packages, NEW d \in Packages, TakeDep(r, d),
           at[r] \notin {"cancel", "ended"},
           UNCHANGED <<list, entries, failed, cancelled, interrupted, closures, outcome>>
    PROVE  ReportTold'
<1>1. CASE entries[d].err # "none"
    BY <1>1, FailReport DEF TakeDep, ReportTold, CancelledTold
<1>2. CASE entries[d].err = "none"
    BY <1>2, GoReport DEF TakeDep, Go, ReportTold, CancelledTold
<1> QED BY <1>1, <1>2

LEMMA StartReport == ASSUME TypeInv, ReportTold, NEW r \in Packages, Start(r) PROVE ReportTold'
<1>1. at[r] = "queued" /\ UNCHANGED <<list, err, entries, failed, cancelled, interrupted, closures, outcome>>
    BY DEF Start
<1>2. CASE cancelled
    <2>1. \A q \in Packages : at'[q] = IF q = r THEN "ended" ELSE at[q]
        BY <1>2 DEF Start, Go, TypeInv, InstallTypeOK
    <2>2. list.roots \subseteq Packages /\ (failed # None => failed \in Packages)
        BY ListsAssumption DEF TypeInv, InstallTypeOK
    <2>3. CancelledTold' /\ FailedTold' /\ EndedTold'
        BY <1>1, <1>2, <2>1, <2>2 DEF ReportTold, CancelledTold, FailedTold, EndedTold
    <2>4. OutcomeTold'
        BY <1>1, OutcomeKept DEF ReportTold
    <2> QED BY <2>3, <2>4 DEF ReportTold
<1>3. CASE ~cancelled
    BY <1>1, <1>3, GoReport DEF Start, Go, ReportTold, CancelledTold
<1> QED BY <1>2, <1>3

LEMMA FetchReport == ASSUME TypeInv, ReportTold, NEW r \in Packages, Fetch(r) PROVE ReportTold'
<1>1. at[r] = "fetch" /\ UNCHANGED <<list, entries, failed, cancelled, interrupted, closures, outcome>>
    BY DEF Fetch
<1>2. \/ \E why \in {"drift", "cancelled"} : Fail(r, why) /\ (why = "cancelled" => cancelled)
      \/ Go(r, "deps") /\ UNCHANGED err
    BY DEF Fetch
<1>3. CASE Go(r, "deps") /\ UNCHANGED err
    BY <1>1, <1>3, GoReport DEF Go, ReportTold, CancelledTold
<1> QED BY <1>1, <1>2, <1>3, FailReport

LEMMA NextDepReport == ASSUME TypeInv, ReportTold, NEW r \in Packages, NextDep(r) PROVE ReportTold'
<1> DEFINE d == Head(Top(r).left)
<1>1. at[r] = "deps" /\ Top(r).left # <<>>
      /\ UNCHANGED <<list, failed, cancelled, interrupted, closures, outcome>>
    BY DEF NextDep
<1>2. d \in Packages
    BY <1>1, TopType, HeadTailProperties DEF TypeInv
<1> HIDE DEF d
<1>3. ASSUME NEW why \in {"cycle", "shared cycle"}, Fail(r, why), UNCHANGED entries
      PROVE  ReportTold'
    BY <1>1, <1>3, FailReport
<1>4. ASSUME NEW step \in {"fetch", "wait"}, Go(r, step), UNCHANGED err,
             \A p \in Packages : entries'[p].err = entries[p].err
      PROVE  ReportTold'
    BY <1>1, <1>4, GoReport DEF Go, ReportTold, CancelledTold
<1>5. ASSUME entries' = [entries EXCEPT ![d].root = r] PROVE \A p \in Packages : entries'[p].err = entries[p].err
    BY <1>2, <1>5 DEF TypeInv, InstallTypeOK
<1>6. ASSUME TakeDep(r, d), UNCHANGED entries PROVE ReportTold'
    BY <1>1, <1>2, <1>6, TakeDepReport
<1> QED BY <1>3, <1>4, <1>5, <1>6 DEF NextDep, d

LEMMA WakeReport == ASSUME TypeInv, ReportTold, NEW r \in Packages, Wake(r) PROVE ReportTold'
<1>1. at[r] = "wait" /\ waiting[r] \in Packages /\ TakeDep(r, waiting[r])
      /\ UNCHANGED <<list, entries, failed, cancelled, interrupted, closures, outcome>>
    BY DEF Wake, TypeInv, InstallTypeOK
<1> QED BY <1>1, TakeDepReport

LEMMA RealizeReport == ASSUME TypeInv, ReportTold, NEW r \in Packages, Realize(r) PROVE ReportTold'
<1> DEFINE top == Top(r)
           got == top.closure \cup {top.pkg}
<1>1. at[r] = "realize" /\ UNCHANGED <<list, failed, cancelled, interrupted, outcome>>
    BY DEF Realize
<1>2. top.pkg \in Packages /\ got # {} /\ list \in Lists
    BY <1>1, TopType DEF TypeInv, InstallTypeOK
<1>3. list.bad[top.pkg] # "cancelled"
    BY <1>2, ListsAssumption
<1>4. ASSUME NEW why, why = "cancelled" => cancelled, Fail(r, why), UNCHANGED <<entries, closures>>
      PROVE  ReportTold'
    BY <1>1, <1>4, FailReport
<1>5. ASSUME closures' = [closures EXCEPT ![r] = got], Go(r, "ended"), UNCHANGED <<entries, err>>
      PROVE  ReportTold'
    <2>1. \A q \in Packages : at'[q] = IF q = r THEN "ended" ELSE at[q]
        BY <1>5 DEF Go, TypeInv, InstallTypeOK
    <2>2. \A q \in Packages : closures'[q] = IF q = r THEN got ELSE closures[q]
        BY <1>5 DEF TypeInv, InstallTypeOK
    <2> HIDE DEF top, got
    <2>3. list.roots \subseteq Packages /\ (failed # None => failed \in Packages)
        BY ListsAssumption DEF TypeInv, InstallTypeOK
    <2>4. CancelledTold' /\ FailedTold' /\ EndedTold'
        BY <1>1, <1>2, <1>5, <2>1, <2>2, <2>3 DEF ReportTold, CancelledTold, FailedTold, EndedTold
    <2>5. OutcomeTold'
        BY <1>1, <1>2, <2>2, <2>3, OutcomeKept DEF ReportTold
    <2> QED BY <2>4, <2>5 DEF ReportTold
<1>6. ASSUME entries' = [entries EXCEPT ![top.pkg] = Done(@, "none", got)], Go(r, "deps"),
             UNCHANGED <<closures, err>>
      PROVE  ReportTold'
    <2>1. \A p \in Packages : entries'[p].err = "none" \/ entries'[p].err = entries[p].err
        BY <1>2, <1>6 DEF Done, TypeInv, InstallTypeOK
    <2> QED BY <1>1, <1>6, <2>1, GoReport DEF Go, ReportTold, CancelledTold
<1>7. \/ /\ \/ Fail(r, list.bad[top.pkg])
            \/ Fail(r, "cancelled") /\ cancelled
         /\ UNCHANGED <<entries, closures>>
      \/ closures' = [closures EXCEPT ![r] = got] /\ Go(r, "ended") /\ UNCHANGED <<entries, err>>
      \/ /\ entries' = [entries EXCEPT ![top.pkg] = Done(@, "none", got)]
         /\ Go(r, "deps") /\ UNCHANGED <<closures, err>>
    BY ZenonT(60) DEF Realize
<1> HIDE DEF top, got
<1> QED BY <1>3, <1>4, <1>5, <1>6, <1>7

LEMMA ReturnReport == ASSUME TypeInv, ReportTold, NEW r \in Packages, Return(r) PROVE ReportTold'
<1>1. at[r] = "return" /\ UNCHANGED <<list, err, cancelled, interrupted, closures, outcome>>
    BY DEF Return
<1>2. CASE Len(stack[r]) > 1
    <2>1. entries' = [entries EXCEPT ![Top(r).pkg] = Done(@, err[r], {})] /\ UNCHANGED <<at, failed>>
        BY <1>2 DEF Return
    <2>2. \A p \in Packages : entries'[p].err = err[r] \/ entries'[p].err = entries[p].err
        BY <2>1 DEF Done, TypeInv, InstallTypeOK
    <2>3. CancelledTold' /\ FailedTold' /\ EndedTold'
        BY <1>1, <2>1, <2>2 DEF ReportTold, CancelledTold, FailedTold, EndedTold
    <2>4. OutcomeTold'
        BY <1>1, OutcomeKept DEF ReportTold
    <2> QED BY <2>3, <2>4 DEF ReportTold
<1>3. CASE ~(Len(stack[r]) > 1)
    <2> DEFINE first == err[r] # "drift" /\ failed = None
    <2>1. /\ failed' = IF first THEN r ELSE failed
          /\ at' = [at EXCEPT ![r] = IF first THEN "cancel" ELSE "ended"]
          /\ entries' = entries
        BY <1>3 DEF Return, Go
    <2>2. \A q \in Packages : at'[q] = IF q = r THEN (IF first THEN "cancel" ELSE "ended") ELSE at[q]
        BY <2>1 DEF TypeInv, InstallTypeOK
    <2>3. list.roots \subseteq Packages /\ (failed # None => failed \in Packages) /\ r # None
        BY ListsAssumption DEF TypeInv, InstallTypeOK
    <2>4. CancelledTold'
        BY <1>1, <2>1, <2>2, <2>3 DEF ReportTold, CancelledTold
    <2>5. FailedTold'
        BY <1>1, <2>1, <2>2, <2>3 DEF ReportTold, CancelledTold, FailedTold
    <2>6. EndedTold'
        BY <1>1, <2>1, <2>2, <2>3 DEF ReportTold, EndedTold
    <2>7. OutcomeTold'
        BY <1>1, OutcomeKept DEF ReportTold
    <2> QED BY <2>4, <2>5, <2>6, <2>7 DEF ReportTold
<1> QED BY <1>2, <1>3

LEMMA CancelReport == ASSUME TypeInv, ReportTold, NEW r \in Packages, Cancel(r) PROVE ReportTold'
<1>1. /\ at[r] = "cancel" /\ cancelled' = TRUE
      /\ UNCHANGED <<list, err, entries, failed, interrupted, closures, outcome>>
    BY DEF Cancel
<1>2. \A q \in Packages : at'[q] = IF q = r THEN "ended" ELSE at[q]
    BY DEF Cancel, Go, TypeInv, InstallTypeOK
<1>3. failed # None /\ failed \in Packages /\ list.roots \subseteq Packages
    BY <1>1, ListsAssumption DEF ReportTold, CancelledTold, TypeInv, InstallTypeOK
<1>4. CancelledTold' /\ FailedTold' /\ EndedTold'
    BY <1>1, <1>2, <1>3 DEF ReportTold, CancelledTold, FailedTold, EndedTold
<1>5. OutcomeTold'
    BY <1>1, OutcomeKept DEF ReportTold
<1> QED BY <1>4, <1>5 DEF ReportTold

LEMMA FinishReport == ASSUME TypeInv, Told, ReportTold, Finish PROVE ReportTold'
<1>1. /\ \A r \in list.roots : at[r] = "ended"
      /\ UNCHANGED <<list, at, err, entries, failed, cancelled, interrupted, closures>>
    BY DEF Finish
<1>2. CancelledTold' /\ FailedTold' /\ EndedTold'
    BY <1>1 DEF ReportTold, CancelledTold, FailedTold, EndedTold
<1>3. \A r \in list.roots : closures[r] # {} \/ interrupted \/ failed # None \/ r \in Drifted
    BY <1>1 DEF ReportTold, EndedTold, CancelledTold, Drifted
<1>4. (outcome.why = "ok" => \A r \in list.roots : closures[r] # {})'
    <2>1. failed # None => err[failed] # "ok"
        BY DEF TypeInv, InstallTypeOK, Errors
    <2> QED BY <1>1, <1>3, <2>1 DEF Finish
<1>5. CauseNamed'
    BY DEF Finish, CauseNamed, ReportTold, FailedTold
<1>6. DriftNamed'
    <2> SUFFICES ASSUME outcome'.why = "drift", NEW r \in list.roots,
                        NEW p \in Needed(r), list.bad[p] = "drift"
                 PROVE  r \in outcome'.names
        BY <1>1, SameList DEF DriftNamed
    <2>1. ~interrupted /\ failed = None /\ outcome'.names = Drifted
        BY DEF Finish, ReportTold, FailedTold
    <2>2. r \in Packages
        BY ListsAssumption DEF TypeInv, InstallTypeOK
    <2>3. closures[r] = {}
        BY <2>2 DEF Told, ClosuresTold, Whole
    <2> QED BY <1>3, <2>1, <2>3
<1> QED BY <1>2, <1>4, <1>5, <1>6 DEF ReportTold, OutcomeTold

LEMMA ReportStep == TypeInv /\ Told /\ ReportTold /\ [InstallNext]_installVars => ReportTold'
<1> SUFFICES ASSUME TypeInv, Told, ReportTold, [InstallNext]_installVars PROVE ReportTold'
    OBVIOUS
<1>1. ASSUME NEW r \in Packages, DepsDone(r) PROVE ReportTold'
    BY <1>1, GoReport DEF DepsDone, Go, ReportTold, CancelledTold
<1>2. ASSUME NEW r \in Packages, Lock(r) PROVE ReportTold'
    BY <1>2, GoReport DEF Lock, Go, ReportTold, CancelledTold
<1>3. ASSUME NEW r \in Packages, RootStep(r) PROVE ReportTold'
    BY <1>1, <1>2, <1>3, StartReport, FetchReport, NextDepReport, WakeReport, RealizeReport,
       ReturnReport, CancelReport DEF RootStep
<1>4. CASE Interrupt
    <2>1. cancelled' /\ interrupted'
          /\ UNCHANGED <<list, at, err, entries, failed, closures, outcome>>
        BY <1>4 DEF Interrupt
    <2>2. CancelledTold' /\ FailedTold' /\ EndedTold'
        BY <2>1 DEF ReportTold, CancelledTold, FailedTold, EndedTold
    <2> QED BY <2>1, <2>2, OutcomeKept DEF ReportTold
<1>5. CASE UNCHANGED installVars
    <2>1. UNCHANGED <<list, at, err, entries, failed, cancelled, interrupted, closures, outcome>>
        BY <1>5 DEF installVars
    <2>2. CancelledTold' /\ FailedTold' /\ EndedTold'
        BY <2>1 DEF ReportTold, CancelledTold, FailedTold, EndedTold
    <2> QED BY <2>1, <2>2, OutcomeKept DEF ReportTold
<1> QED BY <1>3, <1>4, <1>5, FinishReport DEF InstallNext

LEMMA ReportInit == InstallInit /\ TypeInv => ReportTold
<1> SUFFICES ASSUME InstallInit, TypeInv PROVE ReportTold
    OBVIOUS
<1>1. CancelledTold /\ FailedTold
    BY DEF InstallInit, CancelledTold, FailedTold, NoEntry
<1>2. EndedTold
    BY ListsAssumption DEF InstallInit, EndedTold
<1>3. OutcomeTold
    BY DEF InstallInit, OutcomeTold, CauseNamed, DriftNamed
<1> QED BY <1>1, <1>2, <1>3 DEF ReportTold

LEMMA InstallHolds == InstallSpec => [](TypeInv /\ Told /\ ReportTold)
<1> DEFINE Inv == TypeInv /\ Told /\ ReportTold
<1>1. InstallInit => Inv
    BY TypeInit, ToldInit, ReportInit
<1>2. Inv /\ [InstallNext]_installVars => Inv'
    BY TypeStep, ToldStep, ReportStep
<1> QED BY <1>1, <1>2, PTL DEF InstallSpec

(* For every list and every order of the goroutines: the closure that a     *)
(* root gets has exactly the packages it needs, also where another root     *)
(* installed the dep, none of them needs itself, and install reports        *)
(* success only when every root has its closure.                            *)
THEOREM ClosuresAreWhole == InstallSpec => []ClosuresWhole
<1>1. TypeInv /\ Told /\ ReportTold => ClosuresWhole
    <2> SUFFICES ASSUME TypeInv, Told, ReportTold PROVE ClosuresWhole
        OBVIOUS
    <2>1. list.roots \subseteq Packages
        BY ListsAssumption DEF TypeInv, InstallTypeOK
    <2> QED BY <2>1 DEF Told, ClosuresTold, Whole, ReportTold, OutcomeTold, ClosuresWhole
<1> QED BY <1>1, InstallHolds, PTL

(* For every list: install never reports a job that only stopped because    *)
(* another failed, and when it reports a drift, it names every root that     *)
(* needs a package that drifted.                                             *)
THEOREM ReportIsTrue == InstallSpec => []ReportTrue
<1>1. ReportTold => ReportTrue
    BY DEF ReportTold, OutcomeTold, ReportTrue
<1> QED BY <1>1, InstallHolds, PTL

============================================================================
