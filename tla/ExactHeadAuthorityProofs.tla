------------------------ MODULE ExactHeadAuthorityProofs ------------------------
(***************************************************************************)
(* Theorems about ExactHeadAuthority, for any number of heads, primaries,  *)
(* delegations, leases, epochs and moves of the user.                      *)
(***************************************************************************)
EXTENDS ExactHeadAuthority, TLAPS, FiniteSetTheorems, FunctionTheorems

(* What one value of the workspace state satisfies. *)
Sound(s) ==
    /\ s \in Authorities
    /\ (s.binding = None) = (s.mode = "none")
    /\ (s.binding = None) = (s.status = "none")
    /\ (s.lease.st = "valid") = (s.mode = "target" /\ s.status = "verified")
    /\ s.lease.st = "valid" => s.lease.at[s.lease.tree].head = s.binding

(* Lease numbers only grow, and a number is used for one lease. *)
Follows(s, t) ==
    /\ s.lease.id <= t.lease.id
    /\ t.lease.id = s.lease.id /\ t.lease.st = "valid" => s.lease = t.lease

ProvedIn(s, epoch) == s.status \in {"verified", "mismatch"} => epoch = s.epoch

(* Delegations fill the numbers from below. *)
InOrder == \E n \in 0..MaxTasks : \A d \in Tasks : task[d].st # "none" <=> d <= n

AdmittedWell == \A p \in Primaries : op[p].kind # "none" => op[p].adm \in Admissions

(* A delegation remembers the checkouts of the lease it was launched under. *)
LeaseOfLaunch ==
    \A d \in Tasks : task[d].st = "pending" =>
        /\ task[d].lease <= safety.lease.id
        /\ task[d].lease # 0 /\ task[d].lease = safety.lease.id /\ safety.lease.st = "valid"
               => task[d].at = safety.lease.at

Resumes ==
    /\ \A c \in Tasks : again[c].st # "none" => task[c].st = "ended"
    /\ \A d \in Tasks : task[d].resume # 0 =>
           task[task[d].resume].st = "ended" /\ again[task[d].resume].st # "fresh"
    /\ \A d, e \in Tasks : task[d].resume # 0 /\ task[e].resume = task[d].resume => d = e

IInv ==
    /\ TypeOK /\ VerifiedIsLeased /\ ProofOfThisEpoch /\ AcceptedWhereLaunched
    /\ InOrder /\ AdmittedWell /\ LeaseOfLaunch /\ Resumes

LEMMA ConstantTypes ==
    /\ MaxEpochs \in Nat /\ MaxLeases \in Nat /\ MaxTasks \in Nat /\ MaxOps \in Nat
    /\ MaxMoves \in Nat
    /\ None \notin Heads /\ None \notin Primaries /\ Modes \subseteq {"target", "strict-start"}
  BY AuthorityAssumption

LEMMA SafetyIsSound ==
  ASSUME IInv
  PROVE  Sound(safety) /\ ProvedIn(safety, proved)
  BY DEF IInv, TypeOK, VerifiedIsLeased, ProofOfThisEpoch, Sound, ProvedIn

LEMMA SnapshotTyped ==
  ASSUME wt \in Snapshots, NEW tree \in Trees
  PROVE  Snapshot(tree) \in Snapshots /\ Snapshot(tree)[tree] = wt[tree]
  <1>1. Absent \in Checkouts
    BY ConstantTypes DEF Absent, Checkouts, Marks
  <1>. QED BY <1>1 DEF Snapshots, Snapshot, Trees

(* Marks has more members than worktrees are remembered. *)
LEMMA TwoTrees == IsFiniteSet(Trees) /\ Cardinality(Trees) = 2
  <1>1. IsFiniteSet({"owner"}) /\ Cardinality({"owner"}) = 1
    BY FS_Singleton
  <1>2. /\ IsFiniteSet({"owner"} \cup {"linked"})
        /\ Cardinality({"owner"} \cup {"linked"})
             = IF "linked" \in {"owner"} THEN Cardinality({"owner"}) ELSE Cardinality({"owner"}) + 1
    BY <1>1, FS_AddElement
  <1>3. Trees = {"owner"} \cup {"linked"}
    BY DEF Trees
  <1>4. "linked" \notin {"owner"}
    OBVIOUS
  <1>. QED BY <1>1, <1>2, <1>3, <1>4

LEMMA FreshMark ==
  ASSUME TypeOK
  PROVE  NewMark \in Marks
  <1>. DEFINE N == 0..MaxTasks + 1
              D == N \X Trees
              Tree(n) == IF n = 0 THEN wt ELSE IF n = MaxTasks + 1 THEN safety.lease.at ELSE task[n].at
              mark(x) == Tree(x[1])[x[2]].mark
              f == [x \in D |-> mark(x)]
              used == {at[w].mark : w \in Trees, at \in {wt, safety.lease.at} \cup {task[d].at : d \in Tasks}}
  <1>1. IsFiniteSet(N) /\ Cardinality(N) = MaxTasks + 2
    BY ConstantTypes, FS_Interval
  <1>2. IsFiniteSet(D) /\ Cardinality(D) = 2 * (MaxTasks + 2)
    <2>. HIDE DEF N
    <2>1. IsFiniteSet(N \X Trees) /\ Cardinality(N \X Trees) = Cardinality(N) * Cardinality(Trees)
      BY <1>1, TwoTrees, FS_Product
    <2>2. Cardinality(N \X Trees) = (MaxTasks + 2) * 2
      BY <1>1, <2>1, TwoTrees, SMTT(30)
    <2>. QED BY <2>1, <2>2, ConstantTypes
  <1>3. f \in [D -> {mark(x) : x \in D}]
    BY ZenonT(60)
  <1>4. \A x \in D : f[x] = mark(x) /\ f[x] \in Range(f)
    BY ZenonT(60) DEF Range
  <1>5. ASSUME NEW w \in Trees, NEW at \in {wt, safety.lease.at} \cup {task[d].at : d \in Tasks}
        PROVE  at[w].mark \in Range(f)
    <2>1. PICK n \in N : Tree(n) = at
      <3>1. CASE at = wt
        BY <3>1, ConstantTypes
      <3>2. CASE at = safety.lease.at
        BY <3>2, ConstantTypes
      <3>3. ASSUME NEW d \in Tasks, at = task[d].at PROVE \E n \in N : Tree(n) = at
        BY <3>3, ConstantTypes DEF Tasks
      <3>. QED BY <1>5, <3>1, <3>2, <3>3
    <2>2. <<n, w>> \in D /\ mark(<<n, w>>) = at[w].mark
      BY <2>1
    <2>3. f[<<n, w>>] = at[w].mark /\ f[<<n, w>>] \in Range(f)
      <3>. HIDE DEF f, D, mark
      <3>. QED BY <1>4, <2>2
    <2>. QED BY <2>3
  <1>. HIDE DEF f, D, used, Tree
  <1>6. f \in Surjection(D, Range(f))
    BY <1>3, Fun_RangeProperties
  <1>7. IsFiniteSet(Range(f)) /\ Cardinality(Range(f)) <= Cardinality(D)
    BY <1>2, <1>6, FS_Surjection
  <1>8. IsFiniteSet(Marks) /\ Cardinality(Marks) = 2 * (MaxTasks + 2) + 1
    BY ConstantTypes, FS_Interval DEF Marks
  <1>9. ~(Marks \subseteq Range(f))
    <2>1. SUFFICES ASSUME Marks \subseteq Range(f) PROVE FALSE
      OBVIOUS
    <2>2. Cardinality(Marks) <= Cardinality(Range(f))
      BY <1>7, <2>1, FS_Subset
    <2>3. Cardinality(Range(f)) \in Nat
      BY <1>7, FS_CardinalityType
    <2>. HIDE DEF f
    <2>. QED BY <1>2, <1>7, <1>8, <2>2, <2>3, ConstantTypes, SMTT(30)
  <1>10. Marks \ used # {}
    <2>1. PICK m \in Marks : m \notin Range(f)
      BY <1>9
    <2>2. m \notin used
      BY <1>5, <2>1 DEF used
    <2>. QED BY <2>1, <2>2
  <1>11. (CHOOSE m \in Marks \ used : TRUE) \in Marks \ used
    BY <1>10
  <1>. QED BY <1>11 DEF NewMark, used

-----------------------------------------------------------------------------
(* What happens to the workspace state. *)
LEMMA LapsedTyped ==
  ASSUME NEW lease \in Leases
  PROVE  Lapsed(lease) \in Leases /\ Lapsed(lease).st = "invalid" /\ Lapsed(lease).id = lease.id
  <1>1. Absent \in Checkouts
    BY ConstantTypes DEF Absent, Checkouts, Marks
  <1>2. [w \in Trees |-> Absent] \in Snapshots
    BY <1>1 DEF Snapshots
  <1>. QED BY <1>2 DEF Lapsed, Leases, NoLease, Trees

LEMMA LapseOf ==
  ASSUME NEW s \in Authorities
  PROVE  /\ Invalidated(s, FALSE) \in Authorities
         /\ Invalidated(s, FALSE).lease \in Leases
         /\ Invalidated(s, FALSE).lease.st # "valid"
         /\ Invalidated(s, FALSE).lease.id = s.lease.id
  BY LapsedTyped DEF Invalidated, Authorities, Leases

LEMMA InvalidatedSound ==
  ASSUME NEW s, Sound(s), NEW e, ProvedIn(s, e)
  PROVE  /\ Sound(Invalidated(s, TRUE)) /\ Follows(s, Invalidated(s, TRUE))
         /\ ProvedIn(Invalidated(s, TRUE), e)
  <1>1. CASE s.lease.st # "valid"
    BY <1>1 DEF Invalidated, Sound, Follows, ProvedIn, Authorities, Leases
  <1>2. CASE s.lease.st = "valid"
    <2>. DEFINE l == Lapsed(s.lease)
    <2>1. s \in Authorities /\ s.lease \in Leases /\ s.mode = "target" /\ s.status = "verified"
      BY <1>2 DEF Sound, Authorities
    <2>2. l \in Leases /\ l.st = "invalid" /\ l.id = s.lease.id
      BY <2>1, LapsedTyped
    <2>. DEFINE t == [s EXCEPT !.lease = l, !.status = "pending", !.proofs = {}]
    <2>3. Invalidated(s, TRUE) = t
      BY <1>2, <2>1 DEF Invalidated, Authorities
    <2>. HIDE DEF l
    <2>4. /\ t \in Authorities /\ t.lease = l /\ t.status = "pending" /\ t.mode = s.mode
          /\ t.binding = s.binding
      BY <2>1, <2>2 DEF Authorities
    <2>. HIDE DEF t
    <2>5. Sound(t) /\ Follows(s, t) /\ ProvedIn(t, e)
      BY <2>1, <2>2, <2>4 DEF Sound, Follows, ProvedIn, Authorities, Leases
    <2>. QED BY <2>3, <2>5
  <1>. QED BY <1>1, <1>2

LEMMA CheckedSound ==
  ASSUME NEW s, Sound(s), NEW e, ProvedIn(s, e), NEW p
  PROVE  Sound(Checked(s, p)) /\ Follows(s, Checked(s, p)) /\ ProvedIn(Checked(s, p), e)
  <1>1. CASE Checked(s, p) = s
    BY <1>1 DEF Sound, Follows, Authorities, Leases
  <1>2. CASE Checked(s, p) = Invalidated(s, TRUE)
    BY <1>2, InvalidatedSound
  <1>. QED BY <1>1, <1>2 DEF Checked

LEMMA IssuedSound ==
  ASSUME wt \in Snapshots, NEW s, Sound(s), s.mode = "target", s.lease.id < MaxLeases,
         NEW p \in Primaries, NEW tree \in Trees, wt[tree].head = s.binding
  PROVE  /\ Sound(Issued(s, p, tree)) /\ Follows(s, Issued(s, p, tree))
         /\ Issued(s, p, tree).epoch = s.epoch
  <1>. DEFINE l == [st |-> "valid", id |-> s.lease.id + 1, task |-> p, tree |-> tree,
                    at |-> Snapshot(tree)]
              t == [s EXCEPT !.status = "verified", !.proofs = {}, !.lease = l]
  <1>1. Issued(s, p, tree) = t
    BY DEF Issued
  <1>2. s.lease.id \in 0..MaxLeases /\ s.lease.id + 1 \in 0..MaxLeases
    BY ConstantTypes DEF Sound, Authorities, Leases
  <1>3. l \in Leases
    BY <1>2, SnapshotTyped DEF Leases
  <1>4. /\ l.st = "valid" /\ l.id = s.lease.id + 1 /\ l.tree = tree
        /\ l.at[l.tree].head = s.binding
    BY SnapshotTyped
  <1>. HIDE DEF l
  <1>5. /\ t \in Authorities /\ t.lease = l /\ t.status = "verified" /\ t.mode = s.mode
        /\ t.binding = s.binding /\ t.epoch = s.epoch
    BY <1>3 DEF Sound, Authorities
  <1>. HIDE DEF t
  <1>6. Sound(t)
    BY <1>4, <1>5, ConstantTypes DEF Sound
  <1>7. Follows(s, t)
    BY <1>2, <1>4, <1>5 DEF Follows
  <1>. QED BY <1>1, <1>5, <1>6, <1>7

LEMMA FollowsItself ==
  ASSUME NEW s, Sound(s)
  PROVE  Follows(s, s)
  BY DEF Sound, Follows, Authorities, Leases

LEMMA FollowsOn ==
  ASSUME NEW r, Sound(r), NEW s, Sound(s), NEW t, Sound(t), Follows(r, s), Follows(s, t)
  PROVE  Follows(r, t)
  <1>1. r.lease.id \in Nat /\ s.lease.id \in Nat /\ t.lease.id \in Nat
    BY ConstantTypes DEF Sound, Authorities, Leases
  <1>. QED BY <1>1 DEF Follows

LEMMA RecordedSound ==
  ASSUME NEW s, Sound(s), NEW e, ProvedIn(s, e), NEW P \in SUBSET Trees
  PROVE  /\ Sound([s EXCEPT !.proofs = P]) /\ Follows(s, [s EXCEPT !.proofs = P])
         /\ ProvedIn([s EXCEPT !.proofs = P], e)
  <1>. DEFINE t == [s EXCEPT !.proofs = P]
  <1>1. /\ t \in Authorities /\ t.lease = s.lease /\ t.status = s.status /\ t.mode = s.mode
        /\ t.binding = s.binding /\ t.epoch = s.epoch
    BY DEF Sound, Authorities
  <1>. HIDE DEF t
  <1>2. Sound(t) /\ Follows(s, t) /\ ProvedIn(t, e)
    BY <1>1 DEF Sound, Follows, ProvedIn, Authorities, Leases
  <1>. QED BY <1>2 DEF t

(* Recorded and then checked. *)
LEMMA RecordedAndChecked ==
  ASSUME NEW s, Sound(s), NEW e, ProvedIn(s, e), NEW P \in SUBSET Trees, NEW p,
         NEW t, t = s \/ t = [s EXCEPT !.proofs = P]
  PROVE  Sound(Checked(t, p)) /\ Follows(s, Checked(t, p)) /\ ProvedIn(Checked(t, p), e)
  <1>1. Sound(t) /\ Follows(s, t) /\ ProvedIn(t, e)
    BY RecordedSound, FollowsItself
  <1>2. Sound(Checked(t, p)) /\ Follows(t, Checked(t, p)) /\ ProvedIn(Checked(t, p), e)
    BY <1>1, CheckedSound
  <1>. QED BY <1>1, <1>2, FollowsOn

Advances ==
    /\ Sound(safety') /\ Follows(safety, safety') /\ ProvedIn(safety', proved')
    /\ proved' \in 0..MaxEpochs

LEMMA UnchangedAdvances ==
  ASSUME IInv, UNCHANGED <<safety, proved>>
  PROVE  Advances
  BY SafetyIsSound, FollowsItself DEF Advances, IInv, TypeOK

LEMMA CheckAdvances ==
  ASSUME IInv, NEW p, safety' = Checked(safety, p), UNCHANGED proved
  PROVE  Advances
  BY SafetyIsSound, CheckedSound DEF Advances, IInv, TypeOK

LEMMA LapseAdvances ==
  ASSUME IInv, safety' = Invalidated(safety, TRUE), UNCHANGED proved
  PROVE  Advances
  BY SafetyIsSound, InvalidatedSound DEF Advances, IInv, TypeOK

LEMMA RebindAdvances ==
  ASSUME IInv, NEW p \in Primaries, Rebind(p)
  PROVE  Advances
  <1>1. CASE ~Holds(safety.lease)
    BY <1>1, LapseAdvances DEF Rebind
  <1>2. CASE Holds(safety.lease)
    <2>. DEFINE tree == safety.lease.tree
                s == Issued(safety, p, tree)
                t == [s EXCEPT !.epoch = @ + 1]
    <2>1. /\ safety.mode = "target" /\ safety.epoch < MaxEpochs /\ safety.lease.id < MaxLeases
          /\ safety' = t /\ proved' = safety.epoch + 1
      BY <1>2 DEF Rebind
    <2>2. tree \in Trees /\ wt \in Snapshots /\ safety.epoch \in 0..MaxEpochs
      BY DEF IInv, TypeOK, Authorities, Leases
    <2>3. wt[tree].head = safety.binding
      BY <1>2, <2>2, SnapshotTyped DEF Holds, IInv, VerifiedIsLeased
    <2>4. Sound(s) /\ Follows(safety, s) /\ s.epoch = safety.epoch
      BY <2>1, <2>2, <2>3, SafetyIsSound, IssuedSound
    <2>. HIDE DEF s, tree
    <2>5. safety.epoch + 1 \in 0..MaxEpochs
      BY <2>1, <2>2, ConstantTypes
    <2>6. /\ t \in Authorities /\ t.lease = s.lease /\ t.status = s.status /\ t.mode = s.mode
          /\ t.binding = s.binding /\ t.epoch = safety.epoch + 1
      BY <2>4, <2>5 DEF Sound, Authorities
    <2>. HIDE DEF t
    <2>7. Sound(t) /\ Follows(safety, t) /\ ProvedIn(t, safety.epoch + 1)
      BY <2>4, <2>6 DEF Sound, Follows, ProvedIn
    <2>. QED BY <2>1, <2>5, <2>7 DEF Advances
  <1>. QED BY <1>1, <1>2

LEMMA DeclareAdvances ==
  ASSUME IInv, NEW sha \in Heads, NEW mode \in Modes, Declare(sha, mode)
  PROVE  Advances
  <1>. DEFINE s == Invalidated(safety, FALSE)
              t == [s EXCEPT !.binding = sha, !.mode = mode, !.status = "pending",
                             !.proofs = {}, !.epoch = safety.epoch + 1]
  <1>1. s \in Authorities /\ s.lease \in Leases /\ s.lease.st # "valid" /\ s.lease.id = safety.lease.id
    BY LapseOf DEF IInv, TypeOK
  <1>2. s.epoch = safety.epoch
    BY DEF Invalidated, IInv, TypeOK, Authorities
  <1>3. safety' = t /\ proved' = proved /\ safety.epoch < MaxEpochs
    BY <1>2 DEF Declare
  <1>. HIDE DEF s
  <1>4. safety.epoch + 1 \in 0..MaxEpochs
    BY <1>3, ConstantTypes DEF IInv, TypeOK, Authorities
  <1>5. /\ t \in Authorities /\ t.lease = s.lease /\ t.status = "pending" /\ t.mode = mode
        /\ t.binding = sha
    BY <1>1, <1>4, ConstantTypes DEF Authorities
  <1>6. sha # None /\ mode # "none" /\ safety.lease.id \in Nat
    BY ConstantTypes DEF IInv, TypeOK, Authorities, Leases
  <1>. HIDE DEF t
  <1>7. Sound(t) /\ Follows(safety, t) /\ ProvedIn(t, proved)
    BY <1>1, <1>5, <1>6 DEF Sound, Follows, ProvedIn
  <1>. QED BY <1>3, <1>7 DEF Advances, IInv, TypeOK

LEMMA ReleaseAdvances ==
  ASSUME IInv, Release
  PROVE  Advances
  <1>. DEFINE l == Invalidated(safety, FALSE).lease
              t == [Bare EXCEPT !.epoch = safety.epoch, !.lease = l]
  <1>1. l \in Leases /\ l.st # "valid" /\ l.id = safety.lease.id
    BY LapseOf DEF IInv, TypeOK
  <1>2. safety' = t /\ proved' = proved /\ safety.epoch \in 0..MaxEpochs /\ safety.lease.id \in Nat
    BY DEF Release, IInv, TypeOK, Authorities, Leases
  <1>. HIDE DEF l
  <1>3. /\ t \in Authorities /\ t.lease = l /\ t.status = "none" /\ t.mode = "none"
        /\ t.binding = None
    BY <1>1, <1>2 DEF Bare, Authorities
  <1>. HIDE DEF t
  <1>4. Sound(t) /\ Follows(safety, t) /\ ProvedIn(t, proved)
    BY <1>1, <1>2, <1>3 DEF Sound, Follows, ProvedIn
  <1>. QED BY <1>2, <1>4 DEF Advances, IInv, TypeOK

LEMMA EndSetupAdvances ==
  ASSUME IInv, NEW p \in Primaries, EndSetup(p)
  PROVE  Advances
  <1>1. safety.proofs \cup {op[p].tree} \in SUBSET Trees
    BY DEF IInv, TypeOK, Authorities
  <1>2. PICK t : /\ safety' = Checked(t, p)
                 /\ t = safety \/ t = [safety EXCEPT !.proofs = safety.proofs \cup {op[p].tree}]
    BY DEF EndSetup
  <1>3. Sound(safety') /\ Follows(safety, safety') /\ ProvedIn(safety', proved)
    BY <1>1, <1>2, SafetyIsSound, RecordedAndChecked
  <1>. QED BY <1>3 DEF EndSetup, Advances, IInv, TypeOK

LEMMA EndProofStaleAdvances ==
  ASSUME IInv, NEW p \in Primaries, EndProofStale(p)
  PROVE  Advances
  <1>1. safety.proofs \ {op[p].tree} \in SUBSET Trees
    BY DEF IInv, TypeOK, Authorities
  <1>2. PICK t : /\ safety' = Checked(t, p)
                 /\ t = safety \/ t = [safety EXCEPT !.proofs = safety.proofs \ {op[p].tree}]
    BY DEF EndProofStale
  <1>3. Sound(safety') /\ Follows(safety, safety') /\ ProvedIn(safety', proved)
    BY <1>1, <1>2, SafetyIsSound, RecordedAndChecked
  <1>. QED BY <1>3 DEF EndProofStale, Advances, IInv, TypeOK

(* A pending authority is judged: only the status changes, or a lease is   *)
(* issued on the head the authority is bound to.                           *)
LEMMA EndProofAdvances ==
  ASSUME IInv, NEW p \in Primaries, EndProof(p)
  PROVE  Advances
  <1>1. /\ op[p].adm = Admission /\ safety.status \in {"pending", "mismatch"}
        /\ safety.lease.id < MaxLeases /\ safety' = Judged(p) /\ proved' = op[p].adm.epoch
    BY DEF EndProof, ProofCurrent, AuthorityPending
  <1>2. safety \in Authorities /\ op[p].tree \in Trees /\ wt \in Snapshots
    BY DEF IInv, TypeOK
  <1>3. proved' = safety.epoch /\ safety.epoch \in 0..MaxEpochs
    BY <1>1, <1>2 DEF Admission, Authorities
  <1>4. Sound(safety) /\ safety.lease.st # "valid" /\ safety.mode \in {"target", "strict-start"}
    BY <1>1, <1>2, SafetyIsSound, ConstantTypes DEF Sound, Authorities
  <1>5. ASSUME NEW st \in {"pending", "verified", "mismatch"},
               st = "verified" => safety.mode = "strict-start",
               safety' = [safety EXCEPT !.status = st]
        PROVE  Advances
    <2>1. /\ safety' \in Authorities /\ safety'.lease = safety.lease /\ safety'.status = st
          /\ safety'.mode = safety.mode /\ safety'.binding = safety.binding
          /\ safety'.epoch = safety.epoch
      BY <1>2, <1>5 DEF Authorities
    <2>2. Sound(safety') /\ Follows(safety, safety')
      BY <1>1, <1>4, <1>5, <2>1, FollowsItself DEF Sound, Follows
    <2>. QED BY <1>3, <2>1, <2>2 DEF Advances, ProvedIn
  <1>6. ASSUME safety' = Issued(safety, p, op[p].tree), wt[op[p].tree].head = safety.binding,
               safety.mode # "strict-start"
        PROVE  Advances
    <2>1. Sound(safety') /\ Follows(safety, safety') /\ safety'.epoch = safety.epoch
      BY <1>1, <1>2, <1>4, <1>6, IssuedSound
    <2>. QED BY <1>3, <2>1 DEF Advances, ProvedIn
  <1>. QED BY <1>1, <1>5, <1>6 DEF Judged

LEMMA RestartAdvances ==
  ASSUME IInv, Restart
  PROVE  Advances
  <1>1. safety' = safety /\ proved' = proved
    BY DEF Restart, IInv, VerifiedIsLeased
  <1>. QED BY <1>1, UnchangedAdvances

LEMMA AuthorityAdvances ==
  ASSUME IInv, [Next]_vars
  PROVE  Advances
  <1>1. CASE UNCHANGED <<safety, proved>>
    BY <1>1, UnchangedAdvances
  <1>2. ASSUME NEW p \in Primaries, AuthorityStep(p) PROVE Advances
    <2>1. CASE LeaseCheck(p) \/ CallFails(p)
      BY <2>1, CheckAdvances DEF LeaseCheck, CallFails
    <2>2. CASE Rebind(p) \/ EndSetup(p) \/ EndProof(p) \/ EndProofStale(p)
      BY <2>2, RebindAdvances, EndSetupAdvances, EndProofAdvances, EndProofStaleAdvances, SMTT(30)
    <2>3. CASE SetupRuns(p) \/ ProofRuns(p) \/ \E tree \in Trees : BeginSetup(p, tree) \/ BeginProof(p, tree)
      BY <1>1, <2>3 DEF SetupRuns, ProofRuns, BeginSetup, BeginProof, Begin
    <2>. QED BY <1>2, <2>1, <2>2, <2>3 DEF AuthorityStep
  <1>3. ASSUME NEW p \in Primaries, DelegationStep(p) PROVE Advances
    BY <1>1, <1>3, CheckAdvances DEF DelegationStep, Launch, ResumeForgotten, ResumeSpent
  <1>4. ASSUME NEW d \in Tasks, ReportStep(d) PROVE Advances
    <2>1. CASE ReportStale(d)
      BY <1>1, <2>1, CheckAdvances DEF ReportStale
    <2>2. CASE UnknownEnds(d) \/ ReportAccepted(d) \/ TaskErrors(d)
      BY <1>1, <2>2 DEF UnknownEnds, ReportAccepted, TaskErrors
    <2>. QED BY <1>4, <2>1, <2>2 DEF ReportStep
  <1>5. ASSUME NEW c \in Tasks, ChildCall(c) \/ ChildBlocked(c) PROVE Advances
    BY <1>1, <1>5, LapseAdvances DEF ChildCall, ChildBlocked
  <1>6. CASE \E sha \in Heads, mode \in Modes : Declare(sha, mode)
    BY <1>6, DeclareAdvances
  <1>7. CASE Release \/ Restart
    BY <1>7, ReleaseAdvances, RestartAdvances
  <1>8. CASE RemoveLinked \/ \E tree \in Trees : Remake(tree) \/ \E h \in Heads : Move(tree, h)
    BY <1>1, <1>8 DEF RemoveLinked, Remake, Move
  <1>9. CASE UNCHANGED vars
    BY <1>1, <1>9 DEF vars
  <1>. QED BY <1>2, <1>3, <1>4, <1>5, <1>6, <1>7, <1>8, <1>9 DEF Next

-----------------------------------------------------------------------------
(* The worktrees, the shell calls of the primaries and the children. *)
WorktreesTyped == wt \in Snapshots /\ moves \in 0..MaxMoves

CallRecords == [kind : {"none", "setup", "proof"}, tree : Trees, ran : BOOLEAN,
                adm : Admissions \cup {None}, seen : Heads \cup {None}]
CallsKept == op \in [Primaries -> CallRecords] /\ AdmittedWell

ChildRecords == [run : 0..MaxTasks, lease : 0..MaxLeases, task : 0..MaxTasks, stop : BOOLEAN]

LEMMA CallsTyped ==
  ASSUME IInv
  PROVE  CallsKept /\ WorktreesTyped /\ child \in [Tasks -> ChildRecords]
  BY DEF IInv, TypeOK, CallsKept, CallRecords, WorktreesTyped, ChildRecords

LEMMA WorktreeReplaced ==
  ASSUME IInv, NEW tree \in Trees, NEW h \in Heads \cup {None}, NEW m \in Marks
  PROVE  [wt EXCEPT ![tree] = [head |-> h, mark |-> m]] \in Snapshots
  BY DEF IInv, TypeOK, Snapshots, Checkouts

LEMMA HeadMoved ==
  ASSUME IInv, NEW tree \in Trees, NEW h \in Heads
  PROVE  [wt EXCEPT ![tree].head = h] \in Snapshots
  <1>. DEFINE o == [wt[tree] EXCEPT !.head = h]
  <1>1. wt \in [Trees -> Checkouts] /\ wt[tree] \in Checkouts
    BY DEF IInv, TypeOK, Snapshots
  <1>2. wt \in [Trees -> Checkouts] /\ o \in Checkouts
    BY <1>1 DEF Checkouts
  <1>3. [wt EXCEPT ![tree].head = h] = [wt EXCEPT ![tree] = o]
    BY <1>2
  <1>. HIDE DEF o
  <1>. QED BY <1>2, <1>3 DEF Snapshots

LEMMA MarkMoved ==
  ASSUME IInv, NEW tree \in Trees
  PROVE  [wt EXCEPT ![tree].mark = NewMark] \in Snapshots
  <1>. DEFINE o == [wt[tree] EXCEPT !.mark = NewMark]
  <1>1. NewMark \in Marks
    BY FreshMark DEF IInv
  <1>2. wt \in [Trees -> Checkouts] /\ wt[tree] \in Checkouts
    BY DEF IInv, TypeOK, Snapshots
  <1>3. wt \in [Trees -> Checkouts] /\ o \in Checkouts
    BY <1>2, <1>1 DEF Checkouts
  <1>4. [wt EXCEPT ![tree].mark = NewMark] = [wt EXCEPT ![tree] = o]
    BY <1>3
  <1>. HIDE DEF o
  <1>. QED BY <1>3, <1>4 DEF Snapshots

LEMMA WorktreesStep ==
  ASSUME IInv, [Next]_vars
  PROVE  WorktreesTyped'
  <1>1. CASE UNCHANGED envs
    BY <1>1, CallsTyped DEF envs, WorktreesTyped
  <1>2. ASSUME NEW p \in Primaries, SetupRuns(p) PROVE WorktreesTyped'
    <2>1. op[p].adm \in Admissions /\ op[p].tree \in Trees /\ op[p].adm.binding \in Heads
      BY <1>2 DEF SetupRuns, IInv, TypeOK, AdmittedWell, Admissions
    <2>2. NewMark \in Marks
      BY FreshMark DEF IInv
    <2>3. \/ wt' = [wt EXCEPT ![op[p].tree].head = op[p].adm.binding]
          \/ wt' = [wt EXCEPT ![op[p].tree] = [head |-> op[p].adm.binding, mark |-> NewMark]]
      BY <1>2 DEF SetupRuns
    <2>4. wt' \in Snapshots
      BY <2>1, <2>2, <2>3, WorktreeReplaced, HeadMoved
    <2>. QED BY <1>2, <2>4, CallsTyped DEF SetupRuns, WorktreesTyped
  <1>3. ASSUME NEW tree \in Trees, Remake(tree) \/ \E h \in Heads : Move(tree, h)
        PROVE  WorktreesTyped'
    <2>1. wt' \in Snapshots
      BY <1>3, HeadMoved, MarkMoved DEF Remake, Move
    <2>. QED BY <1>3, <2>1, CallsTyped, ConstantTypes DEF Remake, Move, WorktreesTyped
  <1>4. CASE RemoveLinked
    <2>1. "linked" \in Trees /\ 0 \in Marks
      BY ConstantTypes DEF Trees, Marks
    <2>2. wt' \in Snapshots
      BY <1>4, <2>1, WorktreeReplaced DEF RemoveLinked, Absent
    <2>. QED BY <1>4, <2>2, CallsTyped, ConstantTypes DEF RemoveLinked, WorktreesTyped
  <1>5. ASSUME NEW p \in Primaries, AuthorityStep(p), ~SetupRuns(p) PROVE UNCHANGED envs
    BY <1>5 DEF AuthorityStep, LeaseCheck, Rebind, BeginSetup, BeginProof, Begin, ProofRuns,
        CallFails, EndSetup, EndProof, EndProofStale, Over, envs
  <1>6. ASSUME NEW p \in Primaries, DelegationStep(p) PROVE UNCHANGED envs
    BY <1>6 DEF DelegationStep, Launch, ResumeForgotten, ResumeSpent
  <1>7. ASSUME NEW d \in Tasks, ReportStep(d) PROVE UNCHANGED envs
    BY <1>7 DEF ReportStep, UnknownEnds, ReportStale, ReportAccepted, TaskErrors
  <1>8. ASSUME NEW c \in Tasks, ChildCall(c) \/ ChildBlocked(c) PROVE UNCHANGED envs
    BY <1>8 DEF ChildCall, ChildBlocked
  <1>9. ASSUME \/ \E sha \in Heads, mode \in Modes : Declare(sha, mode)
               \/ Release \/ Restart \/ UNCHANGED vars
        PROVE  UNCHANGED envs
    BY <1>9 DEF Declare, Release, Restart, vars
  <1>. QED BY <1>1, <1>2, <1>3, <1>4, <1>5, <1>6, <1>7, <1>8, <1>9 DEF Next

LEMMA BeginKeepsCalls ==
  ASSUME IInv, NEW p \in Primaries, NEW kind \in {"setup", "proof"}, NEW tree \in Trees,
         Begin(p, kind, tree)
  PROVE  CallsKept'
  <1>. DEFINE o == [NoOp EXCEPT !.kind = kind, !.tree = tree, !.adm = Admission]
  <1>1. Admission \in Admissions
    BY ConstantTypes DEF Begin, AuthorityPending, Admission, Admissions, IInv, TypeOK, Authorities
  <1>2. o \in CallRecords /\ o.adm \in Admissions
    BY <1>1 DEF NoOp, CallRecords, Trees
  <1>3. op' = [op EXCEPT ![p] = o]
    BY DEF Begin
  <1>. HIDE DEF o
  <1>. QED BY <1>2, <1>3, CallsTyped DEF CallsKept, AdmittedWell

LEMMA NoOpTyped == NoOp \in CallRecords /\ NoOp.kind = "none"
  BY DEF NoOp, CallRecords, Trees

LEMMA OverKeepsCalls ==
  ASSUME IInv, NEW p \in Primaries, Over(p)
  PROVE  CallsKept'
  BY NoOpTyped, CallsTyped DEF Over, CallsKept, AdmittedWell

LEMMA RunKeepsCalls ==
  ASSUME IInv, NEW p \in Primaries, SetupRuns(p) \/ ProofRuns(p)
  PROVE  CallsKept'
  <1>1. op[p] \in CallRecords
    BY CallsTyped DEF CallsKept
  <1>2. CASE SetupRuns(p)
    <2>. DEFINE o == [op[p] EXCEPT !.ran = TRUE]
    <2>1. op' = [op EXCEPT ![p] = o]
      BY <1>2 DEF SetupRuns
    <2>2. o \in CallRecords /\ o.kind = op[p].kind /\ o.adm = op[p].adm
      BY <1>1 DEF CallRecords
    <2>. HIDE DEF o
    <2>. QED BY <2>1, <2>2, CallsTyped DEF CallsKept, AdmittedWell
  <1>3. CASE ProofRuns(p)
    <2>. DEFINE o == [op[p] EXCEPT !.ran = TRUE, !.seen = wt[op[p].tree].head]
    <2>1. op' = [op EXCEPT ![p] = o]
      BY <1>3 DEF ProofRuns
    <2>2. wt[op[p].tree].head \in Heads
      BY <1>1, <1>3 DEF ProofRuns, Exists, CallRecords, IInv, TypeOK, Snapshots, Checkouts
    <2>3. o \in CallRecords /\ o.kind = op[p].kind /\ o.adm = op[p].adm
      BY <1>1, <2>2 DEF CallRecords
    <2>. HIDE DEF o
    <2>. QED BY <2>1, <2>3, CallsTyped DEF CallsKept, AdmittedWell
  <1>. QED BY <1>2, <1>3

LEMMA CallsStep ==
  ASSUME IInv, [Next]_vars
  PROVE  CallsKept'
  <1>1. CASE UNCHANGED op
    BY <1>1, CallsTyped DEF CallsKept, AdmittedWell
  <1>2. ASSUME NEW p \in Primaries, AuthorityStep(p) PROVE CallsKept'
    <2>1. CASE \E tree \in Trees : BeginSetup(p, tree) \/ BeginProof(p, tree)
      BY <2>1, BeginKeepsCalls DEF BeginSetup, BeginProof
    <2>2. CASE SetupRuns(p) \/ ProofRuns(p)
      BY <2>2, RunKeepsCalls
    <2>3. CASE CallFails(p) \/ EndSetup(p) \/ EndProof(p) \/ EndProofStale(p)
      BY <2>3, OverKeepsCalls DEF CallFails, EndSetup, EndProof, EndProofStale
    <2>4. CASE LeaseCheck(p) \/ Rebind(p)
      BY <1>1, <2>4 DEF LeaseCheck, Rebind
    <2>. QED BY <1>2, <2>1, <2>2, <2>3, <2>4 DEF AuthorityStep
  <1>3. ASSUME NEW p \in Primaries, DelegationStep(p) PROVE UNCHANGED op
    BY <1>3 DEF DelegationStep, Launch, ResumeForgotten, ResumeSpent
  <1>4. ASSUME NEW d \in Tasks, ReportStep(d) PROVE UNCHANGED op
    BY <1>4 DEF ReportStep, UnknownEnds, ReportStale, ReportAccepted, TaskErrors
  <1>5. ASSUME NEW c \in Tasks, ChildCall(c) \/ ChildBlocked(c) PROVE UNCHANGED op
    BY <1>5 DEF ChildCall, ChildBlocked
  <1>6. ASSUME \/ \E sha \in Heads, mode \in Modes : Declare(sha, mode)
               \/ Release \/ RemoveLinked \/ UNCHANGED vars
               \/ \E tree \in Trees : Remake(tree) \/ \E h \in Heads : Move(tree, h)
        PROVE  UNCHANGED op
    BY <1>6 DEF Declare, Release, RemoveLinked, Remake, Move, vars
  <1>7. CASE Restart
    BY <1>7, NoOpTyped DEF Restart, CallsKept, AdmittedWell
  <1>. QED BY <1>1, <1>2, <1>3, <1>4, <1>5, <1>6, <1>7 DEF Next

LEMMA ChildReplaced ==
  ASSUME IInv, NEW c \in Tasks, NEW d \in 0..MaxTasks
  PROVE  /\ [child EXCEPT ![c] = [@ EXCEPT !.run = d]] \in [Tasks -> ChildRecords]
         /\ [child EXCEPT ![c].stop = TRUE] \in [Tasks -> ChildRecords]
         /\ [child EXCEPT ![c] = [@ EXCEPT !.lease = safety.lease.id, !.task = d]]
                \in [Tasks -> ChildRecords]
  <1>1. safety.lease.id \in 0..MaxLeases
    BY DEF IInv, TypeOK, Authorities, Leases
  <1>. QED BY <1>1, CallsTyped DEF ChildRecords

LEMMA ChildOfTask ==
  ASSUME IInv, NEW d \in Tasks
  PROVE  Child(d) \in Tasks
  <1>1. task[d].resume \in 0..MaxTasks
    BY DEF IInv, TypeOK
  <1>. QED BY <1>1, ConstantTypes DEF Child, Tasks

LEMMA ChildrenStep ==
  ASSUME IInv, [Next]_vars
  PROVE  child' \in [Tasks -> ChildRecords]
  <1>0. \A d \in Tasks : d \in 0..MaxTasks
    BY DEF Tasks
  <1>1. CASE UNCHANGED child
    BY <1>1, CallsTyped
  <1>2. ASSUME NEW p \in Primaries, NEW c \in Tasks \cup {0}, Launch(p, c)
        PROVE  child' \in [Tasks -> ChildRecords]
    BY <1>0, <1>2, ChildReplaced DEF Launch
  <1>3. ASSUME NEW d \in Tasks, ReportStep(d)
        PROVE  child' \in [Tasks -> ChildRecords]
    <2>1. Stops(d)
      BY <1>3 DEF ReportStep, UnknownEnds, ReportStale, ReportAccepted, TaskErrors
    <2>2. 0 \in 0..MaxTasks
      BY ConstantTypes
    <2>. QED BY <2>1, <2>2, ChildOfTask, ChildReplaced DEF Stops
  <1>4. ASSUME NEW c \in Tasks, ChildCall(c)
        PROVE  child' \in [Tasks -> ChildRecords]
    <2>1. PICK d \in BoundTo(c) :
              child' = [child EXCEPT ![c] = [@ EXCEPT !.lease = safety.lease.id, !.task = d]]
      BY <1>4 DEF ChildCall
    <2>2. d \in 0..MaxTasks
      BY <1>0, <2>1, CallsTyped DEF BoundTo, Candidates, ChildRecords
    <2>. QED BY <2>1, <2>2, ChildReplaced
  <1>5. ASSUME NEW c \in Tasks, ChildBlocked(c)
        PROVE  child' \in [Tasks -> ChildRecords]
    BY <1>0, <1>5, ChildReplaced DEF ChildBlocked
  <1>6. CASE Restart
    <2>1. NoChild \in ChildRecords
      BY ConstantTypes, SMTT(30) DEF NoChild, ChildRecords
    <2>. QED BY <1>6, <2>1 DEF Restart
  <1>7. ASSUME NEW p \in Primaries, AuthorityStep(p) PROVE UNCHANGED child
    BY <1>7 DEF AuthorityStep, LeaseCheck, Rebind, BeginSetup, BeginProof, Begin, SetupRuns, ProofRuns,
        CallFails, EndSetup, EndProof, EndProofStale, Over
  <1>8. ASSUME NEW p \in Primaries, NEW c \in Tasks, ResumeForgotten(p, c) \/ ResumeSpent(p, c)
        PROVE  UNCHANGED child
    BY <1>8 DEF ResumeForgotten, ResumeSpent
  <1>9. ASSUME \/ \E sha \in Heads, mode \in Modes : Declare(sha, mode)
               \/ Release \/ RemoveLinked \/ UNCHANGED vars
               \/ \E tree \in Trees : Remake(tree) \/ \E h \in Heads : Move(tree, h)
        PROVE  UNCHANGED child
    BY <1>9 DEF Declare, Release, RemoveLinked, Remake, Move, vars
  <1>. QED BY <1>1, <1>2, <1>3, <1>4, <1>5, <1>6, <1>7, <1>8, <1>9 DEF Next, DelegationStep

-----------------------------------------------------------------------------
(* The delegations. *)
TaskRecords == [st : {"none", "pending", "drifted", "ended"}, by : Primaries \cup {None},
                lease : 0..MaxLeases, resume : 0..MaxTasks, at : Snapshots]
AgainRecords == [st : {"none", "fresh", "used"}, by : Primaries \cup {None}, lease : 0..MaxLeases]

DelegationsKept ==
    /\ task \in [Tasks -> TaskRecords] /\ again \in [Tasks -> AgainRecords]
    /\ InOrder /\ Resumes /\ AcceptedWhereLaunched /\ LeaseOfLaunch

LEMMA DelegationsTyped ==
  ASSUME IInv
  PROVE  DelegationsKept
  BY DEF IInv, TypeOK, DelegationsKept, TaskRecords, AgainRecords

LEMMA EmptySlots ==
    /\ NoTask \in TaskRecords /\ NoTask.st = "none" /\ NoTask.resume = 0
    /\ NoAgain \in AgainRecords /\ NoAgain.st = "none"
  <1>1. Absent \in Checkouts
    BY ConstantTypes DEF Absent, Checkouts, Marks
  <1>2. [w \in Trees |-> Absent] \in Snapshots
    BY <1>1 DEF Snapshots
  <1>. QED BY <1>2, ConstantTypes DEF NoTask, NoAgain, TaskRecords, AgainRecords

(* A record of a delegation that is over. *)
LEMMA OverRecord ==
  ASSUME NEW r \in 0..MaxTasks
  PROVE  /\ [NoTask EXCEPT !.st = "ended", !.resume = r] \in TaskRecords
         /\ [NoTask EXCEPT !.st = "ended", !.resume = r].st = "ended"
         /\ [NoTask EXCEPT !.st = "ended", !.resume = r].resume = r
  <1>1. NoTask \in TaskRecords
    BY EmptySlots
  <1>. QED BY <1>1 DEF TaskRecords

(* The lease of a pending delegation is not replaced under its number. *)
LEMMA LeasesFollow ==
  ASSUME IInv, Follows(safety, safety'), Sound(safety'),
         NEW d \in Tasks, task[d].st = "pending"
  PROVE  /\ task[d].lease <= safety'.lease.id
         /\ task[d].lease # 0 /\ task[d].lease = safety'.lease.id /\ safety'.lease.st = "valid"
                => task[d].at = safety'.lease.at
  <1>1. /\ safety.lease.id \in Nat /\ safety'.lease.id \in Nat
        /\ safety.lease.id <= safety'.lease.id
    BY DEF IInv, TypeOK, Sound, Authorities, Leases, Follows
  <1>2. /\ task[d].lease \in Nat /\ task[d].lease <= safety.lease.id
        /\ task[d].lease # 0 /\ task[d].lease = safety.lease.id /\ safety.lease.st = "valid"
               => task[d].at = safety.lease.at
    BY DelegationsTyped DEF DelegationsKept, TaskRecords, LeaseOfLaunch
  <1>3. safety'.lease.id = safety.lease.id /\ safety'.lease.st = "valid"
            => safety.lease = safety'.lease
    BY DEF Follows
  <1>. QED BY <1>1, <1>2, <1>3

LEMMA UnchangedDelegations ==
  ASSUME IInv, Advances, UNCHANGED <<task, again>>
  PROVE  DelegationsKept'
  <1>1. LeaseOfLaunch'
    BY LeasesFollow DEF Advances, LeaseOfLaunch
  <1>2. (InOrder /\ Resumes /\ AcceptedWhereLaunched)'
    BY DelegationsTyped DEF DelegationsKept, InOrder, Resumes, AcceptedWhereLaunched
  <1>. QED BY <1>1, <1>2, DelegationsTyped DEF DelegationsKept

LEMMA SupersededDelegations ==
  ASSUME IInv, Advances, Superseded
  PROVE  DelegationsKept'
  <1>1. task \in [Tasks -> TaskRecords] /\ InOrder /\ Resumes /\ AcceptedWhereLaunched
    BY DelegationsTyped DEF DelegationsKept
  <1>2. ASSUME NEW d \in Tasks
        PROVE  /\ task'[d] \in TaskRecords /\ task'[d].resume = task[d].resume
               /\ task'[d].st = IF task[d].st = "pending" THEN "ended" ELSE task[d].st
    <2>1. task[d] \in TaskRecords /\ task[d].resume \in 0..MaxTasks
      BY <1>1 DEF TaskRecords
    <2>2. task'[d] = Dropped(task[d])
      BY DEF Superseded
    <2>3. CASE task[d].st = "pending"
      <3>1. task'[d] = [NoTask EXCEPT !.st = "ended", !.resume = task[d].resume]
        BY <2>2, <2>3 DEF Dropped
      <3>. QED BY <2>1, <2>3, <3>1, OverRecord
    <2>4. CASE task[d].st # "pending"
      BY <2>1, <2>2, <2>4 DEF Dropped
    <2>. QED BY <2>3, <2>4
  <1>3. task' \in [Tasks -> TaskRecords]
    BY <1>2 DEF Superseded
  <1>4. again' \in [Tasks -> AgainRecords] /\ \A c \in Tasks : again'[c].st = "none"
    BY EmptySlots DEF Superseded
  <1>5. InOrder'
    BY <1>1, <1>2 DEF InOrder
  <1>6. Resumes'
    <2>1. \A d \in Tasks : task[d].resume # 0 => task[d].resume \in Tasks
      BY <1>1, ConstantTypes DEF TaskRecords, Tasks
    <2>. QED BY <1>1, <1>2, <1>4, <2>1 DEF Resumes
  <1>7. AcceptedWhereLaunched' /\ LeaseOfLaunch'
    BY <1>1, <1>2 DEF AcceptedWhereLaunched, LeaseOfLaunch
  <1>. QED BY <1>3, <1>4, <1>5, <1>6, <1>7 DEF DelegationsKept

(* A child that is resumed or forgotten never becomes resumable. *)
LEMMA SpentDelegations ==
  ASSUME IInv, Advances, UNCHANGED task, NEW c \in Tasks, again[c].st # "none",
         NEW a \in AgainRecords, a.st # "fresh", again' = [again EXCEPT ![c] = a]
  PROVE  DelegationsKept'
  <1>1. LeaseOfLaunch'
    BY LeasesFollow DEF Advances, LeaseOfLaunch
  <1>2. again' \in [Tasks -> AgainRecords]
    BY DelegationsTyped DEF DelegationsKept
  <1>3. (InOrder /\ AcceptedWhereLaunched)'
    BY DelegationsTyped DEF DelegationsKept, InOrder, AcceptedWhereLaunched
  <1>4. Resumes'
    <2>1. Resumes /\ again \in [Tasks -> AgainRecords]
      BY DelegationsTyped DEF DelegationsKept
    <2>2. \A d \in Tasks : task[d].resume # 0 => task[d].resume \in Tasks
      BY DelegationsTyped, ConstantTypes DEF DelegationsKept, TaskRecords, Tasks
    <2>. QED BY <2>1, <2>2 DEF Resumes
  <1>. QED BY <1>1, <1>2, <1>3, <1>4, DelegationsTyped DEF DelegationsKept

(* The delegation d is over, and no child but d's becomes resumable. *)
LEMMA EndedDelegation ==
  ASSUME IInv, Advances, NEW d \in Tasks, task[d].st = "pending", Ends(d, "ended"),
         again' \in [Tasks -> AgainRecords],
         \A c \in Tasks : again'[c].st # "none" => again[c].st # "none" \/ c = d,
         \A c \in Tasks : again'[c].st = "fresh" => again[c].st = "fresh" \/ c = d
  PROVE  DelegationsKept'
  <1>1. task \in [Tasks -> TaskRecords] /\ InOrder /\ Resumes /\ AcceptedWhereLaunched
    BY DelegationsTyped DEF DelegationsKept
  <1>. DEFINE o == [NoTask EXCEPT !.st = "ended", !.resume = task[d].resume]
  <1>2. task' = [task EXCEPT ![d] = o]
    BY DEF Ends
  <1>3. o \in TaskRecords /\ o.st = "ended" /\ o.resume = task[d].resume
    BY <1>1, OverRecord DEF TaskRecords
  <1>. HIDE DEF o
  <1>4. task' \in [Tasks -> TaskRecords]
    BY <1>1, <1>2, <1>3
  <1>5. \A e \in Tasks : /\ task'[e].resume = task[e].resume
                         /\ task'[e].st = IF e = d THEN "ended" ELSE task[e].st
                         /\ e # d => task'[e] = task[e]
    BY <1>1, <1>2, <1>3
  <1>6. InOrder'
    BY <1>1, <1>5 DEF InOrder
  <1>7. Resumes'
    <2>1. \A e \in Tasks : task[e].resume # 0 => task[e].resume \in Tasks
      BY <1>1, ConstantTypes DEF TaskRecords, Tasks
    <2>. QED BY <1>1, <1>5, <2>1 DEF Resumes
  <1>8. AcceptedWhereLaunched' /\ LeaseOfLaunch'
    BY <1>1, <1>5, LeasesFollow DEF AcceptedWhereLaunched, LeaseOfLaunch, Advances
  <1>. QED BY <1>4, <1>6, <1>7, <1>8 DEF DelegationsKept

(* A launch takes the first free number. *)
LEMMA NextIsFree ==
  ASSUME IInv, Next1 \in Tasks
  PROVE  /\ task[Next1].st = "none"
         /\ \A e \in Tasks : task[e].st # "none" <=> e < Next1
  <1>1. PICK n \in 0..MaxTasks : \A e \in Tasks : task[e].st # "none" <=> e <= n
    BY DEF IInv, InOrder
  <1>2. {e \in Tasks : task[e].st # "none"} = 1..n
    BY <1>1, ConstantTypes DEF Tasks
  <1>3. Cardinality(1..n) = n
    BY <1>1, ConstantTypes, FS_Interval
  <1>4. Next1 = n + 1
    BY <1>2, <1>3 DEF Next1
  <1>. QED BY <1>1, <1>4, ConstantTypes DEF Tasks

LEMMA LaunchedDelegation ==
  ASSUME IInv, Advances, NEW p \in Primaries, NEW c \in Tasks \cup {0}, Launch(p, c)
  PROVE  DelegationsKept'
  <1>. DEFINE d == Next1
              o == [st |-> "pending", by |-> p, lease |-> LeaseAtLaunch, resume |-> c,
                    at |-> IF LeaseAtLaunch = 0 THEN NoTask.at ELSE safety.lease.at]
  <1>1. /\ task \in [Tasks -> TaskRecords] /\ again \in [Tasks -> AgainRecords]
        /\ InOrder /\ Resumes /\ AcceptedWhereLaunched
    BY DelegationsTyped DEF DelegationsKept
  <1>2. /\ d \in Tasks /\ task' = [task EXCEPT ![d] = o] /\ safety' = safety
        /\ c # 0 => again[c].st = "fresh"
        /\ again' = IF c = 0 THEN again ELSE [again EXCEPT ![c].st = "used"]
    BY DEF Launch, Resumable
  <1>3. task[d].st = "none" /\ \A e \in Tasks : task[e].st # "none" <=> e < d
    BY <1>2, NextIsFree
  <1>4. o \in TaskRecords
    <2>1. safety.lease.id \in 0..MaxLeases /\ safety.lease.at \in Snapshots
      BY DEF IInv, TypeOK, Authorities, Leases
    <2>2. LeaseAtLaunch \in 0..MaxLeases
      BY <2>1, ConstantTypes DEF LeaseAtLaunch
    <2>3. NoTask.at \in Snapshots
      BY EmptySlots DEF TaskRecords
    <2>4. c \in 0..MaxTasks
      BY ConstantTypes DEF Tasks
    <2>. QED BY <2>1, <2>2, <2>3, <2>4 DEF TaskRecords
  <1>5. /\ o.st = "pending" /\ o.resume = c /\ o.lease = LeaseAtLaunch
        /\ o.lease # 0 => o.lease = safety.lease.id /\ o.at = safety.lease.at
    BY DEF LeaseAtLaunch
  <1>. HIDE DEF o, d
  <1>6. task' \in [Tasks -> TaskRecords]
    BY <1>1, <1>2, <1>4
  <1>7. task'[d] = o /\ \A e \in Tasks : e # d => task'[e] = task[e]
    BY <1>1, <1>2
  <1>8. /\ again' \in [Tasks -> AgainRecords]
        /\ \A e \in Tasks : again'[e].st = IF c # 0 /\ e = c THEN "used" ELSE again[e].st
    BY <1>1, <1>2 DEF AgainRecords
  <1>9. InOrder'
    <2>1. d \in 0..MaxTasks /\ \A e \in Tasks : e < d \/ e = d <=> e <= d
      BY <1>2, ConstantTypes DEF Tasks
    <2>2. \A e \in Tasks : task'[e].st # "none" <=> e <= d
      BY <1>2, <1>3, <1>5, <1>7, <2>1
    <2>. QED BY <2>1, <2>2 DEF InOrder
  <1>10. Resumes'
    <2>1. \A e \in Tasks : task[e].resume # 0 => task[e].resume \in Tasks
      BY <1>1, ConstantTypes DEF TaskRecords, Tasks
    <2>2. \A e \in Tasks : again'[e].st # "none" => task'[e].st = "ended"
      BY <1>1, <1>2, <1>3, <1>7, <1>8 DEF Resumes
    <2>3. \A e \in Tasks : task'[e].resume # 0 =>
              task'[task'[e].resume].st = "ended" /\ again'[task'[e].resume].st # "fresh"
      BY <1>1, <1>2, <1>3, <1>5, <1>7, <1>8, <2>1 DEF Resumes
    <2>4. \A e, f \in Tasks : task'[e].resume # 0 /\ task'[f].resume = task'[e].resume => e = f
      BY <1>1, <1>2, <1>5, <1>7 DEF Resumes
    <2>. QED BY <2>2, <2>3, <2>4 DEF Resumes
  <1>11. AcceptedWhereLaunched'
    BY <1>1, <1>5, <1>7 DEF AcceptedWhereLaunched
  <1>12. LeaseOfLaunch'
    <2>1. LeaseAtLaunch <= safety.lease.id
      BY ConstantTypes DEF LeaseAtLaunch, IInv, TypeOK, Authorities, Leases
    <2>2. \A e \in Tasks : e # d /\ task'[e].st = "pending" =>
              /\ task'[e].lease <= safety'.lease.id
              /\ task'[e].lease # 0 /\ task'[e].lease = safety'.lease.id /\ safety'.lease.st = "valid"
                     => task'[e].at = safety'.lease.at
      BY <1>7, LeasesFollow DEF Advances
    <2>. QED BY <1>2, <1>5, <1>7, <2>1, <2>2 DEF LeaseOfLaunch
  <1>. QED BY <1>6, <1>8, <1>9, <1>10, <1>11, <1>12 DEF DelegationsKept

LEMMA ResumeDecided ==
  ASSUME IInv, Advances, NEW p \in Primaries, NEW c \in Tasks,
         ResumeForgotten(p, c) \/ ResumeSpent(p, c)
  PROVE  DelegationsKept'
  <1>1. again[c].st = "fresh" /\ again \in [Tasks -> AgainRecords] /\ UNCHANGED task
    BY DelegationsTyped DEF ResumeForgotten, ResumeSpent, Resumable, DelegationsKept
  <1>2. CASE ResumeForgotten(p, c)
    BY <1>1, <1>2, EmptySlots, SpentDelegations DEF ResumeForgotten
  <1>3. CASE ResumeSpent(p, c)
    <2>. DEFINE a == [again[c] EXCEPT !.st = "used"]
    <2>1. a \in AgainRecords /\ a.st = "used" /\ again' = [again EXCEPT ![c] = a]
      BY <1>1, <1>3 DEF ResumeSpent, AgainRecords
    <2>. HIDE DEF a
    <2>. QED BY <1>1, <2>1, SpentDelegations
  <1>. QED BY <1>2, <1>3

(* A pending delegation that is not where it was launched is not accepted. *)
LEMMA AcceptedEnds ==
  ASSUME IInv, NEW d \in Tasks, ReportAccepted(d)
  PROVE  Ends(d, "ended")
  <1>1. CASE task[d].lease = 0
    BY <1>1 DEF ReportAccepted
  <1>2. CASE task[d].lease # 0
    <2>1. task[d].at = safety.lease.at /\ Snapshot(safety.lease.tree) = safety.lease.at
      BY <1>2 DEF ReportAccepted, LeaseHolds, Holds, IInv, LeaseOfLaunch
    <2>. QED BY <2>1 DEF ReportAccepted
  <1>. QED BY <1>1, <1>2

LEMMA ReportedDelegation ==
  ASSUME IInv, Advances, NEW d \in Tasks, ReportStep(d)
  PROVE  DelegationsKept'
  <1>1. CASE UnknownEnds(d)
    BY <1>1, UnchangedDelegations DEF UnknownEnds
  <1>2. CASE ReportStale(d) \/ ReportAccepted(d) \/ TaskErrors(d)
    <2>1. task[d].st = "pending" /\ Ends(d, "ended")
      BY <1>2, AcceptedEnds DEF ReportStale, ReportAccepted, TaskErrors
    <2>2. /\ task \in [Tasks -> TaskRecords] /\ again \in [Tasks -> AgainRecords]
          /\ task[d].resume \in 0..MaxTasks
      BY DelegationsTyped DEF DelegationsKept, TaskRecords
    <2>. DEFINE a == [st |-> "fresh", by |-> task[d].by, lease |-> task[d].lease]
    <2>3. a \in AgainRecords
      BY <2>2 DEF TaskRecords, AgainRecords
    <2>4. \/ again' = again
          \/ task[d].resume # 0 /\ again' = [again EXCEPT ![task[d].resume] = NoAgain]
          \/ again' = [again EXCEPT ![d] = a]
      BY <1>2 DEF ReportStale, ReportAccepted, TaskErrors, ResumableAfterError
    <2>. HIDE DEF a
    <2>5. /\ again' \in [Tasks -> AgainRecords]
          /\ \A c \in Tasks : again'[c].st # "none" => again[c].st # "none" \/ c = d
          /\ \A c \in Tasks : again'[c].st = "fresh" => again[c].st = "fresh" \/ c = d
      BY <2>2, <2>3, <2>4, EmptySlots
    <2>. QED BY <2>1, <2>5, EndedDelegation
  <1>. QED BY <1>1, <1>2 DEF ReportStep

LEMMA DelegationsStep ==
  ASSUME IInv, [Next]_vars
  PROVE  DelegationsKept'
  <1>0. Advances
    BY AuthorityAdvances
  <1>1. CASE UNCHANGED <<task, again>>
    BY <1>0, <1>1, UnchangedDelegations
  <1>2. ASSUME NEW p \in Primaries, DelegationStep(p) PROVE DelegationsKept'
    BY <1>0, <1>2, LaunchedDelegation, ResumeDecided DEF DelegationStep
  <1>3. ASSUME NEW d \in Tasks, ReportStep(d) PROVE DelegationsKept'
    BY <1>0, <1>3, ReportedDelegation
  <1>4. ASSUME NEW p \in Primaries, Rebind(p) PROVE DelegationsKept'
    BY <1>0, <1>1, <1>4, SupersededDelegations DEF Rebind
  <1>5. CASE Restart \/ \E sha \in Heads, mode \in Modes : Declare(sha, mode)
    BY <1>0, <1>5, SupersededDelegations, ZenonT(60) DEF Restart, Declare, Superseded
  <1>6. ASSUME NEW p \in Primaries, AuthorityStep(p), ~Rebind(p) PROVE UNCHANGED <<task, again>>
    BY <1>6 DEF AuthorityStep, LeaseCheck, BeginSetup, BeginProof, Begin, SetupRuns, ProofRuns,
        CallFails, EndSetup, EndProof, EndProofStale, Over
  <1>7. ASSUME NEW c \in Tasks, ChildCall(c) \/ ChildBlocked(c) PROVE UNCHANGED <<task, again>>
    BY <1>7 DEF ChildCall, ChildBlocked
  <1>8. ASSUME \/ Release \/ RemoveLinked \/ UNCHANGED vars
               \/ \E tree \in Trees : Remake(tree) \/ \E h \in Heads : Move(tree, h)
        PROVE  UNCHANGED <<task, again>>
    BY <1>8 DEF Release, RemoveLinked, Remake, Move, vars
  <1>. QED BY <1>1, <1>2, <1>3, <1>4, <1>5, <1>6, <1>7, <1>8 DEF Next

-----------------------------------------------------------------------------
(* The invariant is true at the beginning. *)
LEMMA Initially ==
  ASSUME Init
  PROVE  IInv
  <1>1. Absent \in Checkouts /\ 0 \in Marks
    BY ConstantTypes DEF Absent, Checkouts, Marks
  <1>2. wt \in Snapshots /\ moves \in 0..MaxMoves /\ proved \in 0..MaxEpochs
    BY <1>1, ConstantTypes DEF Init, Snapshots, Checkouts
  <1>3. NoLease \in Leases /\ NoLease.st = "none"
    BY <1>1, ConstantTypes DEF NoLease, Leases, Snapshots, Trees
  <1>4. safety = Bare /\ Bare \in Authorities
    BY <1>3, ConstantTypes DEF Init, Bare, Authorities
  <1>5. /\ Bare.binding = None /\ Bare.mode = "none" /\ Bare.status = "none"
        /\ Bare.lease.st = "none"
    BY <1>3 DEF Bare
  <1>6. op \in [Primaries -> CallRecords] /\ \A p \in Primaries : op[p].kind = "none"
    BY NoOpTyped DEF Init
  <1>7. /\ task \in [Tasks -> TaskRecords] /\ again \in [Tasks -> AgainRecords]
        /\ \A d \in Tasks : task[d].st = "none" /\ task[d].resume = 0 /\ again[d].st = "none"
    BY EmptySlots DEF Init
  <1>8. child \in [Tasks -> ChildRecords]
    BY ConstantTypes DEF Init, NoChild, ChildRecords
  <1>9. TypeOK
    BY <1>2, <1>4, <1>5, <1>6, <1>7, <1>8 DEF TypeOK, CallRecords, TaskRecords, AgainRecords, ChildRecords
  <1>10. VerifiedIsLeased /\ ProofOfThisEpoch
    BY <1>4, <1>5 DEF VerifiedIsLeased, ProofOfThisEpoch
  <1>11. InOrder
    BY <1>7, ConstantTypes DEF InOrder, Tasks
  <1>12. AcceptedWhereLaunched /\ LeaseOfLaunch /\ Resumes /\ AdmittedWell
    BY <1>6, <1>7 DEF AcceptedWhereLaunched, LeaseOfLaunch, Resumes, AdmittedWell
  <1>. QED BY <1>9, <1>10, <1>11, <1>12 DEF IInv

(* Every step keeps it. *)
LEMMA Inductive ==
  ASSUME IInv, [Next]_vars
  PROVE  IInv'
  <1>1. Advances /\ WorktreesTyped' /\ CallsKept' /\ child' \in [Tasks -> ChildRecords]
    BY AuthorityAdvances, WorktreesStep, CallsStep, ChildrenStep
  <1>2. DelegationsKept'
    BY DelegationsStep
  <1>3. TypeOK'
    BY <1>1, <1>2 DEF TypeOK, Advances, Sound, WorktreesTyped, CallsKept, DelegationsKept,
        CallRecords, TaskRecords, AgainRecords, ChildRecords
  <1>4. VerifiedIsLeased' /\ ProofOfThisEpoch'
    BY <1>1 DEF Advances, Sound, ProvedIn, VerifiedIsLeased, ProofOfThisEpoch
  <1>. QED BY <1>1, <1>2, <1>3, <1>4 DEF IInv, CallsKept, DelegationsKept

LEMMA Invariance == Spec => []IInv
  BY Initially, Inductive, PTL DEF Spec

-----------------------------------------------------------------------------
(* Every variable keeps its type; numbers stay within the bounds.          *)
THEOREM AuthorityTypeCorrect == Spec => []TypeOK
  <1>1. IInv => TypeOK
    BY DEF IInv
  <1>. QED BY <1>1, Invariance, PTL

(* A target is verified exactly while its lease is valid, and the lease is *)
(* one of the head it is bound to, through every hook, late proof, rebind, *)
(* child call and restart.                                                 *)
THEOREM LeaseAndStatusAgree == Spec => []VerifiedIsLeased
  <1>1. IInv => VerifiedIsLeased
    BY DEF IInv
  <1>. QED BY <1>1, Invariance, PTL

(* A proof verifies, or refutes, only the epoch it was admitted in. *)
THEOREM ProofsBelongToEpochs == Spec => []ProofOfThisEpoch
  <1>1. IInv => ProofOfThisEpoch
    BY DEF IInv
  <1>. QED BY <1>1, Invariance, PTL

(* A result is accepted only on the checkouts its delegation was launched  *)
(* on, whatever the user does to the worktrees.                            *)
THEOREM ResultsAreOfTheirLaunch == Spec => []AcceptedWhereLaunched
  <1>1. IInv => AcceptedWhereLaunched
    BY DEF IInv
  <1>. QED BY <1>1, Invariance, PTL

(* No child is resumed twice, and none that was resumed is resumable. *)
THEOREM OneResume == Spec => []ResumedOnce
  <1>1. ASSUME IInv PROVE ResumedOnce
    <2>. SUFFICES ASSUME NEW c \in Tasks
                  PROVE  /\ Cardinality({d \in Tasks : task[d].resume = c}) <= 1
                         /\ again[c].st = "fresh" => {d \in Tasks : task[d].resume = c} = {}
      BY Zenon DEF ResumedOnce
    <2>. DEFINE R == {d \in Tasks : task[d].resume = c}
    <2>1. c # 0 /\ Resumes
      BY <1>1, ConstantTypes DEF IInv, Tasks
    <2>2. R = {} \/ \E d \in Tasks : R = {d} /\ again[c].st # "fresh"
      BY <2>1 DEF Resumes
    <2>. HIDE DEF R
    <2>3. Cardinality(R) <= 1 /\ (again[c].st = "fresh" => R = {})
      <3>1. CASE R = {}
        <4>1. Cardinality(R) = 0
          BY <3>1, FS_EmptySet
        <4>. QED BY <3>1, <4>1
      <3>2. ASSUME NEW d \in Tasks, R = {d}, again[c].st # "fresh" PROVE Cardinality(R) = 1
        BY <3>2, FS_Singleton
      <3>. QED BY <2>2, <3>1, <3>2
    <2>. QED BY <2>3 DEF R
  <1>. QED BY <1>1, Invariance, PTL
=============================================================================
