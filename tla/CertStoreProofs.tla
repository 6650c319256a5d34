---------------------------- MODULE CertStoreProofs ----------------------------
(***************************************************************************)
(* Safety of CertStore, for any number of keys, faults and removals.  Two  *)
(* inductive invariants: Writing, of what is being written, whatever the   *)
(* operator does; and Layers, of what is on the disk as long as the        *)
(* operator does nothing.                                                  *)
(***************************************************************************)
EXTENDS CertStore, TLAPS

\* Writing a CA never passes through a complete pair.
Writing ==
  /\ pc = "truncate" /\ file = "ca.key" => ~CaFound
  /\ pc = "fill" => disk[file] # "whole"
  /\ pc \in {"truncate", "fill"} /\ file = "ca.crt" =>
       disk["ca.key"] \in {"absent", "whole"} /\ pair["ca.key"] \in {0, keys}
  /\ pc \in {"truncate", "fill"} =>
       keys # 0 /\ (file \in {"ca.key", "ca.crt"} => pair["ca.crt"] # keys)

\* A certificate is there only over its key, and a leaf only over a CA.
Layers ==
  removed = 0 =>
    /\ disk["ca.crt"] # "absent" => disk["ca.key"] = "whole"
    /\ disk["leaf.crt"] # "absent" => disk["leaf.key"] = "whole"
    /\ disk["leaf.key"] # "absent" => CaWhole
    /\ disk["leaf.crt"] = "whole" =>
         signer = pair["ca.crt"] /\ pair["leaf.key"] = pair["leaf.crt"]
    /\ disk["ca.crt"] = "whole" => pair["ca.key"] = pair["ca.crt"]
    /\ pc \in {"truncate", "fill"} =>
         /\ file = "ca.key" => disk["ca.crt"] = "absent"
         /\ file = "ca.crt" => /\ disk["ca.key"] = "whole" /\ pair["ca.key"] = keys
                               /\ disk["ca.crt"] # "whole" /\ disk["leaf.key"] = "absent"
         /\ file \in {"leaf.key", "leaf.crt"} => CaWhole /\ signing = pair["ca.crt"]
         /\ file = "leaf.key" => disk["leaf.crt"] = "absent"
         /\ file = "leaf.crt" => /\ disk["leaf.key"] = "whole" /\ pair["leaf.key"] = keys
                                 /\ disk["leaf.crt"] # "whole"
    /\ pc = "fill" => disk[file] = "torn"
    /\ pc = "truncate" => disk[file] # "whole" \/ file \in {"ca.key", "leaf.key"}
    /\ pc = "refused" => \E f \in Files : disk[f] # "whole"

\* The inductive invariant.
CInv == TypeOK /\ Writing /\ Layers

\* The invariant holds initially.
LEMMA CInvInit == Init => CInv
  <1> SUFFICES ASSUME Init PROVE CInv
    OBVIOUS
  <1>1. TypeOK
    BY CertStoreAssumption DEF Init, TypeOK, Files
  <1>2. Writing /\ Layers
    BY DEF Init, Writing, Layers, CaWhole, CaFound, Exists, Files
  <1>3. QED
    BY <1>1, <1>2 DEF CInv

\* Steps that touch no file.
LEMMA QuietStep ==
  ASSUME CInv, \/ Start \/ Request \/ UseCa \/ GenerateCa \/ UseLeaf \/ SignLeaf \/ SignFails
               \/ Load \/ Answered \/ Crash \/ WriteFails
  PROVE  CInv'
  <1>0. TypeOK /\ Writing /\ Layers
    BY DEF CInv
  <1> USE DEF files, Exists, Files
  <1>1. TypeOK'
    BY <1>0, CertStoreAssumption
       DEF TypeOK, Start, Request, UseCa, GenerateCa, UseLeaf, SignLeaf, SignFails, Load,
           Answered, Crash, WriteFails
  <1>2. Writing'
    <2>1. CASE GenerateCa \/ SignLeaf
      BY <1>0, <2>1, CertStoreAssumption DEF Writing, TypeOK, GenerateCa, SignLeaf, CaFound
    <2>2. CASE Start \/ Request \/ UseCa \/ UseLeaf \/ SignFails \/ Load \/ Answered
               \/ Crash \/ WriteFails
      BY <1>0, <2>2 DEF Writing, Start, Request, UseCa, UseLeaf, SignFails, Load,
           Answered, Crash, WriteFails
    <2>3. QED
      BY <2>1, <2>2
  <1>3. Layers'
    <2>1. CASE GenerateCa
      BY <1>0, <2>1 DEF Layers, TypeOK, GenerateCa, CaFound, CaWhole
    <2>2. CASE SignLeaf
      BY <1>0, <2>2 DEF Layers, TypeOK, SignLeaf, LeafFound, CaWhole
    <2>3. CASE SignFails \/ Load
      BY <1>0, <2>3 DEF Layers, TypeOK, SignFails, Load, LeafFound, CaWhole
    <2>4. CASE WriteFails
      BY <1>0, <2>4 DEF Layers, TypeOK, WriteFails, CaWhole
    <2>5. CASE Start \/ Request \/ UseCa \/ UseLeaf \/ Answered \/ Crash
      BY <1>0, <2>5 DEF Layers, CaWhole, Start, Request, UseCa, UseLeaf, Answered, Crash
    <2>6. QED
      BY <2>1, <2>2, <2>3, <2>4, <2>5
  <1>4. QED
    BY <1>1, <1>2, <1>3 DEF CInv

\* The two halves of a write.
LEMMA WriteStep == ASSUME CInv, Truncate \/ Fill PROVE CInv'
  <1>0. TypeOK /\ Writing /\ Layers
    BY DEF CInv
  <1> USE DEF files, Exists, Files
  <1>1. CASE Truncate
    <2> USE <1>0, <1>1 DEF Truncate
    <2>1. TypeOK'
      BY CertStoreAssumption DEF TypeOK
    <2>2. disk'[file] = "torn" /\ pair'[file] = 0
          /\ \A f \in Files : f # file => disk'[f] = disk[f] /\ pair'[f] = pair[f]
      BY DEF TypeOK
    <2>3. Writing'
      BY <2>2 DEF Writing, TypeOK
    <2>4. Layers'
      <3>1. CASE file \in {"ca.key", "ca.crt"}
        BY <2>2, <3>1 DEF Layers, CaWhole
      <3>2. CASE file \in {"leaf.key", "leaf.crt"}
        BY <2>2, <3>2 DEF Layers, CaWhole
      <3>3. QED
        BY <3>1, <3>2 DEF TypeOK
    <2>5. QED
      BY <2>1, <2>3, <2>4 DEF CInv
  <1>2. CASE Fill
    <2> USE <1>0, <1>2 DEF Fill
    <2>1. TypeOK'
      BY CertStoreAssumption DEF TypeOK, Writing, AfterWrite
    <2>2. CASE ~Exists(file)
      <3>1. removed # 0
        BY <2>2 DEF Writing, Layers, TypeOK
      <3>2. Writing'
        BY <2>2 DEF Writing, TypeOK, AfterWrite, CaFound
      <3>3. QED
        BY <2>1, <3>1, <3>2 DEF CInv, Layers
    <2>3. CASE Exists(file)
      <3>1. /\ disk'[file] = "whole" /\ pair'[file] = keys
            /\ \A f \in Files : f # file => disk'[f] = disk[f] /\ pair'[f] = pair[f]
        BY <2>3 DEF TypeOK
      <3>2. Writing'
        BY <2>3, <3>1 DEF Writing, TypeOK, AfterWrite
      <3>3. Layers'
        BY <2>3, <3>1 DEF Layers, CaWhole, AfterWrite, TypeOK
      <3>4. QED
        BY <2>1, <3>2, <3>3 DEF CInv
    <2>4. QED
      BY <2>2, <2>3
  <1>3. QED
    BY <1>1, <1>2

\* The operator.
LEMMA RemoveStep == ASSUME CInv, NEW f \in Files, Remove(f) PROVE CInv'
  <1> USE DEF CInv, Remove, Exists
  <1>1. TypeOK'
    BY CertStoreAssumption DEF TypeOK
  <1>2. Writing'
    BY DEF Writing, TypeOK, CaFound, Files
  <1>3. removed' # 0
    BY DEF TypeOK
  <1>4. QED
    BY <1>1, <1>2, <1>3 DEF Layers

\* The invariant holds in every reachable state.
THEOREM InvariantHolds == Spec => []CInv
  <1>1. ASSUME CInv, [Next]_vars PROVE CInv'
    <2>1. CASE UNCHANGED vars
      BY <1>1, <2>1 DEF vars, files, CInv, TypeOK, Writing, Layers, CaWhole, CaFound, Exists
    <2>2. QED
      BY <1>1, <2>1, QuietStep, WriteStep, RemoveStep DEF Next, Process
  <1>2. QED
    BY CInvInit, <1>1, PTL DEF Spec

\* The type invariant, for any number of keys, faults and removals.
THEOREM TypeCorrect == Spec => []TypeOK
  <1>1. CInv => TypeOK
    BY DEF CInv
  <1>2. QED
    BY InvariantHolds, <1>1, PTL

\* Crashes tear files but never mix them up.
THEOREM PairsMatch == Spec => []NeverMismatched
  <1>1. CInv => NeverMismatched
    BY DEF CInv, Layers, NeverMismatched, CaWhole, TypeOK
  <1>2. QED
    BY InvariantHolds, <1>1, PTL

\* Only a file that was cut short or is missing makes the proxy refuse.
THEOREM RefusalHasCause == Spec => []OnlyTornRefuses
  <1>1. CInv => OnlyTornRefuses
    BY DEF CInv, Layers, OnlyTornRefuses
  <1>2. QED
    BY InvariantHolds, <1>1, PTL

\* No step of the proxy touches a complete CA, even after removals.
THEOREM CompleteCaIsKept == Spec => CaIsStable
  <1>1. ASSUME CInv, [Next]_vars, CaWhole, removed' = removed, NEW f \in {"ca.key", "ca.crt"}
        PROVE  disk'[f] = disk[f] /\ pair'[f] = pair[f]
    <2>1. CASE UNCHANGED files
      BY <2>1 DEF files
    <2>2. CASE Truncate \/ Fill
      <3>1. file # f
        <4>1. CASE Truncate
          BY <1>1, <4>1 DEF Truncate, CInv, TypeOK, Writing, CaWhole, CaFound, Exists, Files
        <4>2. CASE Fill
          BY <1>1, <4>2 DEF Fill, CInv, Writing, CaWhole
        <4>3. QED
          BY <2>2, <4>1, <4>2
      <3>2. QED
        BY <1>1, <2>2, <3>1 DEF Truncate, Fill, CInv, TypeOK, files, Files
    <2>3. ASSUME NEW g \in Files, Remove(g) PROVE FALSE
      BY <1>1, <2>3 DEF Remove, CInv, TypeOK
    <2>4. QED
      BY <1>1, <2>1, <2>2, <2>3
         DEF Next, Process, vars, files, Start, Request, UseCa, GenerateCa, UseLeaf, SignLeaf,
             SignFails, Load, Answered, Crash, WriteFails
  <1>2. ASSUME CInv, [Next]_vars
        PROVE  [CaWhole /\ removed' = removed =>
                  \A f \in {"ca.key", "ca.crt"} : disk'[f] = disk[f] /\ pair'[f] = pair[f]]_vars
    BY <1>1, <1>2
  <1>3. QED
    BY InvariantHolds, <1>2, PTL DEF CaIsStable, Spec
=============================================================================
