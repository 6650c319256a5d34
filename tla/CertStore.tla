------------------------------- MODULE CertStore -------------------------------
(***************************************************************************)
(* certs.py: the CA pair and the leaf pair of the intercepted host, as     *)
(* files.  Everything runs without an await, so a process is one           *)
(* sequence of steps; what interferes is a crash (or a failed write)       *)
(* between two of them, and an operator who removes files.  A key pair is  *)
(* a number, and a certificate the number of its key and of the key that   *)
(* signed it.  Of a write that was cut short it matters only that the file *)
(* exists and does not load.                                               *)
(***************************************************************************)
EXTENDS Integers

CONSTANTS
  MaxKeys,      \* bound: key pairs generated
  MaxFaults,    \* bound: crashes and failed writes
  MaxRemovals   \* bound: files the operator removes

ASSUME CertStoreAssumption == MaxKeys \in Nat /\ MaxFaults \in Nat /\ MaxRemovals \in Nat

Files == {"ca.key", "ca.crt", "leaf.key", "leaf.crt"}

VARIABLES
  pc,        \* where the process is; "off" when there is none
  caller,    \* who asked for the CA: "start" (serve_socks5) or "request"
  file,      \* the file being written
  keys,      \* key pairs generated so far; the last is the one in hand
  signing,   \* the CA key read to sign the leaf in hand
  disk,      \* each file: "absent", "torn" or "whole"
  pair,      \* the key pair of each whole file, else 0
  signer,    \* the key that signed the last whole leaf.crt
  faults, removed

files == <<disk, pair, signer>>
vars  == <<pc, caller, file, keys, signing, files, faults, removed>>

Exists(f) == disk[f] # "absent"

-----------------------------------------------------------------------------
(* ensure_ca_certificate and ensure_leaf_certificate.                       *)

Start ==
  /\ pc = "off" /\ pc' = "ensure_ca" /\ caller' = "start"
  /\ UNCHANGED <<file, keys, signing, files, faults, removed>>

\* A MITM connection: server_ssl_context_for_host.
Request ==
  /\ pc = "serving" /\ pc' = "ensure_ca" /\ caller' = "request"
  /\ UNCHANGED <<file, keys, signing, files, faults, removed>>

\* Fault: every start of the process makes a CA.
CaFoundAtRequest == caller = "request" /\ Exists("ca.key") /\ Exists("ca.crt")

CaFound == Exists("ca.key") /\ Exists("ca.crt")

UseCa ==
  /\ pc = "ensure_ca" /\ CaFound
  /\ pc' = IF caller = "start" THEN "serving" ELSE "ensure_leaf"
  /\ UNCHANGED <<caller, file, keys, signing, files, faults, removed>>

\* Fault: the key of a CA that was there in part is used again.
GenerateNoKey ==
  /\ pc = "ensure_ca" /\ ~CaFound
  /\ file' = "ca.key" /\ pc' = "truncate"
  /\ UNCHANGED <<caller, keys, signing, files, faults, removed>>

GenerateCa ==
  /\ pc = "ensure_ca" /\ ~CaFound /\ keys < MaxKeys
  /\ keys' = keys + 1 /\ file' = "ca.key" /\ pc' = "truncate"
  /\ UNCHANGED <<caller, signing, files, faults, removed>>

LeafFound == Exists("leaf.key") /\ Exists("leaf.crt")

UseLeaf ==
  /\ pc = "ensure_leaf" /\ LeafFound /\ pc' = "loading"
  /\ UNCHANGED <<caller, file, keys, signing, files, faults, removed>>

\* Both CA files are read and parsed; that they match is not looked at.
SignLeaf ==
  /\ pc = "ensure_leaf" /\ ~LeafFound /\ keys < MaxKeys
  /\ disk["ca.key"] = "whole" /\ disk["ca.crt"] = "whole"
  /\ signing' = pair["ca.key"]
  /\ keys' = keys + 1 /\ file' = "leaf.key" /\ pc' = "truncate"
  /\ UNCHANGED <<caller, files, faults, removed>>

SignFails ==
  /\ pc = "ensure_leaf" /\ ~LeafFound /\ pc' = "refused"
  /\ ~(disk["ca.key"] = "whole" /\ disk["ca.crt"] = "whole")
  /\ UNCHANGED <<caller, file, keys, signing, files, faults, removed>>

\* Fault: a key file that is there is not written again.
TruncateOnce ==
  /\ pc = "truncate"
  /\ IF Exists(file) /\ file \in {"ca.key", "leaf.key"}
     THEN /\ file' = IF file = "ca.key" THEN "ca.crt" ELSE "leaf.crt"
          /\ UNCHANGED <<pc, disk, pair>>
     ELSE /\ pc' = "fill" /\ file' = file
          /\ disk' = [disk EXCEPT ![file] = "torn"] /\ pair' = [pair EXCEPT ![file] = 0]
  /\ UNCHANGED <<caller, keys, signing, signer, faults, removed>>

\* write_bytes opens the file, truncating it,
Truncate ==
  /\ pc = "truncate" /\ pc' = "fill"
  /\ disk' = [disk EXCEPT ![file] = "torn"] /\ pair' = [pair EXCEPT ![file] = 0]
  /\ UNCHANGED <<caller, file, keys, signing, signer, faults, removed>>

\* The key file first, then the certificate, then back to the caller.
AfterWrite ==
  \/ file = "ca.key" /\ pc' = "truncate" /\ file' = "ca.crt"
  \/ file = "ca.crt" /\ pc' = (IF caller = "start" THEN "serving" ELSE "ensure_leaf") /\ file' = file
  \/ file = "leaf.key" /\ pc' = "truncate" /\ file' = "leaf.crt"
  \/ file = "leaf.crt" /\ pc' = "loading" /\ file' = file

\* and fills it (or an unlinked file, when it was removed meanwhile).
Fill ==
  /\ pc = "fill" /\ AfterWrite
  /\ IF Exists(file)
     THEN /\ disk' = [disk EXCEPT ![file] = "whole"] /\ pair' = [pair EXCEPT ![file] = keys]
          /\ signer' = IF file = "leaf.crt" THEN signing ELSE signer
     ELSE UNCHANGED files
  /\ UNCHANGED <<caller, keys, signing, faults, removed>>

\* load_cert_chain parses both files and compares their keys.
Load ==
  /\ pc = "loading"
  /\ pc' = IF disk["leaf.key"] = "whole" /\ pair["leaf.key"] = pair["leaf.crt"]
           THEN "served" ELSE "refused"
  /\ UNCHANGED <<caller, file, keys, signing, files, faults, removed>>

\* The connection is over, whichever way.
Answered ==
  /\ pc \in {"served", "refused"} /\ pc' = "serving"
  /\ UNCHANGED <<caller, file, keys, signing, files, faults, removed>>

-----------------------------------------------------------------------------
(* Faults and the operator.                                                 *)

\* The process dies anywhere, also between truncating a file and filling it.
Crash ==
  /\ pc # "off" /\ pc' = "off" /\ faults < MaxFaults /\ faults' = faults + 1
  /\ UNCHANGED <<caller, file, keys, signing, files, removed>>

\* write_bytes raises: at the start that ends the process, later the connection.
WriteFails ==
  /\ pc \in {"truncate", "fill"} /\ faults < MaxFaults /\ faults' = faults + 1
  /\ pc' = IF caller = "start" THEN "off" ELSE "refused"
  /\ UNCHANGED <<caller, file, keys, signing, files, removed>>

Remove(f) ==
  /\ Exists(f) /\ removed < MaxRemovals /\ removed' = removed + 1
  /\ disk' = [disk EXCEPT ![f] = "absent"] /\ pair' = [pair EXCEPT ![f] = 0]
  /\ UNCHANGED <<pc, caller, file, keys, signing, signer, faults>>

-----------------------------------------------------------------------------
Init ==
  /\ pc = "off" /\ caller = "start" /\ file = "ca.key" /\ keys = 0 /\ signing = 0
  /\ disk = [f \in Files |-> "absent"] /\ pair = [f \in Files |-> 0] /\ signer = 0
  /\ faults = 0 /\ removed = 0

Process ==
  \/ Start \/ Request \/ UseCa \/ GenerateCa \/ UseLeaf \/ SignLeaf \/ SignFails
  \/ Truncate \/ Fill \/ Load \/ Answered

Next == Process \/ Crash \/ WriteFails \/ \E f \in Files : Remove(f)

Spec == Init /\ [][Next]_vars

-----------------------------------------------------------------------------
(* Properties.                                                              *)

\* Types; a file loads exactly if it holds a key pair that was generated.
TypeOK ==
  /\ pc \in {"off", "ensure_ca", "serving", "ensure_leaf", "truncate", "fill", "loading",
            "served", "refused"}
  /\ caller \in {"start", "request"} /\ file \in Files
  /\ keys \in 0 .. MaxKeys /\ signing \in 0 .. MaxKeys /\ signer \in 0 .. MaxKeys
  /\ disk \in [Files -> {"absent", "torn", "whole"}]
  /\ pair \in [Files -> 0 .. MaxKeys]
  /\ \A f \in Files : (disk[f] = "whole" <=> pair[f] # 0) /\ pair[f] <= keys
  /\ faults \in 0 .. MaxFaults /\ removed \in 0 .. MaxRemovals

CaWhole ==
  disk["ca.key"] = "whole" /\ disk["ca.crt"] = "whole" /\ pair["ca.key"] = pair["ca.crt"]

\* Clients trust the CA they installed: whatever crashes, restarts and requests
\* do, the proxy never touches a CA that is complete.
CaIsStable ==
  [][CaWhole /\ removed' = removed =>
       \A f \in {"ca.key", "ca.crt"} : disk'[f] = disk[f] /\ pair'[f] = pair[f]]_vars

\* While the operator leaves the files alone, crashes and failed writes may tear
\* files but never mix them up: a key and a certificate that load belong
\* together, and a leaf that loads was signed by the CA beside it.
NeverMismatched ==
  removed = 0 =>
    /\ disk["ca.key"] = "whole" /\ disk["ca.crt"] = "whole" => pair["ca.key"] = pair["ca.crt"]
    /\ disk["leaf.key"] = "whole" /\ disk["leaf.crt"] = "whole" =>
         pair["leaf.key"] = pair["leaf.crt"]
    /\ disk["leaf.crt"] = "whole" => disk["ca.crt"] = "whole" /\ signer = pair["ca.crt"]

\* While the operator leaves the files alone, a MITM connection is refused only
\* over a file that was cut short or could not be written.
OnlyTornRefuses == pc = "refused" /\ removed = 0 => \E f \in Files : disk[f] # "whole"

\* README: "The proxy generates a local CA at ./certs/ca.crt": a proxy that
\* serves has one that loads.
CaIsGenerated == pc = "serving" => CaWhole
=============================================================================
