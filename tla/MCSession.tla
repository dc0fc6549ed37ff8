------------------------------ MODULE MCSession ------------------------------
(***************************************************************************)
(* Small instances of Session: one source file "c" and one header "h"; a   *)
(* header may be dropped on either zone and may be rejected by ingestion.  *)
(***************************************************************************)
EXTENDS Session, TLC

CONSTANTS c, h, v, w

Files(pairs) ==
  [n \in FileNames |-> IF n \in DOMAIN pairs THEN pairs[n] ELSE NoFile]

\* A drop of the source, of a newer version of it, of a rejected header (which
\* shadows a good one as a good header would).
MCAppLoads == {Files(c :> v), Files(c :> w), Files(h :> Rejected)}
MCExtLoads == {Files(h :> v), Files(h :> Rejected)}
\* Fewer, for the runs where drops overlap: the source, and one header.
MCAppLoadsFew == {Files(c :> v)}
MCExtLoadsFew == {Files(h :> v)}
\* Headers only, where the analysis does not matter.
MCAppLoadsHeader == {Files(h :> v)}

\* Ids are random and slots are interchangeable: nothing orders them.
Symmetry == Permutations(AppIds) \cup Permutations(Drops)
==============================================================================
