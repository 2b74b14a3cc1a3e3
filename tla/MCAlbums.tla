------------------------------ MODULE MCAlbums ------------------------------
(***************************************************************************)
(* Small instances of Albums and of StaticFiles for TLC, side by side: in  *)
(* a behaviour there are uploads and a listing, or a page is written,      *)
(* fetched and asked for again; what the other module has stays where it   *)
(* begins. The two uploads are of one user, and race for the directories   *)
(* of that user, or of two, and race for the directory of all users.       *)
(***************************************************************************)
EXTENDS Albums, StaticFiles, TLC

Symmetry == Permutations(Process) \cup Permutations(User)

VARIABLE shown  \* the module whose behaviour it is

PagesInit == Init /\ FetchInit /\ shown \in {"albums", "page"}

MakeAlbums == shown = "albums" /\ Next /\ UNCHANGED <<shown, fetch_vars>>

ServePage == shown = "page" /\ FetchNext /\ UNCHANGED <<shown, vars>>

PagesNext == MakeAlbums \/ ServePage

PagesSpec == PagesInit /\ [][PagesNext]_<<shown, vars, fetch_vars>>

=============================================================================
