-------------------------- MODULE MCDownloadReuse ---------------------------
(* Small instances of DownloadReuse for TLC. *)
EXTENDS DownloadReuse, TLC

(* DOIs whose SciDB page has to be read: of one hash, or of none yet.  A   *)
(* download by hash is the first half of such a download, and a link only  *)
(* spares the page.                                                        *)
PagedTasks == {t \in SomeTask : t.doi /\ ~t.link /\ t.hash \in {SomeHash, NoHash}}
=============================================================================
