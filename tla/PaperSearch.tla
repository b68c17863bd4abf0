---------------------------- MODULE PaperSearch ----------------------------
(***************************************************************************)
(* A chain of article_search or article_details calls: the first one of a  *)
(* caller's choice, each later one with the arguments that the previous    *)
(* answer offered (next_search_args, next_details_args).  A call chooses a *)
(* provider, may fall back from OpenAlex to the archive, and returns one   *)
(* page (paper_service.go, papers/search.go, papers/details.go).           *)
(*                                                                         *)
(* The hits of a provider are 1 .. hits; OpenAlex's even ones have no copy *)
(* to download.  Filters are told apart by who understands them.  What     *)
(* they select, and how a page is parsed, is left out.                     *)
(***************************************************************************)
EXTENDS Naturals, Sequences

CONSTANTS
  HitCounts,    \* how many hits a search, or locations a work, may have
  Listable,     \* hits that OpenAlex lists by page number (10000)
  Limits,       \* page sizes that callers ask for
  ArchivePage,  \* hits on a page of the archive (50)
  MaxPages,     \* pages of an archive search
  PerPage,      \* locations on a page of details (5)
  None

VARIABLES
  wanted, \* arguments of the first call, None before it
  args,   \* arguments of the call that runs or ran last
  conf,   \* which providers are configured
  hits,   \* how many hits each provider has
  state,  \* where the call is
  got,    \* the pages that the chain has delivered, each with its provider
  next    \* the arguments that the last answer offers, or None

svars == <<wanted, args, conf, hits, state, got, next>>

Exact(o) == o.query \in {"doi", "wid"}

(* Filters, sorts and identifiers that only one provider understands.  A   *)
(* year range ("value") and a sort by citations ("sort") are values of     *)
(* filters that both know.                                                 *)
ArchiveTerms(o) == o.terms = "archive"
OpenAlexTerms(o) ==
  o.terms \in {"openalex", "value", "sort"} \/ o.cursor # None \/ o.query = "wid"

(* Search refuses these.  An identifier goes with any sort but not with    *)
(* filters that select.                                                    *)
Incompatible(o) ==
  \/ Exact(o) /\ (o.terms \in {"both", "openalex", "value"} \/ o.cursor # None \/ o.page > 1)
  \/ o.terms = "mixed"
  \/ ArchiveTerms(o) /\ OpenAlexTerms(o)
  \/ o.provider = "openalex" /\ ArchiveTerms(o)
  \/ o.provider = "anna" /\ OpenAlexTerms(o)

(* legacyArticleSearch: the archive's own search answers. *)
Legacy(o) ==
  /\ o.provider = "anna" \/ (o.provider = "auto" /\ ~conf.key)
  /\ o.terms \notin {"openalex", "mixed"} /\ o.cursor = None /\ o.query # "wid"

ToArchive(o) ==
  \/ o.provider = "anna" \/ ArchiveTerms(o)
  \/ o.provider = "auto" /\ ~conf.key /\ ~OpenAlexTerms(o)

(* NormalizeSearch refuses a value that the archive does not know. *)
UnknownToArchive(o) == o.terms \in {"value", "sort"}

Least(a, b) == IF a < b THEN a ELSE b

(* How many of total are left after skip, and at most limit. *)
Share(total, skip, limit) == Least(limit, IF total > skip THEN total - skip ELSE 0)

Searches ==
  [tool : {"search"}, query : {"words", "doi", "wid"}, provider : {"auto", "anna", "openalex"},
   terms : {"none", "both", "archive", "openalex", "value", "sort", "mixed"}, page : 1..2,
   cursor : {None, 0}, limit : Limits, downloadable : BOOLEAN]

Details ==
  [tool : {"details"}, query : {"hash", "doi", "wid"}, provider : {"auto", "anna", "openalex"},
   terms : {"none"}, page : {1}, cursor : {None}, limit : {PerPage}, downloadable : {FALSE}]

(* What a call may have, the arguments that answers offer included. *)
Arguments ==
  [tool : {"search", "details"}, query : {"words", "hash", "doi", "wid"},
   provider : {"auto", "anna", "openalex"},
   terms : {"none", "both", "archive", "openalex", "value", "sort", "mixed"}, page : Nat \ {0},
   cursor : Nat \cup {None}, limit : Nat, downloadable : BOOLEAN]

Start ==
  /\ state = "idle"
  /\ wanted' \in Searches \cup Details /\ args' = wanted'
  /\ conf' \in [key : BOOLEAN, archive : BOOLEAN]
  /\ hits' \in [openalex : HitCounts, anna : HitCounts]
  /\ state' = "begin"
  /\ UNCHANGED <<got, next>>

(* The caller replays the arguments as they are. *)
Follow ==
  /\ state = "done" /\ next # None
  /\ args' = next /\ next' = None
  /\ state' = "begin"
  /\ UNCHANGED <<wanted, conf, hits, got>>

(* paperSearch and Search choose who is wanted. *)
Begin ==
  /\ state = "begin" /\ args.tool = "search"
  /\ state' =
       CASE Legacy(args) -> IF UnknownToArchive(args) THEN "refused" ELSE "legacy"
         [] ~Legacy(args) /\ Incompatible(args) -> "refused"
         [] ~Legacy(args) /\ ~Incompatible(args) /\ ToArchive(args) -> "archive"
         [] OTHER -> "openalex"
  /\ UNCHANGED <<wanted, args, conf, hits, got, next>>

(* A page has n hits after the first skip ones.  Of OpenAlex's, a call may *)
(* want those that it can download.                                        *)
Deliver(provider, skip, n) ==
  /\ got' = Append(got, [by |-> provider, after |-> skip, upto |-> skip + n,
                         downloadable |-> args.downloadable])
  /\ state' = "done"

Shows(p, h) ==
  /\ p.after < h /\ h <= p.upto
  /\ p.by = "openalex" /\ p.downloadable => h % 2 = 1

(* searchValues refuses a page past the cap, and a page with a cursor. *)
BeyondCap(o) ==
  IF o.cursor = None THEN o.page > Listable \div o.limit ELSE o.page > 1

(* Mutant of MorePages: one more page than OpenAlex lists. *)
MorePagesThanListed(o) == o.page * o.limit < hits.openalex

MorePages(o) == o.page * o.limit < hits.openalex /\ o.page < Listable \div o.limit

(* Mutant of MayFallBack: the archive is asked in spite of the filters. *)
FallBackAlways == args.provider = "auto" /\ conf.archive /\ args.page = 1

(* An automatic search may go on at the archive: not when a filter is only *)
(* OpenAlex's, and not from a later page.                                  *)
MayFallBack == args.provider = "auto" /\ ~OpenAlexTerms(args) /\ conf.archive /\ args.page = 1

(* A page of hits, by number or from where the cursor points. *)
OpenAlexAnswers ==
  /\ state = "openalex" /\ conf.key /\ ~BeyondCap(args)
  /\ LET skip == IF args.cursor = None THEN (args.page - 1) * args.limit ELSE args.cursor
         n    == IF Exact(args) THEN 1 ELSE Share(hits.openalex, skip, args.limit)
     IN  /\ Exact(args) \/ hits.openalex > 0 \/ ~MayFallBack
         /\ Deliver("openalex", skip, n)
         /\ next' =
              CASE Exact(args) -> None
                [] ~Exact(args) /\ args.cursor # None /\ skip + n < hits.openalex ->
                     [args EXCEPT !.provider = "openalex", !.cursor = skip + n]
                [] ~Exact(args) /\ args.cursor = None /\ MorePages(args) ->
                     [args EXCEPT !.provider = "openalex", !.page = @ + 1]
                [] OTHER -> None
  /\ UNCHANGED <<wanted, args, conf, hits>>

(* OpenAlex finds nothing. *)
NothingFound ==
  /\ state = "openalex" /\ conf.key /\ ~Exact(args) /\ ~BeyondCap(args)
  /\ hits.openalex = 0 /\ MayFallBack
  /\ state' = "empty"
  /\ UNCHANGED <<wanted, args, conf, hits, got, next>>

(* The archive's failure leaves an empty page with a warning. *)
StaysEmpty ==
  /\ state = "empty"
  /\ Deliver("openalex", 0, 0)
  /\ UNCHANGED <<wanted, args, conf, hits, next>>

(* OpenAlex refuses the arguments, or the caller's time is over. *)
OpenAlexRefuses ==
  /\ state = "openalex"
  /\ state' = IF BeyondCap(args) THEN "refused" ELSE "failed"
  /\ UNCHANGED <<wanted, args, conf, hits, got, next>>

(* It has no key, does not answer or does not know the work. *)
OpenAlexFails ==
  /\ state = "openalex" /\ ~BeyondCap(args)
  /\ state' = IF MayFallBack THEN "fallback" ELSE "failed"
  /\ UNCHANGED <<wanted, args, conf, hits, got, next>>

(* The archive has a page after this one. *)
MoreInArchive == args.page < MaxPages /\ hits.anna > args.page * ArchivePage

(* A page of the archive is cut to the limit of the call. *)
Trimmed(n) == Least(n, args.limit)

(* The archive's own search offers no arguments for the next page. *)
ArchiveAnswers ==
  /\ state \in {"archive", "fallback", "empty", "legacy"} /\ conf.archive
  /\ LET skip == (args.page - 1) * ArchivePage
         n    == IF Exact(args) THEN 1 ELSE Share(hits.anna, skip, ArchivePage)
     IN  /\ Deliver("anna", skip, Trimmed(n))
         /\ next' = IF state # "legacy" /\ ~Exact(args) /\ MoreInArchive
                    THEN [args EXCEPT !.provider = "anna", !.page = @ + 1] ELSE None
  /\ UNCHANGED <<wanted, args, conf, hits>>

(* Or the caller's time is over. *)
ArchiveFails ==
  /\ state \in {"archive", "fallback", "empty", "legacy"}
  /\ state' = "failed"
  /\ UNCHANGED <<wanted, args, conf, hits, got, next>>

(* One page of a work's locations.  The archive's record has none. *)
DetailsAnswers ==
  /\ state = "begin" /\ args.tool = "details"
  /\ LET oa   == args.query = "wid" \/ (args.query = "doi" /\ args.provider # "anna"
                                        /\ (conf.key \/ args.provider = "openalex"))
         skip == (args.page - 1) * PerPage
         n    == IF oa THEN Share(hits.openalex, skip, PerPage) ELSE 1
     IN  /\ IF oa THEN conf.key /\ args.provider # "anna"
                  ELSE conf.archive /\ (args.query = "hash" => args.provider # "openalex")
         /\ Deliver(IF oa THEN "openalex" ELSE "anna", IF oa THEN skip ELSE 0, n)
         /\ next' = IF oa /\ skip + n < hits.openalex
                    THEN [args EXCEPT !.provider = "openalex", !.query = "wid", !.page = @ + 1]
                    ELSE None
  /\ UNCHANGED <<wanted, args, conf, hits>>

DetailsFail ==
  /\ state = "begin" /\ args.tool = "details"
  /\ state' = "failed"
  /\ UNCHANGED <<wanted, args, conf, hits, got, next>>

Init ==
  /\ wanted = None /\ args = None /\ next = None
  /\ conf = [key |-> FALSE, archive |-> FALSE]
  /\ hits = [openalex |-> 0, anna |-> 0]
  /\ state = "idle" /\ got = <<>>

Next ==
  \/ Start \/ Follow \/ Begin \/ OpenAlexAnswers \/ NothingFound \/ StaysEmpty \/ OpenAlexRefuses
  \/ OpenAlexFails \/ ArchiveAnswers \/ ArchiveFails \/ DetailsAnswers \/ DetailsFail

Spec == Init /\ [][Next]_svars

(***************************************************************************)
(* Properties                                                              *)
(***************************************************************************)

Providers == {got[i].by : i \in DOMAIN got}

(* HOW-IT-WORKS.md: "Every result in results matches all filters", and a   *)
(* provider that was named is the only one.  Whoever answers, at once,     *)
(* after a fallback or on a later page, understands every filter of the    *)
(* first call.                                                             *)
AnswersMatchFilters ==
  /\ "anna" \in Providers =>
       wanted.provider # "openalex" /\ (wanted.tool = "search" => ~OpenAlexTerms(wanted))
  /\ "openalex" \in Providers => wanted.provider # "anna" /\ ~ArchiveTerms(wanted)

(* How far page numbers reach: the last whole page within the cap. *)
Listed(o) == IF o.cursor = None /\ o.tool = "search" THEN (Listable \div o.limit) * o.limit ELSE hits.openalex

(* instructions.md: "Replay next_search_args unchanged to retain provider, *)
(* filters and continuation".  Arguments that were offered are never       *)
(* refused, the chain stays with one provider, and following it to its end *)
(* delivers every hit or location that OpenAlex lists, once and in order.  *)
NextArgsLoseNothing ==
  /\ state = "refused" => got = <<>>
  /\ \A i, j \in DOMAIN got : got[i].by = got[j].by /\ (i < j => got[i].upto <= got[j].after)
  /\ state = "done" /\ next = None /\ Providers = {"openalex"}
     /\ wanted.page = 1 /\ (wanted.tool = "details" \/ ~Exact(wanted)) =>
       \A h \in 1..Least(hits.openalex, Listed(wanted)) :
         \/ wanted.downloadable /\ h % 2 = 0
         \/ \E i \in DOMAIN got : Shows(got[i], h)
=============================================================================
