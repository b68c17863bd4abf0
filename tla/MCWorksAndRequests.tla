-------------------------- MODULE MCWorksAndRequests --------------------------
(* Works and requests for TLC: a work with four copies, two of them at one  *)
(* address and one of another DOI; the same work without any copy; a thesis *)
(* without a DOI.                                                           *)
CONSTANT None

Copy(n, d, v, u, o, r) ==
  [name |-> n, doi |-> d, version |-> v, url |-> u, open |-> o, repository |-> r]

ArticleCopies ==
  {Copy(1, "d1", "publishedVersion", "u1", TRUE, FALSE),
   Copy(2, "d2", "submittedVersion", "u2", TRUE, TRUE),
   Copy(3, "d1", "acceptedVersion", "u1", TRUE, TRUE),
   Copy(4, "d1", "acceptedVersion", "u4", TRUE, TRUE)}

ThesisCopies ==
  {Copy(1, None, "submittedVersion", "u1", TRUE, TRUE),
   Copy(2, None, "publishedVersion", "u2", FALSE, FALSE)}

Work(id, doi, hosted, thesis, copies) ==
  [id |-> id, doi |-> doi, pdf |-> hosted.pdf, xml |-> hosted.xml, thesis |-> thesis,
   locations |-> copies]

MCWorks ==
  {Work("w1", "d1", [pdf |-> TRUE, xml |-> TRUE], FALSE, ArticleCopies),
   Work("w1", "d1", [pdf |-> FALSE, xml |-> FALSE], FALSE, {}),
   Work("w2", None, [pdf |-> TRUE, xml |-> FALSE], TRUE, ThesisCopies)}

Request(doi, id, hash) ==
  [doi : {doi}, id : {id}, hash : {hash}, provider : {"auto", "anna", "openalex"},
   format : {None, "epub", "xml"}, artifact : {"pdf", "tei_xml"},
   location : {None, 2, 9}, version : {None, "submittedVersion"}]
MCRequests ==
  Request("d1", None, None) \cup Request("d2", None, None) \cup Request("w2", None, None)
  \cup Request(None, "w2", None) \cup Request(None, None, "h")
  \cup {r \in Request("d1", None, "h") : r.format = None /\ r.location = None /\ r.version = None}
=============================================================================
