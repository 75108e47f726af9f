---------------------------- MODULE MCOcrWorker ----------------------------
(***************************************************************************)
(* Instances of OcrWorker for TLC: images that lack at most one thing, and *)
(* documents of the schemes whose failures differ.                         *)
(***************************************************************************)
EXTENDS OcrWorker, FiniteSets

MCInit ==
  /\ Init
  /\ Cardinality(image.lacks) <= 1
  /\ image.name # "tesseract" => image.lacks = {}
  /\ \A d \in Documents : source[d].scheme \in {"http", "s3", "other", "unparsable"}
  /\ \A d \in Faulty : source[d].blank = {}

MCSpec == MCInit /\ [][Next]_vars /\ \A p \in Processes : WF_vars(Work(p))
=============================================================================
