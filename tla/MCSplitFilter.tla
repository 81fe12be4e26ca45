--------------------------- MODULE MCSplitFilter ----------------------------
(* The splitter and the file source for TLC: a behaviour is of one of the  *)
(* two filters.                                                            *)
EXTENDS WebmSource

VARIABLE kind

\* every cluster has a video block, as the muxer writes them
WithVideo == {{"video"}, {"video", "audio"}}

MaybeCached == BOOLEAN

Splitter == kind = "webmsplit"
Source   == kind = "webmsource"

FiltersInit ==
  /\ kind \in {"webmsplit", "webmsource"}
  /\ (Splitter /\ SplitInit) \/ (Source /\ SourceInit)

FiltersNext ==
  \/ Splitter /\ SplitNext /\ UNCHANGED kind
  \/ Source /\ SourceNext /\ UNCHANGED kind

FiltersSpec ==
  /\ FiltersInit /\ [][FiltersNext]_<<svars, kind>>
  /\ WF_svars(Splitter /\ ParserRuns)
  /\ \A p \in Tracks :
       /\ WF_svars(Splitter /\ PinLooks(p))
       /\ WF_svars(IF Splitter THEN PinWorks(p) ELSE SourcePinWorks(p))
       /\ WF_svars(BuffersCome(p)) /\ WF_svars(ReceiveReturns(p))
  /\ WF_svars(IF Splitter THEN CallGoesOn ELSE SourceCallGoesOn)
=============================================================================
