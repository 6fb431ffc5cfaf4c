\* The initial INVITE and two re-INVITEs of the peer, three failures before the
\* loop guard, one INFO at a time.
CONSTANTS
  MaxSeq = 3
  LoopMax = 3
  Infos = {i1}
SPECIFICATION Spec
INVARIANTS RefsExact FreedClean OneExchange ModifyKept OfferCarried AnswerAwaited ByeSent
PROPERTIES UpcallsToOwner UpcallOrder
CHECK_DEADLOCK FALSE
