\* Two publishers overrun a queue of two; it is closed at any time.
CONSTANTS
  a = a  b = b
  Publishers = {a, b}
  MaxQueue = 2
  MaxEvents = 3
SPECIFICATION QueueSpec
INVARIANTS QueueTypeOK NothingUncounted
PROPERTIES BehavesAsLossyQueue EverythingIsReported
