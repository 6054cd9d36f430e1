SPECIFICATION CanSpec
CONSTANTS
  a = a
  b = b
  c = c
  d = d
  A = A
  B = B
  NoFrame = NoFrame
  Packets = {a, b, c, d}
  Length <- FourLengths
  Sender <- FourSenders
  Mode <- FourModes
  Blocking = {a, c}
  Buffers = 3
  BufferLen = 3
INVARIANTS CanTypeOK RetryDelivers AnswersAsker
PROPERTIES RunsWhatWasSent
