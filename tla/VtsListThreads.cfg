SPECIFICATION Spec
SYMMETRY Alike
CONSTANTS
  Threads = {a, b, c}
  Elems = {e1, e2, e3}
  Queues = {queue}
  Buckets = {bucket}
  Null = Null
  NoCall = NoCall
  Nobody = Nobody
INVARIANT ListsSound
INVARIANT NoLostWakeup
PROPERTY ImplementsDeques
