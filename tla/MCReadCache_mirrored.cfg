SPECIFICATION Spec
CONSTANTS
  Calls = {c1, c2}
  Urls = {u, v}
  Texts = {x}
  NoCall = NoCall
  NoUrl = NoUrl
  NoText = NoText
  MaxLoops = 0
INVARIANTS
  MirrorsWereRead
