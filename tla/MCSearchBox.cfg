SPECIFICATION Spec
CONSTANTS
  Letters <- MCLetters
  Blank = 0
  Dot = 9
  Paren = 8
  Texts <- MCTexts
  Local <- MCLocal
  Remote <- MCRemote
  Limit = 3
  MinLength = 1
  Width = 3
  Sources = {"substring", "engine"}
  MaxPending = 2
  Parts = {"box", "index", "remote", "prefetch"}
  Chars <- MCLetters
  Datums <- MCDatums
  TextOrder <- MCTextOrder
  Queries <- MCQueries
  MaxAdds = 4
  Keys = {k1, k2, k3}
  Sufficient = {k3}
  Limiters = {"debounce", "throttle"}
  maxPendingRequests = 1
  CacheSize = 2
  MaxAsks = 5
  Versions = 2
  Ttl = 1
  MaxTime = 3
  MaxFetches = 2
INVARIANTS
  ItemsOfQuery HintExtendsInput InputOfMenu
  SearchFindsPrefixes TransportSound PrefetchSound
PROPERTY LastSearchAnswered
