\* Extractions killed anywhere: is a partial file ever mastered?
CONSTANTS
  DonorFiles = {track01, track02, track03, track04, gdi}
  Used = {track01, track02, track03, gdi}
  MaxKills = 2
  Nothing = Nothing
SPECIFICATION DonorSpec
INVARIANT NonePartial
