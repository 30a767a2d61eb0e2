SPECIFICATION Spec
CONSTANTS
  l = l
  r1 = r1
  r2 = r2
  LocalName = {l}
  RemoteName = {r1, r2}
  NoName = NoName
  LocalTool <- MCLocalTool
  Rules <- MCRules
  MaxRules = 2
  MaxOffer = 2
INVARIANTS RanAsJudged AddingTightens ClaimsDoNotLoosen OneBadToolCostsOne
PROPERTIES NoShadowing
