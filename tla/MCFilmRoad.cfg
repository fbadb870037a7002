SPECIFICATION RoadSpec
CONSTANTS a = a
          Films = {a}
          Filtered = {a}
          LiveAtFirst = {a}
          Hands = {h}
          Loop = Loop
          Length <- MCLength
          DaySeconds = 3
          DayTokens = 2
          ReadingCost = 2
          JudgeCost = 1
          Retries = 1
          MaxFailures = 1
          JudgeMaxFailures = 2
          MaxFaults = 2
          None = None
INVARIANTS DayIsKept
PROPERTIES EveryFilmEnds
CHECK_DEADLOCK FALSE
