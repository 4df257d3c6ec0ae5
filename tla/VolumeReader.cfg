SPECIFICATION Spec
CONSTANTS
  Archives <- MCArchives
  ReadSizes = {1, 2, 3, 4}
  U32 = 8
  U16 = 16
  NotRead = NotRead
INVARIANTS TypeOK StreamInOrder SeedFollowsStream FailsOnlyBetweenParts HandlesReturned
PROPERTIES DescriptorsOnlyLearn StepsEnd
