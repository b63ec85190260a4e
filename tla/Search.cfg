SPECIFICATION Spec
CONSTANTS
    f1 = f1  f2 = f2  f3 = f3  f4 = f4  f5 = f5
    n1 = n1  n2 = n2  n3 = n3  n4 = n4  n5 = n5
    IntHalf = 8
    Today <- MCToday
    Files = {f1, f2, f3, f4, f5}
    File <- MCFile
    Asked = {n1, n2, n5}
    Tight = {n2}
    SizeTexts <- MCSizeTexts
    ExtTexts <- MCExtTexts
    DateTexts <- MCDateTexts
    MaxFds = 5
    Faults = {"walk", "tar"}
INVARIANTS TypeOK WritesLive DescriptorsKept NameFound  DatesAreReal
PROPERTY Answered
\* The child may have died.
CHECK_DEADLOCK FALSE
