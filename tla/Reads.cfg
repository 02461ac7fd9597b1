SPECIFICATION Spec
CONSTANTS
    s1 = s1
    s2 = s2
    s3 = s3
    r1 = r1
    r2 = r2
    r3 = r3
    Sources = {s1, s2, s3}
    Records = {r1, r2, r3}
    SourceOf <- MCSourceOf
    CategoryOf <- MCCategoryOf
    Categories <- MCCategories
    Limits <- MCLimits
    Groups <- MCGroups
    GroupLimit = 2
    Ageing = {r3}
    CriticalGroups <- MCCriticalGroups
    Failing = {"unavailable"}
SYMMETRY MCSymmetry
INVARIANT CategoriesRepresented
INVARIANT QuietSourcesAgree
INVARIANT GroupSpeaksForItself
INVARIANT FailuresAreNotHidden
INVARIANT CriticalGroupsSound
