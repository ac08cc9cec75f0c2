\* Paths of up to three bytes over ' ' (32) < '/' (47) < ':' (58) < 'a' (97):
\* the bytes that sort a non-descendant sibling ("a a") before the first
\* descendant ("a/a") and the two separators; up to three nodes in the index.
CONSTANTS
    Chars = {32, 47, 58, 97}
    MaxLen = 3
    MaxTree = 3
SPECIFICATION Spec
INVARIANTS TypeOK CmpIsStrOrder PruneCorrect
