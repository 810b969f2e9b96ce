SPECIFICATION Spec
CONSTANT Repositories <- MCRepositories
INVARIANTS WhatIsUsedIsJudged NothingUnusedIsJudged MalformedIsReported JudgedOnce
CHECK_DEADLOCK FALSE
