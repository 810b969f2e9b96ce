SPECIFICATION Spec
CONSTANT Repositories <- MCNamedHooks
INVARIANT WhatIsUsedIsJudged
CHECK_DEADLOCK FALSE
