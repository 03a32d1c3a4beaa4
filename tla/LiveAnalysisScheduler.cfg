\* Two threads storing speech of two calls, and two workers that could each
\* take a run of the same call.
SPECIFICATION FairSpec
CONSTANTS
    Calls = {c1, c2}
    Speakers = {s1, s2}
    Workers = {w1, w2}
    MaxSpeech = 3
INVARIANT NoSpeechForgotten
PROPERTIES StartsAreSpaced SpeechIsExamined ImplementsCoalescedWork
CHECK_DEADLOCK FALSE
