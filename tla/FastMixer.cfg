SPECIFICATION FairSpec
CONSTANTS
    kN = 4
    FastTracks <- MCFastTracks
    MaxTracks = 2
    MaxColdGen = 2
INVARIANTS NoUseAfterRelease MixerMatchesState NoWorkInStandby
PROPERTIES NeverHangs WriteStartsMixing
