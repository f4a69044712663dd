CONSTANTS
    Rates <- MCRates
    LowestRate = 2
    MaxRates <- MCMaxRates
    MinMaxRate = 2
    Msecs <- MCMsecs
    MaxMsec = 3
    DownloadRate = 6
    DownloadMsec = 3
    Sizes <- MCSizes
    FragmentSize = 4
    RateSize = 5
    Header = 2
    Second = 5
    FrameMsecs <- MCFrameMsecs
SPECIFICATION FairSpec
INVARIANTS RateKept NotStarved NotCutOff
PROPERTIES Paced FragmentsEnd
