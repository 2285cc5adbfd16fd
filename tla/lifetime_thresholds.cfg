CONSTANTS
    Lifetimes <- ThresholdLifetimes
    MaxLatency = 2
    MaxTimeout = 250
    Stores = {"memory", "remote"}
SPECIFICATION TLFairSpec
PROPERTIES RenewalIsEager TokensAreReplaced
