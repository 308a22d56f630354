CONSTANTS
    a1 = a1
    a2 = a2
    s1 = s1
    s2 = s2
    DefaultAddr = DefaultAddr
    NoFile = NoFile
    Addresses <- MC_Addresses
    Sources <- MC_Sources
    TriedBucketOf <- MC_TriedBucketOf
    NewBucketOf <- MC_NewBucketOf
    ADDRMAN_TRIED_BUCKET_COUNT = 1
    ADDRMAN_TRIED_BUCKET_SIZE = 1
    ADDRMAN_NEW_BUCKET_COUNT = 2
    ADDRMAN_NEW_BUCKET_SIZE = 1
    ADDRMAN_NEW_BUCKETS_PER_ADDRESS = 2
    ADDRMAN_GETADDR_MAX_PCT = 50
    ADDRMAN_GETADDR_MAX = 2500
    MaxIdCount = 4
    MaxAttempts = 1
    InitialFiles <- MC_LegacyFiles
SPECIFICATION Spec
INVARIANT
    BucketCapacity
