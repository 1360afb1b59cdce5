SPECIFICATION FairSpec
PROPERTY SpecanStarts
