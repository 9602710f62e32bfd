CONSTANT N = 3
SPECIFICATION OrderingSpec
INVARIANTS NoLostUpdate PublicationSeen SomeoneSeesTheOther WritesPrecedePut LastPutSeesWrites SectionMadeBeforeUse
