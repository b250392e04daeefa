SPECIFICATION FairSpec
INVARIANTS VolumeKept
PROPERTIES UpdateIsPlanned PassedUpdateServes EveryUpdateEnds
