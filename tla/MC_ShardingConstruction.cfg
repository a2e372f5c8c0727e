CONSTANT NumShards = 2
SPECIFICATION Spec
INVARIANT ConfigChangeReported
