\* Nothing need fail: with two workers the last entry can generate its specs,
\* and take what is in the cache, before another has put its manifests there.
CONSTANTS
  MaxEntries = 8
  Jobs <- MCJobs
SPECIFICATION Spec
INVARIANT AllManifestsPushed
