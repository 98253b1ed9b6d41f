\* Every Kubernetes version that the validation accepts.
CONSTANT Descriptors <- MCDescriptors
SPECIFICATION Spec
INVARIANT SupportedVersionsInstall
CHECK_DEADLOCK FALSE
